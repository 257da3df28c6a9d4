------------------------------- MODULE KbRdt -------------------------------
(***************************************************************************)
(* The resident keyboard driver of dos_asm/kb_drvr/kb_rdt.asm: F2 shows    *)
(* and hides a popup with the CPU's registers over the screen of whatever  *)
(* program is running, and every timer tick redraws it.                    *)
(*                                                                         *)
(* The running program, the two interrupt handlers and the original ones   *)
(* they chain to interleave as the CPU lets them: a handler starts between *)
(* two instructions of the program and runs with interrupts disabled until *)
(* its iret.  The program may run the driver again, which installs another *)
(* instance of it on top of the first.                                     *)
(***************************************************************************)
EXTENDS Naturals, FiniteSets

CONSTANTS
    Cells,         \* the words of video memory under the frame
    Words,         \* what a word of video memory may hold
    Regs,          \* the register contents that show up in the frame
    Picture,       \* Picture[r][c]: what DrawAllRegisters puts in cell c for r
    MaxInstances   \* how many times the driver is installed

ASSUME DriverAssumption ==
    /\ Picture \in [Regs -> [Cells -> Words]]
    /\ MaxInstances \in Nat

BIOS == 0                          \* the handlers found at start-up
Instances == 1..MaxInstances
Codes == {"other", "f2press", "f2release"}   \* scan codes

VARIABLES
    \* Memory of each installed instance
    DO_SHOW_POPUP, RealContentBuffer, FrameContentBuffer,
    orig9, orig8,      \* DOS_INT9_HANDLER, DOS_INT8_HANDLER
    \* The machine
    vec9, vec8,        \* the interrupt table: whose handler is called
    screen,
    irq,               \* the interrupt being handled, or "none"
    at,                \* the instance whose handler is running
    inService,         \* interrupts the controller waits an EOI for
    scan,              \* the code the keyboard holds, or "none"
    \* Installation of the next instance
    installed, stage,
    \* History: what the program believes is on the screen, and what is wrong
    \* with the driver's knowledge of each cell
    truth, defect

driverVars == <<DO_SHOW_POPUP, RealContentBuffer, FrameContentBuffer>>
chainVars == <<orig9, orig8, vec9, vec8, installed, stage>>
cpuVars == <<irq, at, inService>>
history == <<truth, defect>>
vars == <<driverVars, chainVars, screen, cpuVars, scan, history>>

Shown(k) == DO_SHOW_POPUP[k] # 0

-----------------------------------------------------------------------------
(* The program, when no handler runs *)

Program == irq = "none" /\ UNCHANGED <<driverVars, cpuVars, scan>>

PopupShown == \E k \in Instances : Shown(k)

\* The driver learns of a change under the popup at the next timer tick only.
ProgramWrites(c, w) ==
    /\ Program
    /\ screen' = [screen EXCEPT ![c] = w]
    /\ truth' = [truth EXCEPT ![c] = w]
    /\ defect' = [defect EXCEPT ![c] = IF PopupShown THEN "unseen" ELSE "none"]
    /\ UNCHANGED chainVars

\* Scrolling moves words of video memory, the popup's included.
ProgramCopies(c, d) ==
    /\ Program
    /\ screen' = [screen EXCEPT ![c] = screen[d]]
    /\ truth' = [truth EXCEPT ![c] = truth[d]]
    /\ defect' = [defect EXCEPT ![c] =
                     IF PopupShown \/ defect[d] # "none" THEN "copied" ELSE "none"]
    /\ UNCHANGED chainVars

-----------------------------------------------------------------------------
(* Main: install the next instance, one step per pair of instructions that *)
(* an interrupt cannot separate to any effect                              *)

Next_ == installed + 1

\* Faulty: the vector is replaced before it is saved.
SaveInt9_late ==
    /\ Program /\ stage = "start" /\ installed < MaxInstances
    /\ vec9' = Next_
    /\ orig9' = [orig9 EXCEPT ![Next_] = vec9']
    /\ stage' = "saved9"
    /\ UNCHANGED <<orig8, vec8, installed, screen, history>>

SaveInt9 ==
    /\ Program /\ stage = "start" /\ installed < MaxInstances
    /\ orig9' = [orig9 EXCEPT ![Next_] = vec9]
    /\ stage' = "saved9"
    /\ UNCHANGED <<orig8, vec9, vec8, installed, screen, history>>

SetInt9 ==
    /\ Program /\ stage = "saved9"
    /\ vec9' = Next_
    /\ stage' = "set9"
    /\ UNCHANGED <<orig9, orig8, vec8, installed, screen, history>>

SaveInt8 ==
    /\ Program /\ stage = "set9"
    /\ orig8' = [orig8 EXCEPT ![Next_] = vec8]
    /\ stage' = "saved8"
    /\ UNCHANGED <<orig9, vec9, vec8, installed, screen, history>>

\* The last step, and the return to DOS that keeps the instance resident.
SetInt8 ==
    /\ Program /\ stage = "saved8"
    /\ vec8' = Next_
    /\ stage' = "start" /\ installed' = Next_
    /\ UNCHANGED <<orig9, orig8, vec9, screen, history>>

Main == SaveInt9 \/ SetInt9 \/ SaveInt8 \/ SetInt8

-----------------------------------------------------------------------------
(* The handlers *)

\* DrawAllRegisters: every cell of the frame gets its border, blank or digit.
\* Between two handlers the program may have put anything in its registers.
DrawAllRegisters == \E r \in Regs : screen' = Picture[r]

\* CopyFrameToBuffer after a drawing.
RememberPicture(k) ==
    FrameContentBuffer' = [FrameContentBuffer EXCEPT ![k] = screen']

\* xor al, 01h
Toggled(k) == (DO_SHOW_POPUP[k] + 1) % 2

\* ProgCaptureHandler: show the popup over a copy of the screen, or put the
\* copy back (CopyBufferToFrame).
ProgCaptureHandler(k) ==
    /\ DO_SHOW_POPUP' = [DO_SHOW_POPUP EXCEPT ![k] = Toggled(k)]
    /\ UNCHANGED history
    /\ \/ /\ Toggled(k) = 0
          /\ screen' = RealContentBuffer[k]
          /\ UNCHANGED <<RealContentBuffer, FrameContentBuffer>>
       \/ /\ Toggled(k) # 0
          /\ RealContentBuffer' = [RealContentBuffer EXCEPT ![k] = screen]
          /\ DrawAllRegisters
          /\ RememberPicture(k)

\* Faulty: the buffer is copied from the whole screen.
UpdateRealBuffer_all(k) == screen

\* UpdateRealBuffer: a word that is not what the driver drew is the program's.
UpdateRealBuffer(k) ==
    [c \in Cells |-> IF screen[c] = FrameContentBuffer[k][c]
                     THEN RealContentBuffer[k][c] ELSE screen[c]]

\* The changes UpdateRealBuffer sees are no longer unseen.
Learn(k) ==
    /\ RealContentBuffer' = [RealContentBuffer EXCEPT ![k] = UpdateRealBuffer(k)]
    /\ defect' = [c \in Cells |-> IF defect[c] = "unseen"
                                     /\ screen[c] # FrameContentBuffer[k][c]
                                  THEN "none" ELSE defect[c]]

\* Faulty: the new picture is drawn and not remembered.
ProgTimerHandler_forgetful(k) ==
    /\ Learn(k) /\ DrawAllRegisters
    /\ UNCHANGED <<truth, DO_SHOW_POPUP, FrameContentBuffer>>

ProgTimerHandler(k) ==
    /\ Learn(k) /\ DrawAllRegisters /\ RememberPicture(k)
    /\ UNCHANGED <<truth, DO_SHOW_POPUP>>

\* An interrupt is taken when the flag IF is set, and clears it until the iret.
Interrupt(name, vector) ==
    /\ irq = "none"
    /\ irq' = name /\ at' = vector
    /\ inService' = inService \cup {name}
    /\ UNCHANGED <<driverVars, chainVars, screen, scan, history>>

KeyInterrupt == scan # "none" /\ "key" \notin inService /\ Interrupt("key", vec9)
TimerInterrupt == "timer" \notin inService /\ Interrupt("timer", vec8)

\* The two writes to port 61h let the keyboard go on, the one to port 20h tells
\* the interrupt controller that the interrupt is over.
AcknowledgeKey ==
    /\ scan' = "none"
    /\ inService' = inService \ {"key"}
    /\ irq' = "none" /\ at' = BIOS

\* Faulty: a press of F2 goes straight to the iret.
SwallowF2Press_silent(k) ==
    /\ scan = "f2press"
    /\ irq' = "none" /\ at' = BIOS
    /\ UNCHANGED <<inService, scan, driverVars, screen, history>>

SwallowF2Press(k) ==
    /\ scan = "f2press"
    /\ AcknowledgeKey
    /\ UNCHANGED <<driverVars, screen, history>>

\* CaptureKeyboard of instance k.
CaptureKeyboard(k) ==
    /\ irq = "key" /\ at = k
    /\ UNCHANGED chainVars
    /\ \/ /\ scan = "other"
          /\ at' = orig9[k]        \* jmp DOS_INT9_ORIG_FJMP
          /\ UNCHANGED <<irq, inService, scan, driverVars, screen, history>>
       \/ SwallowF2Press(k)
       \/ /\ scan = "f2release"
          /\ ProgCaptureHandler(k)
          /\ AcknowledgeKey

\* TimerHandler of instance k.
TimerHandler(k) ==
    /\ irq = "timer" /\ at = k
    /\ at' = orig8[k]              \* jmp DOS_INT8_ORIG_FJMP
    /\ IF Shown(k) THEN ProgTimerHandler(k)
                   ELSE UNCHANGED <<driverVars, screen, history>>
    /\ UNCHANGED <<irq, inService, chainVars, scan>>

\* The handlers of the BIOS acknowledge their interrupt and return.
BiosKeyHandler ==
    /\ irq = "key" /\ at = BIOS
    /\ AcknowledgeKey
    /\ UNCHANGED <<driverVars, chainVars, screen, history>>

BiosTimerHandler ==
    /\ irq = "timer" /\ at = BIOS
    /\ irq' = "none" /\ inService' = inService \ {"timer"}
    /\ UNCHANGED <<at, driverVars, chainVars, screen, scan, history>>

\* The keyboard sends a code when it may.  A key held down repeats its press,
\* and F2 may be down since before the installation.
KeyEvent(code) ==
    /\ scan = "none"
    /\ scan' = code
    /\ UNCHANGED <<driverVars, chainVars, screen, cpuVars, history>>

-----------------------------------------------------------------------------
Init ==
    /\ screen \in [Cells -> Words] /\ truth = screen
    /\ DO_SHOW_POPUP = [k \in Instances |-> 0]
    /\ RealContentBuffer = [k \in Instances |-> screen]
    /\ FrameContentBuffer = [k \in Instances |-> screen]
    /\ orig9 = [k \in Instances |-> BIOS] /\ orig8 = orig9
    /\ vec9 = BIOS /\ vec8 = BIOS
    /\ installed = 0 /\ stage = "start"
    /\ irq = "none" /\ at = BIOS /\ inService = {}
    /\ scan = "none"
    /\ defect = [c \in Cells |-> "none"]

Handler ==
    \/ \E k \in Instances : CaptureKeyboard(k) \/ TimerHandler(k)
    \/ BiosKeyHandler \/ BiosTimerHandler

Next ==
    \/ \E c \in Cells, w \in Words : ProgramWrites(c, w)
    \/ \E c, d \in Cells : ProgramCopies(c, d)
    \/ Main
    \/ \E code \in Codes : KeyEvent(code)
    \/ KeyInterrupt \/ TimerInterrupt
    \/ Handler

Spec == Init /\ [][Next]_vars

\* A handler that has the CPU runs on; a pending key is taken as soon as the
\* flag IF allows, the timer leaving room for it at its 18 ticks a second.
Fairness == WF_vars(Handler) /\ SF_vars(KeyInterrupt)

FairSpec == Spec /\ Fairness

-----------------------------------------------------------------------------
(* Properties *)

\* The driver has been run once (or is being installed).
Alone == installed + (IF stage = "start" THEN 0 ELSE 1) <= 1

\* What the screen will show in a cell once the (single) popup is hidden.
Behind(c) == IF PopupShown THEN RealContentBuffer[1][c] ELSE screen[c]

\* The driver keeps every word of the program's screen that it had a chance to
\* see: a cell can come back wrong only if the program changed it under the
\* popup and no tick has told it from the picture, or copied it from a cell
\* where the popup was.
OnlyUnseenChangesLost ==
    Alone => \A c \in Cells : defect[c] = "none" => Behind(c) = truth[c]

\* While the popup is shown the driver knows exactly which cells of the frame
\* are its own: those that differ from its picture were changed since.
PictureKnown ==
    PopupShown /\ Alone => \A c \in Cells :
        defect[c] = "none" => screen[c] = FrameContentBuffer[1][c]

\* Outside the handlers no interrupt is left unacknowledged: one that were would
\* silence the keyboard, or the clock, for good.
AllAcknowledged == irq = "none" => inService = {}

\* Every other key, and every tick, reaches the BIOS, however many instances
\* stand before it and whatever the moment of an installation.
InterruptsReachBios ==
    /\ scan = "other" ~> (scan = "other" /\ irq = "key" /\ at = BIOS)
    /\ irq = "timer" ~> (irq = "timer" /\ at = BIOS)
=============================================================================
