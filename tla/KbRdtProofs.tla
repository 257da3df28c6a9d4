----------------------------- MODULE KbRdtProofs -----------------------------
(***************************************************************************)
(* Proofs about KbRdt, for every set of cells, words and registers, every  *)
(* picture and any number of instances.                                    *)
(***************************************************************************)
EXTENDS KbRdt, TLAPS

VideoMemory == [Cells -> Words]
Handlers == 0..MaxInstances

KbTypeOK ==
    /\ DO_SHOW_POPUP \in [Instances -> {0, 1}]
    /\ RealContentBuffer \in [Instances -> VideoMemory]
    /\ FrameContentBuffer \in [Instances -> VideoMemory]
    /\ orig9 \in [Instances -> Handlers] /\ orig8 \in [Instances -> Handlers]
    /\ vec9 \in Handlers /\ vec8 \in Handlers /\ at \in Handlers
    /\ screen \in VideoMemory /\ truth \in VideoMemory
    /\ irq \in {"none", "key", "timer"}
    /\ scan \in Codes \cup {"none"}
    /\ stage \in {"start", "saved9", "set9", "saved8"}
    /\ installed \in 0..MaxInstances
    /\ stage # "start" => installed < MaxInstances
    /\ defect \in [Cells -> {"none", "unseen", "copied"}]

\* The controller waits for the interrupt being handled, and for no other.
InServiceIsHandled == inService = IF irq = "none" THEN {} ELSE {irq}

\* Every handler chains to an older one, so that no interrupt goes in circles.
ChainsDescend == \A k \in Instances : orig9[k] < k /\ orig8[k] < k

\* The vectors never point to an instance whose own chain is not saved yet.
VectorsBehind ==
    /\ vec8 <= installed
    /\ vec9 <= installed + (IF stage \in {"set9", "saved8"} THEN 1 ELSE 0)

\* Where nobody else stands in the chain, only the first instance has run.
OnlyFirst ==
    /\ vec9 <= 1 /\ vec8 <= 1 /\ at <= 1
    /\ \A k \in Instances : orig9[k] <= 1 /\ orig8[k] <= 1 /\ (Shown(k) => k = 1)

\* What the driver knows of a cell: of one without a defect everything; one
\* changed unseen shows either the change or the picture.
CellKnown(c) ==
    /\ defect[c] = "none" => Behind(c) = truth[c]
    /\ PopupShown =>
          /\ defect[c] = "none" => screen[c] = FrameContentBuffer[1][c]
          /\ defect[c] = "unseen" =>
                screen[c] \in {truth[c], FrameContentBuffer[1][c]}

DriverKnows == Alone => OnlyFirst /\ \A c \in Cells : CellKnown(c)

Inv == KbTypeOK /\ InServiceIsHandled /\ ChainsDescend /\ VectorsBehind /\ DriverKnows

LEMMA InitInv == ASSUME Init PROVE Inv
<1> USE DEF BIOS
<1>1. KbTypeOK
  BY DriverAssumption DEF Init, KbTypeOK, VideoMemory, Handlers, Instances, Codes
<1>2. InServiceIsHandled /\ VectorsBehind
  BY DriverAssumption DEF Init, InServiceIsHandled, VectorsBehind
<1>3. ChainsDescend
  BY DriverAssumption DEF Init, ChainsDescend, Instances
<1>4. DriverKnows
  BY DriverAssumption DEF Init, DriverKnows, OnlyFirst, CellKnown, Shown, Behind,
     PopupShown, Instances
<1> QED BY <1>1, <1>2, <1>3, <1>4 DEF Inv

(* The program writes to the screen or moves what stands on it.            *)
LEMMA ProgramInv ==
    ASSUME Inv,
           \/ \E c \in Cells, w \in Words : ProgramWrites(c, w)
           \/ \E c, d \in Cells : ProgramCopies(c, d)
    PROVE  Inv'
<1> USE DEF Inv
<1>1. UNCHANGED <<driverVars, chainVars, cpuVars, scan>>
  BY DEF ProgramWrites, ProgramCopies, Program
<1>2. /\ screen' \in VideoMemory /\ truth' \in VideoMemory
      /\ defect' \in [Cells -> {"none", "unseen", "copied"}]
  BY DEF ProgramWrites, ProgramCopies, KbTypeOK, VideoMemory
<1>3. KbTypeOK'
  BY <1>1, <1>2 DEF KbTypeOK, driverVars, chainVars, cpuVars
<1>4. InServiceIsHandled' /\ ChainsDescend' /\ VectorsBehind'
  BY <1>1 DEF InServiceIsHandled, ChainsDescend, VectorsBehind, chainVars, cpuVars
<1>5. DriverKnows'
  <2> SUFFICES ASSUME Alone'
               PROVE  OnlyFirst' /\ \A e \in Cells : CellKnown(e)'
    BY DEF DriverKnows
  <2>1. Alone /\ OnlyFirst /\ \A e \in Cells : CellKnown(e)
    BY <1>1 DEF DriverKnows, Alone, chainVars
  <2>2. OnlyFirst'
    BY <1>1, <2>1 DEF OnlyFirst, Shown, driverVars, chainVars, cpuVars
  <2>3. PopupShown' = PopupShown
    BY <1>1 DEF PopupShown, Shown, driverVars
  <2>4. ASSUME NEW e \in Cells PROVE CellKnown(e)'
    <3>1. CASE \E c \in Cells, w \in Words : ProgramWrites(c, w)
      BY <1>1, <2>1, <2>3, <3>1
      DEF ProgramWrites, CellKnown, Behind, KbTypeOK, VideoMemory, driverVars
    <3>2. CASE \E c, d \in Cells : ProgramCopies(c, d)
      BY <1>1, <2>1, <2>3, <3>2
      DEF ProgramCopies, CellKnown, Behind, KbTypeOK, VideoMemory, driverVars
    <3> QED BY <3>1, <3>2
  <2> QED BY <2>2, <2>4
<1> QED BY <1>3, <1>4, <1>5

(* The installation of another instance.                                   *)
LEMMA MainInv == ASSUME Inv, Main PROVE Inv'
<1> USE DEF Inv, Next_
<1>1. UNCHANGED <<driverVars, cpuVars, scan, screen, history>>
  BY DEF Main, SaveInt9, SetInt9, SaveInt8, SetInt8, Program
<1>2. /\ installed \in Nat /\ MaxInstances \in Nat /\ installed < MaxInstances
      /\ vec9 \in Nat /\ vec8 \in Nat
      /\ installed' \in 0..MaxInstances
      /\ stage' \in {"start", "saved9", "set9", "saved8"}
      /\ stage' # "start" => installed' < MaxInstances
  BY DriverAssumption
  DEF Main, SaveInt9, SetInt9, SaveInt8, SetInt8, KbTypeOK, Handlers
<1>3. /\ orig9' \in [Instances -> Handlers] /\ orig8' \in [Instances -> Handlers]
      /\ vec9' \in Handlers /\ vec8' \in Handlers
  BY <1>2 DEF Main, SaveInt9, SetInt9, SaveInt8, SetInt8, KbTypeOK, Handlers
<1>4. KbTypeOK'
  BY <1>1, <1>2, <1>3 DEF KbTypeOK, driverVars, cpuVars, history
<1>5. InServiceIsHandled'
  BY <1>1 DEF InServiceIsHandled, cpuVars
<1>6. ChainsDescend'
  <2>1. CASE SaveInt9
    BY <1>2, <2>1 DEF SaveInt9, KbTypeOK, ChainsDescend, VectorsBehind, Instances
  <2>2. CASE SaveInt8
    BY <1>2, <2>2 DEF SaveInt8, KbTypeOK, ChainsDescend, VectorsBehind, Instances
  <2>3. CASE SetInt9 \/ SetInt8
    BY <2>3 DEF SetInt9, SetInt8, ChainsDescend
  <2> QED BY <2>1, <2>2, <2>3 DEF Main
<1>7. VectorsBehind'
  BY <1>2 DEF Main, SaveInt9, SetInt9, SaveInt8, SetInt8, VectorsBehind
<1>8. DriverKnows'
  <2> SUFFICES ASSUME Alone'
               PROVE  OnlyFirst' /\ \A e \in Cells : CellKnown(e)'
    BY DEF DriverKnows
  <2>1. Alone /\ installed = 0
    <3>1. CASE SaveInt9 \/ SetInt9 \/ SaveInt8
      <4>1. installed' = installed /\ stage' # "start"
        BY <3>1 DEF SaveInt9, SetInt9, SaveInt8
      <4>2. installed + 1 <= 1
        BY <1>2, <4>1 DEF Alone
      <4> QED BY <1>2, <4>1, <4>2 DEF Alone
    <3>2. CASE SetInt8
      <4>1. installed' = installed + 1 /\ stage = "saved8" /\ stage' = "start"
        BY <3>2 DEF SetInt8
      <4>2. installed + 1 <= 1
        BY <1>2, <4>1 DEF Alone
      <4> QED BY <1>2, <4>1, <4>2 DEF Alone
    <3> QED BY <3>1, <3>2 DEF Main
  <2>2. OnlyFirst /\ \A e \in Cells : CellKnown(e)
    BY <2>1 DEF DriverKnows
  <2>3. vec9' <= 1 /\ vec8' <= 1
    BY <2>1, <2>2 DEF Main, SaveInt9, SetInt9, SaveInt8, SetInt8, OnlyFirst
  <2>4. \A k \in Instances : orig9'[k] <= 1 /\ orig8'[k] <= 1
    BY <2>2 DEF Main, SaveInt9, SetInt9, SaveInt8, SetInt8, OnlyFirst, KbTypeOK
  <2>5. OnlyFirst'
    BY <1>1, <2>2, <2>3, <2>4 DEF OnlyFirst, Shown, driverVars, cpuVars
  <2>6. \A e \in Cells : CellKnown(e)'
    BY <1>1, <2>2 DEF CellKnown, Behind, PopupShown, Shown, driverVars, history
  <2> QED BY <2>5, <2>6
<1> QED BY <1>4, <1>5, <1>6, <1>7, <1>8

(* The keyboard sends a code, or the processor takes an interrupt.         *)
LEMMA InterruptInv ==
    ASSUME Inv, KeyInterrupt \/ TimerInterrupt \/ \E code \in Codes : KeyEvent(code)
    PROVE  Inv'
<1> USE DEF Inv
<1>1. UNCHANGED <<driverVars, chainVars, screen, history>>
  BY DEF KeyInterrupt, TimerInterrupt, KeyEvent, Interrupt
<1>2. /\ irq' \in {"none", "key", "timer"} /\ scan' \in Codes \cup {"none"}
      /\ at' \in Handlers /\ at' \in {at, vec9, vec8}
      /\ InServiceIsHandled'
  BY DEF KeyInterrupt, TimerInterrupt, KeyEvent, Interrupt, KbTypeOK, cpuVars,
     InServiceIsHandled
<1>3. KbTypeOK'
  BY <1>1, <1>2 DEF KbTypeOK, driverVars, chainVars, history
<1>4. ChainsDescend' /\ VectorsBehind'
  BY <1>1 DEF ChainsDescend, VectorsBehind, chainVars
<1>5. DriverKnows'
  BY <1>1, <1>2 DEF DriverKnows, OnlyFirst, Alone, CellKnown, Behind, PopupShown,
     Shown, driverVars, chainVars, history
<1> QED BY <1>2, <1>3, <1>4, <1>5

(* A handler that leaves the popup and the screen alone.                   *)
LEMMA QuietHandlerInv ==
    ASSUME Inv, Handler, UNCHANGED <<driverVars, screen, history>>
    PROVE  Inv'
<1> USE DEF Inv
<1>1. UNCHANGED chainVars
  BY DEF Handler, CaptureKeyboard, TimerHandler, BiosKeyHandler, BiosTimerHandler
<1> DEFINE Chained ==
        /\ irq' \in {"none", "key", "timer"} /\ scan' \in Codes \cup {"none"}
        /\ at' \in Handlers
        /\ Alone => at' <= 1
        /\ InServiceIsHandled'
<1>2. Chained
  <2> USE DEF KbTypeOK, InServiceIsHandled, Handlers, BIOS, AcknowledgeKey,
              DriverKnows, OnlyFirst, Instances
  <2>1. ASSUME NEW k \in Instances, CaptureKeyboard(k) PROVE Chained
    BY <2>1, DriverAssumption DEF CaptureKeyboard, SwallowF2Press
  <2>2. ASSUME NEW k \in Instances, TimerHandler(k) PROVE Chained
    BY <2>2, DriverAssumption DEF TimerHandler
  <2>3. CASE BiosKeyHandler
    BY <2>3, DriverAssumption DEF BiosKeyHandler
  <2>4. CASE BiosTimerHandler
    BY <2>4, DriverAssumption DEF BiosTimerHandler
  <2> QED BY <2>1, <2>2, <2>3, <2>4 DEF Handler
<1>3. KbTypeOK'
  BY <1>1, <1>2 DEF KbTypeOK, driverVars, chainVars, history
<1>4. ChainsDescend' /\ VectorsBehind'
  BY <1>1 DEF ChainsDescend, VectorsBehind, chainVars
<1>5. DriverKnows'
  BY <1>1, <1>2 DEF DriverKnows, OnlyFirst, Alone, CellKnown, Behind, PopupShown,
     Shown, driverVars, chainVars, history
<1> QED BY <1>2, <1>3, <1>4, <1>5

(* What is drawn is a picture of the frame.                                *)
LEMMA DrawnIsPicture == DrawAllRegisters => screen' \in VideoMemory
BY DriverAssumption DEF DrawAllRegisters, VideoMemory

(* The release of F2: the popup is shown, or hidden again.                 *)
LEMMA CaptureInv ==
    ASSUME Inv, NEW k \in Instances, irq = "key", at = k,
           ProgCaptureHandler(k), AcknowledgeKey, UNCHANGED chainVars
    PROVE  Inv'
<1> USE DEF Inv
<1>1. Toggled(k) \in {0, 1} /\ Toggled(k) # DO_SHOW_POPUP[k]
  BY DEF Toggled, KbTypeOK
<1>2. /\ DO_SHOW_POPUP' \in [Instances -> {0, 1}]
      /\ DO_SHOW_POPUP'[k] = Toggled(k)
      /\ \A j \in Instances : j # k => DO_SHOW_POPUP'[j] = DO_SHOW_POPUP[j]
  BY <1>1 DEF ProgCaptureHandler, KbTypeOK
<1>3. /\ screen' \in VideoMemory
      /\ RealContentBuffer' \in [Instances -> VideoMemory]
      /\ FrameContentBuffer' \in [Instances -> VideoMemory]
  BY DrawnIsPicture DEF ProgCaptureHandler, RememberPicture, KbTypeOK
<1>4. /\ irq' = "none" /\ at' = 0 /\ scan' = "none" /\ InServiceIsHandled'
      /\ UNCHANGED history
  BY DEF AcknowledgeKey, InServiceIsHandled, ProgCaptureHandler, BIOS
<1>5. KbTypeOK'
  BY <1>2, <1>3, <1>4, DriverAssumption DEF KbTypeOK, chainVars, history, Handlers
<1>6. ChainsDescend' /\ VectorsBehind'
  BY DEF ChainsDescend, VectorsBehind, chainVars
<1>7. DriverKnows'
  <2> SUFFICES ASSUME Alone'
               PROVE  OnlyFirst' /\ \A e \in Cells : CellKnown(e)'
    BY DEF DriverKnows
  <2>1. Alone /\ OnlyFirst /\ \A e \in Cells : CellKnown(e)
    BY DEF DriverKnows, Alone, chainVars
  <2>2. k = 1
    BY <2>1 DEF OnlyFirst, Instances
  <2>3. OnlyFirst'
    BY <1>2, <1>4, <2>1, <2>2 DEF OnlyFirst, Shown, chainVars
  <2>4. PopupShown' <=> Toggled(k) # 0
    BY <1>1, <1>2, <2>1, <2>2 DEF OnlyFirst, PopupShown, Shown
  <2>5. PopupShown <=> Toggled(k) = 0
    BY <1>1, <2>1, <2>2 DEF OnlyFirst, PopupShown, Shown, KbTypeOK
  <2>6. ASSUME NEW e \in Cells PROVE CellKnown(e)'
    <3>1. CASE Toggled(k) = 0
      BY <1>4, <2>1, <2>2, <2>4, <2>5, <3>1
      DEF ProgCaptureHandler, CellKnown, Behind, history
    <3>2. CASE Toggled(k) # 0
      <4>1. RealContentBuffer'[1] = screen /\ FrameContentBuffer'[1] = screen'
        BY <2>2, <3>2 DEF ProgCaptureHandler, RememberPicture, KbTypeOK
      <4> QED BY <1>4, <2>1, <2>4, <2>5, <3>2, <4>1 DEF CellKnown, Behind, history
    <3> QED BY <3>1, <3>2
  <2> QED BY <2>3, <2>6
<1> QED BY <1>4, <1>5, <1>6, <1>7

(* A tick under the popup: the driver learns what the program has written, *)
(* and draws again.                                                        *)
LEMMA TickInv ==
    ASSUME Inv, NEW k \in Instances, irq = "timer", at = k, at' = orig8[k],
           Shown(k), ProgTimerHandler(k), UNCHANGED <<irq, inService, chainVars, scan>>
    PROVE  Inv'
<1> USE DEF Inv
<1>1. /\ screen' \in VideoMemory /\ UNCHANGED <<truth, DO_SHOW_POPUP>>
      /\ FrameContentBuffer' \in [Instances -> VideoMemory]
      /\ FrameContentBuffer'[k] = screen'
  BY DrawnIsPicture DEF ProgTimerHandler, RememberPicture, KbTypeOK
<1>2. /\ RealContentBuffer' \in [Instances -> VideoMemory]
      /\ RealContentBuffer'[k] = UpdateRealBuffer(k)
  <2>1. UpdateRealBuffer(k) \in VideoMemory
    BY DEF UpdateRealBuffer, VideoMemory, KbTypeOK
  <2> QED BY <2>1 DEF ProgTimerHandler, Learn, KbTypeOK
<1>3. /\ defect' \in [Cells -> {"none", "unseen", "copied"}]
      /\ \A e \in Cells :
            defect'[e] = IF defect[e] = "unseen" /\ screen[e] # FrameContentBuffer[k][e]
                         THEN "none" ELSE defect[e]
  BY DEF ProgTimerHandler, Learn, KbTypeOK
<1>4. KbTypeOK'
  BY <1>1, <1>2, <1>3 DEF KbTypeOK, chainVars
<1>5. InServiceIsHandled' /\ ChainsDescend' /\ VectorsBehind'
  BY DEF InServiceIsHandled, ChainsDescend, VectorsBehind, chainVars
<1>6. DriverKnows'
  <2> SUFFICES ASSUME Alone'
               PROVE  OnlyFirst' /\ \A e \in Cells : CellKnown(e)'
    BY DEF DriverKnows
  <2>1. Alone /\ OnlyFirst /\ \A e \in Cells : CellKnown(e)
    BY DEF DriverKnows, Alone, chainVars
  <2>2. k = 1 /\ PopupShown /\ PopupShown'
    BY <1>1, <2>1 DEF OnlyFirst, PopupShown, Shown
  <2>3. OnlyFirst'
    BY <1>1, <2>1 DEF OnlyFirst, Shown, chainVars
  <2>4. ASSUME NEW e \in Cells PROVE CellKnown(e)'
    <3>1. RealContentBuffer'[1][e] = IF screen[e] = FrameContentBuffer[1][e]
                                     THEN RealContentBuffer[1][e] ELSE screen[e]
      BY <1>2, <2>2 DEF UpdateRealBuffer
    <3>2. FrameContentBuffer'[1][e] = screen'[e] /\ truth'[e] = truth[e]
      BY <1>1, <2>2
    <3>3. defect'[e] = "none" => Behind(e)' = truth'[e]
      BY <1>3, <2>1, <2>2, <3>1, <3>2 DEF CellKnown, Behind
    <3> QED BY <3>2, <3>3 DEF CellKnown
  <2> QED BY <2>3, <2>4
<1> QED BY <1>4, <1>5, <1>6

(* Every step of the machine keeps the invariant.                          *)
LEMMA NextInv == ASSUME Inv, [Next]_vars PROVE Inv'
<1>1. CASE \/ \E c \in Cells, w \in Words : ProgramWrites(c, w)
           \/ \E c, d \in Cells : ProgramCopies(c, d)
  BY <1>1, ProgramInv
<1>2. CASE Main
  BY <1>2, MainInv
<1>3. CASE KeyInterrupt \/ TimerInterrupt \/ \E code \in Codes : KeyEvent(code)
  BY <1>3, InterruptInv
<1>4. CASE Handler
  <2>1. ASSUME NEW k \in Instances, CaptureKeyboard(k) PROVE Inv'
    <3>1. CASE ProgCaptureHandler(k) /\ AcknowledgeKey
      BY <2>1, <3>1, CaptureInv DEF CaptureKeyboard
    <3>2. CASE UNCHANGED <<driverVars, screen, history>>
      BY <1>4, <3>2, QuietHandlerInv
    <3> QED BY <2>1, <3>1, <3>2 DEF CaptureKeyboard, SwallowF2Press
  <2>2. ASSUME NEW k \in Instances, TimerHandler(k) PROVE Inv'
    <3>1. CASE Shown(k)
      BY <2>2, <3>1, TickInv DEF TimerHandler
    <3>2. CASE ~Shown(k)
      BY <1>4, <2>2, <3>2, QuietHandlerInv DEF TimerHandler
    <3> QED BY <3>1, <3>2
  <2>3. CASE BiosKeyHandler \/ BiosTimerHandler
    BY <1>4, <2>3, QuietHandlerInv DEF BiosKeyHandler, BiosTimerHandler
  <2> QED BY <1>4, <2>1, <2>2, <2>3 DEF Handler
<1>5. CASE UNCHANGED vars
  BY <1>5 DEF vars, driverVars, chainVars, cpuVars, history, Inv, KbTypeOK,
     InServiceIsHandled, ChainsDescend, VectorsBehind, DriverKnows, Alone, OnlyFirst,
     CellKnown, Behind, PopupShown, Shown
<1> QED BY <1>1, <1>2, <1>3, <1>4, <1>5 DEF Next

LEMMA Inductive == Spec => []Inv
BY InitInv, NextInv, PTL DEF Spec

(* Outside the handlers the interrupt controller waits for nothing.        *)
THEOREM AlwaysAcknowledged == Spec => []AllAcknowledged
<1>1. Inv => AllAcknowledged
  BY DEF Inv, InServiceIsHandled, AllAcknowledged
<1> QED BY <1>1, Inductive, PTL

(* While the popup of a single driver is shown, what differs from its      *)
(* picture is the program's.                                               *)
THEOREM PictureAlwaysKnown == Spec => []PictureKnown
<1>1. Inv => PictureKnown
  BY DEF Inv, DriverKnows, CellKnown, PictureKnown
<1> QED BY <1>1, Inductive, PTL

(* A single driver puts back every word of the program's screen but those  *)
(* it could not have seen.                                                 *)
THEOREM OnlyUnseenEverLost == Spec => []OnlyUnseenChangesLost
<1>1. Inv => OnlyUnseenChangesLost
  BY DEF Inv, DriverKnows, CellKnown, OnlyUnseenChangesLost
<1> QED BY <1>1, Inductive, PTL

(* However many instances have been installed, and at whatever step of an  *)
(* installation, a handler hands interrupts to an older instance or to the *)
(* BIOS: the safety half of InterruptsReachBios.                           *)
THEOREM ChainsAlwaysDescend == Spec => []ChainsDescend
<1>1. Inv => ChainsDescend
  BY DEF Inv
<1> QED BY <1>1, Inductive, PTL
=============================================================================
