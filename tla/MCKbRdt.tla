------------------------------ MODULE MCKbRdt ------------------------------
(* Two cells of video memory under the frame and two words; two register   *)
(* contents whose pictures differ in the first cell.  Each word is one the *)
(* driver draws and one the program may write.                             *)
EXTENDS KbRdt

MCCells == {1, 2}
MCWords == {"text", "frame"}
MCRegs == {"r0", "r1"}
MCPicture == [r \in MCRegs |-> [c \in MCCells |->
                 IF c = 1 /\ r = "r1" THEN "text" ELSE "frame"]]
=============================================================================
