---------------------------- MODULE ControlFlow ----------------------------
(***************************************************************************)
(* Abstract specification of what a function does, as far as control is    *)
(* concerned: starting at instruction 0 it moves along the edges that      *)
(* cfg() (verify/src/loops.rs) gives its instruction sequence. Conditions  *)
(* are not interpreted, so every edge may be taken. The program never      *)
(* changes. Anything that implements this never executes a step the input  *)
(* function could not take.                                                *)
(***************************************************************************)
EXTENDS BoogieCode

VARIABLES prog, pc

Init == pc = 0

Next == /\ <<pc, pc'>> \in Cfg(prog)
        /\ prog' = prog

Spec == Init /\ [][Next]_<<prog, pc>>
=============================================================================
