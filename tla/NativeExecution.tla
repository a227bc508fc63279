--------------------------- MODULE NativeExecution ---------------------------
(***************************************************************************)
(* What a program does without Granary: each thread goes from block to     *)
(* block along the program's control flow, until the process exits.        *)
(***************************************************************************)
CONSTANTS
  Thread,
  Succ              \* [Block -> Seq(Block)]: the targets of each block's end.

VARIABLES
  at,               \* The block each thread executes.
  running           \* FALSE once the process has exited.

vars == <<at, running>>

Init == /\ \E b \in DOMAIN Succ : at = [t \in Thread |-> b]
        /\ running = TRUE

Branch(t) == /\ running
             /\ \E i \in DOMAIN Succ[at[t]] : at' = [at EXCEPT ![t] = Succ[at[t]][i]]
             /\ UNCHANGED running

Exit == /\ running' = FALSE
        /\ UNCHANGED at

Next == (\E t \in Thread : Branch(t)) \/ Exit

Spec == Init /\ [][Next]_vars
=============================================================================
