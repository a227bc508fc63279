------------------------------ MODULE FifoLock ------------------------------
(***************************************************************************)
(* What a first-come-first-served lock promises: threads queue up in the   *)
(* order in which they asked, only the thread at the head may hold the     *)
(* lock, and the head leaves the queue when it releases the lock.          *)
(***************************************************************************)
EXTENDS Naturals, Sequences

CONSTANT Thread     \* The threads that use the lock.

VARIABLES
  queue,            \* Threads that asked for the lock, oldest first.
  held              \* Does the head of the queue hold the lock?

vars == <<queue, held>>

Queued == {queue[i] : i \in 1..Len(queue)}

Init == /\ queue = <<>>
        /\ held = FALSE

Request(t) == /\ t \notin Queued
              /\ queue' = Append(queue, t)
              /\ UNCHANGED held

Grant == /\ queue # <<>>
         /\ ~held
         /\ held' = TRUE
         /\ UNCHANGED queue

Release == /\ held
           /\ held' = FALSE
           /\ queue' = Tail(queue)

Next == \/ \E t \in Thread : Request(t)
        \/ Grant
        \/ Release

Spec == Init /\ [][Next]_vars
=============================================================================
