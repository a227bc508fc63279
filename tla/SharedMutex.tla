----------------------------- MODULE SharedMutex -----------------------------
(***************************************************************************)
(* What a reader/writer lock promises: any number of readers, or a single  *)
(* writer.                                                                 *)
(***************************************************************************)
CONSTANT Thread     \* The threads that use the lock.

VARIABLES
  reading,          \* Threads inside a read-locked region.
  writing           \* Threads inside a write-locked region.

vars == <<reading, writing>>

Init == /\ reading = {}
        /\ writing = {}

BeginRead(t) == /\ writing = {}
                /\ reading' = reading \cup {t}
                /\ UNCHANGED writing

EndRead(t) == /\ t \in reading
              /\ reading' = reading \ {t}
              /\ UNCHANGED writing

BeginWrite(t) == /\ reading = {}
                 /\ writing = {}
                 /\ writing' = {t}
                 /\ UNCHANGED reading

EndWrite(t) == /\ t \in writing
               /\ writing' = writing \ {t}
               /\ UNCHANGED reading

Next == \E t \in Thread : \/ BeginRead(t) \/ EndRead(t)
                          \/ BeginWrite(t) \/ EndWrite(t)

Spec == Init /\ [][Next]_vars
=============================================================================
