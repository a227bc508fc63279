-------------------------- MODULE ReaderWriterLock --------------------------
(***************************************************************************)
(* ReaderWriterLock of granary/base/lock.{h,cc}: one word that counts the  *)
(* readers in its low bits and whose top bit belongs to a writer.  Each    *)
(* action is one atomic operation on the word.  The build is x86-64, where *)
(* compare_exchange_weak does not fail spuriously.  os::YieldThread has no *)
(* effect on the state and is part of the step that goes back to the loop. *)
(***************************************************************************)
EXTENDS Naturals, FiniteSets

CONSTANTS
  Thread,           \* The threads that use the lock.
  WriterBit         \* 0x80000000: the top bit of the word.

\* The readers fit into the bits below the writer's.
ASSUME LockAssumption == /\ IsFiniteSet(Thread)
                         /\ WriterBit \in Nat
                         /\ Cardinality(Thread) < WriterBit

VARIABLES
  lock,             \* ReaderWriterLock::lock.
  old_value,        \* The local variable `old_value`, per thread.
  pc                \* What each thread does next.

vars == <<lock, old_value, pc>>

Word == 0..(2 * WriterBit - 1)

Label == {"outside",      \* not using the lock
          "read load",    \* TryReadAcquire: load, with the top bit masked off
          "read cas",     \* TryReadAcquire: one more reader
          "reading",      \* inside a ReadLockedRegion
          "try write",    \* TryWriteAcquire: its only CAS
          "write load",   \* WriteAcquire: load, with the top bit masked off
          "write cas",    \* WriteAcquire: set the top bit
          "drain",        \* WriteAcquire: wait for the readers to leave
          "writing"}      \* inside a WriteLockedRegion

\* x & 0x7fffffff.
Readers(x) == IF x >= WriterBit THEN x - WriterBit ELSE x

Goto(t, from, to) == /\ pc[t] = from
                     /\ pc' = [pc EXCEPT ![t] = to]
-----------------------------------------------------------------------------
Init == /\ lock = 0
        /\ old_value = [t \in Thread |-> 0]
        /\ pc = [t \in Thread |-> "outside"]

\* The caller picks the function.
Call(t) == /\ \E f \in {"read load", "try write", "write load"} :
                Goto(t, "outside", f)
           /\ UNCHANGED <<lock, old_value>>

\* Mutant: the load keeps the writer's bit, so a reader can count itself in
\* beside a writer.
ReadLoadUnmasked(t) == /\ Goto(t, "read load", "read cas")
                       /\ old_value' = [old_value EXCEPT ![t] = lock]
                       /\ UNCHANGED lock

ReadLoad(t) == /\ Goto(t, "read load", "read cas")
               /\ old_value' = [old_value EXCEPT ![t] = Readers(lock)]
               /\ UNCHANGED lock

\* A reader that lost to a reader tries again at once; one that lost to a
\* writer returns false to ReadAcquire, which yields and tries again.  Either
\* way it loads again.
ReadCAS(t) == \/ /\ lock = old_value[t]
                 /\ lock' = old_value[t] + 1
                 /\ Goto(t, "read cas", "reading")
                 /\ UNCHANGED old_value
              \/ /\ lock # old_value[t]
                 /\ old_value' = [old_value EXCEPT ![t] = lock]
                 /\ Goto(t, "read cas", "read load")
                 /\ UNCHANGED lock

\* TryReadAcquire called by itself gives up when it loses to a writer.
ReadGiveUp(t) == /\ lock # old_value[t]
                 /\ lock >= WriterBit
                 /\ old_value' = [old_value EXCEPT ![t] = lock]
                 /\ Goto(t, "read cas", "outside")
                 /\ UNCHANGED lock

ReadRelease(t) == /\ Goto(t, "reading", "outside")
                  /\ lock' = lock - 1
                  /\ UNCHANGED old_value

TryWriteAcquire(t) == /\ IF lock = 0
                         THEN /\ lock' = WriterBit
                              /\ Goto(t, "try write", "writing")
                         ELSE /\ Goto(t, "try write", "outside")
                              /\ UNCHANGED lock
                      /\ UNCHANGED old_value

WriteLoad(t) == /\ Goto(t, "write load", "write cas")
                /\ old_value' = [old_value EXCEPT ![t] = Readers(lock)]
                /\ UNCHANGED lock

WriteCAS(t) == \/ /\ lock = old_value[t]
                  /\ lock' = old_value[t] + WriterBit
                  /\ Goto(t, "write cas", "drain")
                  /\ UNCHANGED old_value
               \/ /\ lock # old_value[t]
                  /\ old_value' = [old_value EXCEPT ![t] = lock]
                  /\ Goto(t, "write cas", "write load")
                  /\ UNCHANGED lock

\* Mutant: the writer that has set its bit does not wait for the readers.
DrainNothing(t) == /\ Goto(t, "drain", "writing")
                   /\ UNCHANGED <<lock, old_value>>

Drain(t) == /\ Goto(t, "drain", "writing")
            /\ Readers(lock) = 0
            /\ UNCHANGED <<lock, old_value>>

WriteRelease(t) == /\ Goto(t, "writing", "outside")
                   /\ lock' = 0
                   /\ UNCHANGED old_value

\* A step the thread takes by itself once it has called the lock.
Proceed(t) == \/ ReadLoad(t) \/ ReadCAS(t) \/ ReadRelease(t)
              \/ TryWriteAcquire(t)
              \/ WriteLoad(t) \/ WriteCAS(t) \/ Drain(t) \/ WriteRelease(t)

Next == \E t \in Thread : Call(t) \/ ReadGiveUp(t) \/ Proceed(t)

\* Threads are scheduled and locked regions end.  (granary_exit's region does
\* not: module DirectEdge.)
Fairness == \A t \in Thread : WF_vars(Proceed(t))

Spec == Init /\ [][Next]_vars /\ Fairness
-----------------------------------------------------------------------------
(* Properties.                                                             *)

TypeOK == /\ lock \in Word
          /\ old_value \in [Thread -> Word]
          /\ pc \in [Thread -> Label]

Reading == {t \in Thread : pc[t] = "reading"}
Writing == {t \in Thread : pc[t] = "writing"}

\* The threads between setting the top bit and clearing it.
BitOwners == {t \in Thread : pc[t] \in {"drain", "writing"}}

\* The word counts the readers inside and tells whether a writer has the bit;
\* one writer at a time has it, and it is alone once it stops draining.  What a
\* CAS expects never has the writer's bit.
WordInv == /\ BitOwners = {} => lock = Cardinality(Reading)
           /\ BitOwners # {} => lock = Cardinality(Reading) + WriterBit
           /\ \A s, t \in BitOwners : s = t
           /\ Writing # {} => Reading = {}
           /\ \A t \in Thread : pc[t] \in {"read cas", "write cas"} =>
                                  old_value[t] < WriterBit

Abstract == INSTANCE SharedMutex WITH reading <- Reading, writing <- Writing

\* The word implements a reader/writer lock: readers never overlap a writer,
\* and writers never overlap each other.
ImplementsSharedMutex == Abstract!Spec

\* Once a writer has set its bit no reader comes in, so the drain can end.
NoReaderOvertakesWriter ==
  [][BitOwners # {} => Reading' \subseteq Reading]_vars

\* A writer that has set its bit gets in, however many readers there are.
WriterDrains == \A t \in Thread : (pc[t] = "drain") ~> (pc[t] = "writing")

\* As long as threads ask, some thread gets in: the retries of readers and
\* writers never starve everybody.
SomeoneEnters ==
  (\E t \in Thread : pc[t] \in {"read load", "write load"}) ~>
     (Reading \cup Writing # {})
=============================================================================
