------------------------------- MODULE MCLocks -------------------------------
(***************************************************************************)
(* Runs one of the three locks: the reader/writer lock, the ticket lock or *)
(* the futex lock.  No lock of the program is used to build another one.   *)
(***************************************************************************)
EXTENDS ReaderWriterLock

CONSTANTS FutexThread,
          TicketModulus     \* Of SpinLock.

\* Threads can be counted, and there is a ticket for each of them.
ASSUME TicketAssumption == /\ IsFiniteSet(Thread)
                           /\ TicketModulus \in Nat \ {0}
                           /\ Cardinality(Thread) <= TicketModulus

VARIABLES kind,
          serving_ticket, next_ticket, ticket, spin_pc,
          state, futex_pc

Spin == INSTANCE SpinLock WITH pc <- spin_pc
Futex == INSTANCE FutexLock WITH Thread <- FutexThread, pc <- futex_pc

spinVars == <<serving_ticket, next_ticket, ticket, spin_pc>>
futexVars == <<state, futex_pc>>
locksVars == <<kind, vars, spinVars, futexVars>>

LocksInit == /\ kind \in {"shared", "spin", "futex"}
             /\ Init
             /\ Spin!Init
             /\ Futex!Init

LocksNext == \/ kind = "shared" /\ Next /\ UNCHANGED <<kind, spinVars, futexVars>>
             \/ kind = "spin" /\ Spin!Next /\ UNCHANGED <<kind, vars, futexVars>>
             \/ kind = "futex" /\ Futex!Next /\ UNCHANGED <<kind, vars, spinVars>>

\* The fairness of each of the locks.
LocksFairness ==
  /\ \A t \in Thread : /\ WF_vars(kind = "shared" /\ Proceed(t))
                       /\ WF_spinVars(kind = "spin" /\ Spin!Spin(t))
                       /\ WF_spinVars(kind = "spin" /\ Spin!Release(t))
  /\ \A t \in FutexThread : WF_futexVars(kind = "futex" /\ Futex!Proceed(t))

LocksSpec == LocksInit /\ [][LocksNext]_locksVars /\ LocksFairness
-----------------------------------------------------------------------------
\* The ticket lock is first come, first served (granary/base/lock.cc).
ImplementsFifoLock == Spin!ImplementsFifoLock

\* No thread that sleeps in FUTEX_WAIT is forgotten (os/linux/user/lock.cc).
NoForgottenSleeper == Futex!NoForgottenSleeper

\* The futex lock is a mutex (os/linux/user/lock.cc).
ImplementsMutex == Futex!ImplementsMutex

\* Locks make progress: no thread spins forever on a ticket lock, a futex lock that
\* threads wait for is taken, a writer gets in once the readers have left, and a
\* reader/writer lock that is wanted is taken (granary/base/lock.cc,
\* os/linux/user/lock.cc).
LocksProgress ==
  /\ Spin!NoStarvation
  /\ Futex!SomeoneEnters
  /\ WriterDrains
  /\ SomeoneEnters
==============================================================================
