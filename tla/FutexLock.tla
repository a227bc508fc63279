------------------------------ MODULE FutexLock ------------------------------
(***************************************************************************)
(* os::Lock of os/linux/user/lock.{h,cc}: a three-state lock whose waiters *)
(* sleep in the kernel.  Each action is one atomic memory operation or one *)
(* sys_futex call; pc names the next one.  A futex sleep may end without a *)
(* wake-up (a signal), which the code treats like a wake-up.               *)
(***************************************************************************)
EXTENDS Naturals

CONSTANT Thread     \* The threads that use the lock.

VARIABLES
  state,            \* Lock::state.
  pc                \* What each thread does next.

vars == <<state, pc>>

kLockUncontended == 0
kLockAcquired == 1
kLockContended == 2

\* Every step of Lock::Acquire and Lock::Release.
Label == {"outside",   \* not using the lock
          "test",      \* line 32: is the lock contended?
          "mark",      \* line 33: CAS acquired -> contended
          "wait",      \* line 36: FUTEX_WAIT
          "asleep",    \* in the kernel
          "retry",     \* line 39: CAS uncontended -> contended
          "held",      \* inside the locked region
          "store",     \* line 45: release a contended lock
          "wake"}      \* line 48: FUTEX_WAKE

Goto(t, from, to) == /\ pc[t] = from
                     /\ pc' = [pc EXCEPT ![t] = to]

\* __sync_bool_compare_and_swap(&state, old, new), then go on accordingly.
CAS(t, old, new, at, success, failure) ==
  \/ /\ state = old
     /\ state' = new
     /\ Goto(t, at, success)
  \/ /\ state # old
     /\ Goto(t, at, failure)
     /\ UNCHANGED state
-----------------------------------------------------------------------------
Init == /\ state = kLockUncontended
        /\ pc = [t \in Thread |-> "outside"]

\* Mutant: an exchange takes the lock without looking at its old value.
FastPathBlind(t) == /\ state' = kLockAcquired
                    /\ Goto(t, "outside", "held")

FastPath(t) ==
  CAS(t, kLockUncontended, kLockAcquired, "outside", "held", "test")

\* A plain read: a contended lock needs no marking.
Test(t) == /\ Goto(t, "test",
                   IF state = kLockContended THEN "wait" ELSE "mark")
           /\ UNCHANGED state

Mark(t) == CAS(t, kLockAcquired, kLockContended, "mark", "wait", "retry")

\* sys_futex(FUTEX_WAIT, kLockContended) checks and sleeps atomically.
Wait(t) == /\ Goto(t, "wait",
                   IF state = kLockContended THEN "asleep" ELSE "retry")
           /\ UNCHANGED state

SpuriousWake(t) == /\ Goto(t, "asleep", "retry")
                   /\ UNCHANGED state

\* Mutant: a thread that slept takes the lock as if nobody else slept.
RetryUncontended(t) ==
  CAS(t, kLockUncontended, kLockAcquired, "retry", "held", "test")

\* A thread that had to wait cannot know that nobody else does: it takes the
\* lock as contended.
Retry(t) ==
  CAS(t, kLockUncontended, kLockContended, "retry", "held", "test")

\* __sync_fetch_and_sub(&state, 1).
Release(t) == /\ state' = state - 1
              /\ Goto(t, "held", IF state = kLockContended
                                 THEN "store" ELSE "outside")

\* Mutant: the lock is released and the sleepers are left alone.
StoreNoWake(t) == /\ state' = kLockUncontended
                  /\ Goto(t, "store", "outside")

Store(t) == /\ state' = kLockUncontended
            /\ Goto(t, "store", "wake")

\* sys_futex(FUTEX_WAKE, 1) wakes one arbitrary sleeper, if there is one.
Wake(t) ==
  /\ pc[t] = "wake"
  /\ \/ \E s \in Thread :
          /\ pc[s] = "asleep"
          /\ pc' = [pc EXCEPT ![t] = "outside", ![s] = "retry"]
     \/ /\ \A s \in Thread : pc[s] # "asleep"
        /\ pc' = [pc EXCEPT ![t] = "outside"]
  /\ UNCHANGED state

\* A step the thread takes by itself once it has asked for the lock.
Proceed(t) == \/ Test(t) \/ Mark(t) \/ Wait(t) \/ Retry(t)
              \/ Release(t) \/ Store(t) \/ Wake(t)

Next == \E t \in Thread : FastPath(t) \/ SpuriousWake(t) \/ Proceed(t)

\* A thread that does not sleep is scheduled, and the regions the locks guard
\* end.  Nobody has to ask for the lock, and no sleep ends by itself.
Fairness == \A t \in Thread : WF_vars(Proceed(t))

Spec == Init /\ [][Next]_vars /\ Fairness
-----------------------------------------------------------------------------
(* Properties.                                                             *)

TypeOK == /\ state \in {kLockUncontended, kLockAcquired, kLockContended}
          /\ pc \in [Thread -> Label]

\* A thread has the lock until the store (or the subtraction) that frees it.
Holding == {t \in Thread : pc[t] \in {"held", "store"}}

Waiting == {t \in Thread : pc[t] \in {"test", "mark", "wait", "asleep", "retry"}}

\* At most one thread is between Acquire and the freeing store of Release, and
\* the lock word says so: a 0 can only be seen when nobody has the lock.
HolderInv == /\ \A s, t \in Holding : s = t
             /\ Holding # {} => state # kLockUncontended

\* A thread in one of these places makes up for a lock word that does not say
\* "contended": it will wake a sleeper, or mark the lock before it sleeps.
Rescuer == {t \in Thread :
              pc[t] \in {"store", "wake", "retry", "test", "mark", "wait"}}

\* No sleeper is forgotten: while a thread sleeps in FUTEX_WAIT, the release
\* to come will see a contended lock, or somebody is on the way to make it so.
NoForgottenSleeper ==
  (\E t \in Thread : pc[t] = "asleep") =>
     state = kLockContended \/ Rescuer # {}

\* A mutex is a reader/writer lock that is only written under.
Abstract == INSTANCE SharedMutex WITH reading <- {}, writing <- Holding

\* The futex lock is a mutex, although a contended lock is released in two
\* steps and looks merely acquired in between.
ImplementsMutex == Abstract!Spec

\* A lock somebody waits for is taken again and again: no wake-up is lost.
\* (One particular thread may lose every race: the lock is unfair.)
SomeoneEnters == (Waiting # {}) ~> (Holding # {})
=============================================================================
