------------------------------ MODULE SpinLock ------------------------------
(***************************************************************************)
(* The ticket lock of granary/base/lock.{h,cc}.  Each action is one atomic *)
(* memory operation of Acquire or Release; a load of serving_ticket that   *)
(* does not match is a stuttering step.  Both counters are ints that only  *)
(* ever grow by one, so they wrap at 2^32: TicketModulus.                  *)
(***************************************************************************)
EXTENDS Naturals, FiniteSets

CONSTANTS
  Thread,           \* The threads that use the lock.
  TicketModulus     \* Number of values a ticket can take (2^32 in the code).

VARIABLES
  serving_ticket,   \* SpinLock::serving_ticket.
  next_ticket,      \* SpinLock::next_ticket.
  ticket,           \* Acquire's local variable `ticket`, per thread.
  pc                \* Where each thread is in Acquire/Release.

vars == <<serving_ticket, next_ticket, ticket, pc>>

Ticket == 0..(TicketModulus - 1)

\* std::atomic<int>::fetch_add(1): wraps around.
Inc(x) == IF x + 1 = TicketModulus THEN 0 ELSE x + 1

Goto(t, from, to) == /\ pc[t] = from
                     /\ pc' = [pc EXCEPT ![t] = to]
-----------------------------------------------------------------------------
Init == /\ serving_ticket = 0
        /\ next_ticket = 0
        /\ ticket = [t \in Thread |-> 0]
        /\ pc = [t \in Thread |-> "outside"]

\* Mutant: the ticket is read but not taken (load for fetch_add).
TakeTicketWithLoad(t) == /\ Goto(t, "outside", "spin")
                         /\ ticket' = [ticket EXCEPT ![t] = next_ticket]
                         /\ UNCHANGED <<serving_ticket, next_ticket>>

\* Acquire: ticket = next_ticket.fetch_add(1).
TakeTicket(t) == /\ Goto(t, "outside", "spin")
                 /\ ticket' = [ticket EXCEPT ![t] = next_ticket]
                 /\ next_ticket' = Inc(next_ticket)
                 /\ UNCHANGED serving_ticket

\* Acquire: while (ticket != serving_ticket.load()) {}
Spin(t) == /\ Goto(t, "spin", "held")
           /\ ticket[t] = serving_ticket
           /\ UNCHANGED <<serving_ticket, next_ticket, ticket>>

\* Release: serving_ticket.fetch_add(1).
Release(t) == /\ Goto(t, "held", "outside")
              /\ serving_ticket' = Inc(serving_ticket)
              /\ UNCHANGED <<next_ticket, ticket>>

Next == \E t \in Thread : TakeTicket(t) \/ Spin(t) \/ Release(t)

(***************************************************************************)
(* A thread that spins is running, so it sees the ticket it waits for; and *)
(* every SpinLockedRegion in the code ends, because no region waits for    *)
(* anything.  Nobody is forced to ask for the lock.                        *)
(***************************************************************************)
Fairness == \A t \in Thread : WF_vars(Spin(t)) /\ WF_vars(Release(t))

Spec == Init /\ [][Next]_vars /\ Fairness
-----------------------------------------------------------------------------
(* Properties.                                                             *)

\* Every variable stays within its type: tickets never leave the int range.
TypeOK == /\ serving_ticket \in Ticket
          /\ next_ticket \in Ticket
          /\ ticket \in [Thread -> Ticket]
          /\ pc \in [Thread -> {"outside", "spin", "held"}]

\* At most one thread is inside a SpinLockedRegion of one lock, also after
\* the tickets have wrapped around.
MutualExclusion ==
  \A s, t \in Thread : pc[s] = "held" /\ pc[t] = "held" => s = t

\* The threads that have taken a ticket and not released the lock.
Active == {t \in Thread : pc[t] # "outside"}

\* How many tickets have to be served before x is.
Distance(x) == IF x >= serving_ticket
               THEN x - serving_ticket
               ELSE x + TicketModulus - serving_ticket

\* The tickets in use are the ones from serving_ticket up to next_ticket, one
\* per active thread, and only the thread being served is inside.
TicketInv ==
  LET n == Cardinality(Active) IN
  /\ next_ticket = IF serving_ticket + n >= TicketModulus
                   THEN serving_ticket + n - TicketModulus
                   ELSE serving_ticket + n
  /\ \A t \in Active : Distance(ticket[t]) < n
  /\ \A s, t \in Active : ticket[s] = ticket[t] => s = t
  /\ \A i \in 1..n : \E t \in Active : Distance(ticket[t]) = i - 1
  /\ \A t \in Thread : pc[t] = "held" => ticket[t] = serving_ticket

\* The active threads in the order of their tickets; anyone where no ticket is for
\* the place.
TicketQueue == [i \in 1..Cardinality(Active) |->
                  CHOOSE t \in Active : \/ Distance(ticket[t]) = i - 1
                                        \/ \A u \in Active : Distance(ticket[u]) # i - 1]

Fifo == INSTANCE FifoLock WITH
          queue <- TicketQueue, held <- (\E t \in Thread : pc[t] = "held")

\* The ticket lock is a first-come-first-served lock: fetch_add on next_ticket
\* fixes the order in which threads enter.
ImplementsFifoLock == Fifo!Spec

\* No thread spins forever, whatever the other threads do.
NoStarvation == \A t \in Thread : (pc[t] = "spin") ~> (pc[t] = "held")
=============================================================================
