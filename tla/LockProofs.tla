----------------------------- MODULE LockProofs -----------------------------
(***************************************************************************)
(* The locks, for every set of threads: the ticket lock excludes, however  *)
(* often its counters wrap; the futex lock is a mutex and forgets no       *)
(* sleeper; the reader/writer lock is a reader/writer lock, if the threads *)
(* fit below the writer's bit.                                             *)
(***************************************************************************)
EXTENDS MCLocks, Sequences, FiniteSetTheorems, TLAPS

-----------------------------------------------------------------------------
(* The ticket lock (granary/base/lock.cc).                                 *)

\* The operator that SpinLock takes from FiniteSets is the one used here.
LEMMA SpinCardinality == \A S : Spin!Cardinality(S) = Cardinality(S)
BY DEF Spin!Cardinality, Cardinality

\* The active threads can be counted, and someone outside leaves a ticket.
LEMMA ActiveCount ==
  /\ IsFiniteSet(Spin!Active)
  /\ Cardinality(Spin!Active) \in Nat
  /\ Cardinality(Spin!Active) <= Cardinality(Thread)
  /\ Cardinality(Thread) \in Nat
<1>1. Spin!Active \subseteq Thread
  BY DEF Spin!Active
<1>2. IsFiniteSet(Thread)
  BY TicketAssumption
<1> QED
  BY <1>1, <1>2, FS_Subset, FS_CardinalityType

\* TakeTicket adds its thread to the active ones, and there is a ticket left.
LEMMA TakeTicketCount ==
  ASSUME Spin!TypeOK, NEW t \in Thread, Spin!TakeTicket(t)
  PROVE  /\ t \notin Spin!Active
         /\ Spin!Active' = Spin!Active \cup {t}
         /\ Cardinality(Spin!Active') = Cardinality(Spin!Active) + 1
         /\ Cardinality(Spin!Active) + 1 <= TicketModulus
<1>1. t \notin Spin!Active
  BY DEF Spin!TakeTicket, Spin!Goto, Spin!Active
<1>2. Spin!Active' = Spin!Active \cup {t}
  BY DEF Spin!TakeTicket, Spin!Goto, Spin!Active, Spin!TypeOK
<1>3. Cardinality(Spin!Active \cup {t}) = Cardinality(Spin!Active) + 1
  BY <1>1, ActiveCount, FS_AddElement
<1>4. Cardinality(Spin!Active \cup {t}) <= Cardinality(Thread)
  BY TicketAssumption, FS_Subset DEF Spin!Active
<1> QED
  BY <1>1, <1>2, <1>3, <1>4, ActiveCount, TicketAssumption

\* Release removes its thread from the active ones.
LEMMA ReleaseCount ==
  ASSUME Spin!TypeOK, NEW t \in Thread, Spin!Release(t)
  PROVE  /\ t \in Spin!Active
         /\ Spin!Active' = Spin!Active \ {t}
         /\ Cardinality(Spin!Active') = Cardinality(Spin!Active) - 1
<1>1. t \in Spin!Active
  BY DEF Spin!Release, Spin!Goto, Spin!Active
<1>2. Spin!Active' = Spin!Active \ {t}
  BY DEF Spin!Release, Spin!Goto, Spin!Active, Spin!TypeOK
<1>3. Cardinality(Spin!Active \ {t}) = Cardinality(Spin!Active) - 1
  BY <1>1, ActiveCount, FS_RemoveElement
<1> QED
  BY <1>1, <1>2, <1>3

LEMMA SpinTypeInit == Spin!Init => Spin!TypeOK
BY TicketAssumption DEF Spin!Init, Spin!TypeOK, Spin!Ticket

LEMMA SpinTypeStep == Spin!TypeOK /\ [Spin!Next]_(Spin!vars) => Spin!TypeOK'
<1> SUFFICES ASSUME Spin!TypeOK, [Spin!Next]_(Spin!vars)
             PROVE  Spin!TypeOK'
  OBVIOUS
<1> USE TicketAssumption DEF Spin!TypeOK, Spin!Ticket, Spin!Goto
<1>1. ASSUME NEW t \in Thread, Spin!TakeTicket(t) PROVE Spin!TypeOK'
  BY <1>1 DEF Spin!TakeTicket, Spin!Inc
<1>2. ASSUME NEW t \in Thread, Spin!Spin(t) PROVE Spin!TypeOK'
  BY <1>2 DEF Spin!Spin
<1>3. ASSUME NEW t \in Thread, Spin!Release(t) PROVE Spin!TypeOK'
  BY <1>3 DEF Spin!Release, Spin!Inc
<1>4. CASE UNCHANGED Spin!vars
  BY <1>4 DEF Spin!vars
<1> QED
  BY <1>1, <1>2, <1>3, <1>4 DEF Spin!Next

LEMMA TicketInit == Spin!Init => Spin!TicketInv
<1> SUFFICES ASSUME Spin!Init PROVE Spin!TicketInv
  OBVIOUS
<1>1. Spin!Active = {}
  BY DEF Spin!Init, Spin!Active
<1>2. Cardinality(Spin!Active) = 0
  BY <1>1, FS_EmptySet
<1> QED
  BY <1>1, <1>2, TicketAssumption, SpinCardinality DEF Spin!Init, Spin!TicketInv

LEMMA TicketStep == Spin!TypeOK /\ Spin!TicketInv /\ [Spin!Next]_(Spin!vars) => Spin!TicketInv'
<1> SUFFICES ASSUME Spin!TypeOK, Spin!TicketInv, [Spin!Next]_(Spin!vars)
             PROVE  Spin!TicketInv'
  OBVIOUS
<1> USE TicketAssumption, ActiveCount, SpinCardinality
<1>1. ASSUME NEW t \in Thread, Spin!TakeTicket(t)
      PROVE  Spin!TicketInv'
  <2>0. /\ t \notin Spin!Active
        /\ Spin!Active' = Spin!Active \cup {t}
        /\ Cardinality(Spin!Active') = Cardinality(Spin!Active) + 1
        /\ Cardinality(Spin!Active) + 1 <= TicketModulus
    BY <1>1, TakeTicketCount
  <2>1. /\ serving_ticket' = serving_ticket
        /\ next_ticket' = Spin!Inc(next_ticket)
        /\ ticket'[t] = next_ticket
        /\ \A u \in Spin!Active : ticket'[u] = ticket[u]
        /\ \A u \in Thread : spin_pc'[u] = "held" => spin_pc[u] = "held" /\ u # t
        /\ \A u \in Thread : u # t => ticket'[u] = ticket[u]
    BY <1>1, <2>0 DEF Spin!TakeTicket, Spin!Goto, Spin!TypeOK, Spin!Active
  <2>2. next_ticket' = IF serving_ticket' + Cardinality(Spin!Active') >= TicketModulus
                       THEN serving_ticket' + Cardinality(Spin!Active') - TicketModulus
                       ELSE serving_ticket' + Cardinality(Spin!Active')
    BY <2>0, <2>1 DEF Spin!TicketInv, Spin!TypeOK, Spin!Ticket, Spin!Inc
  <2>3. Spin!Distance(next_ticket) = Cardinality(Spin!Active)
    BY <2>0 DEF Spin!TicketInv, Spin!TypeOK, Spin!Ticket, Spin!Distance
  <2>4. ASSUME NEW u \in Spin!Active'
        PROVE  Spin!Distance(ticket[u])' < Cardinality(Spin!Active')
    <3>1. CASE u = t
      BY <3>1, <2>0, <2>1, <2>3 DEF Spin!Distance
    <3>2. CASE u \in Spin!Active
      <4>1. /\ Spin!Distance(ticket[u])' = Spin!Distance(ticket[u])
            /\ Spin!Distance(ticket[u]) < Cardinality(Spin!Active)
            /\ Spin!Distance(ticket[u]) \in Int
        BY <3>2, <2>1 DEF Spin!Distance, Spin!TicketInv, Spin!TypeOK, Spin!Ticket, Spin!Active
      <4> QED
        BY <4>1, <2>0
    <3> QED
      BY <3>1, <3>2, <2>0
  <2>5. \A u \in Spin!Active : ticket[u] # next_ticket
    <3>1. \A u \in Spin!Active : Spin!Distance(ticket[u]) # Cardinality(Spin!Active)
      BY DEF Spin!TicketInv, Spin!TypeOK, Spin!Ticket, Spin!Active, Spin!Distance
    <3> QED
      BY <3>1, <2>3
  <2>6. \A u, v \in Spin!Active' : ticket'[u] = ticket'[v] => u = v
    BY <2>0, <2>1, <2>5 DEF Spin!TicketInv
  <2>7. \A u \in Thread : spin_pc'[u] = "held" => ticket'[u] = serving_ticket'
    BY <2>1 DEF Spin!TicketInv
  <2>8. ASSUME NEW i \in 1..Cardinality(Spin!Active')
        PROVE  \E u \in Spin!Active' : Spin!Distance(ticket[u])' = i - 1
    <3>1. CASE i = Cardinality(Spin!Active')
      BY <3>1, <2>0, <2>1, <2>3 DEF Spin!Distance
    <3>2. CASE i # Cardinality(Spin!Active')
      <4>1. PICK u \in Spin!Active : Spin!Distance(ticket[u]) = i - 1
        BY <3>2, <2>0 DEF Spin!TicketInv
      <4> QED
        BY <4>1, <2>0, <2>1 DEF Spin!Distance
    <3> QED
      BY <3>1, <3>2
  <2> QED
    BY <2>2, <2>4, <2>6, <2>7, <2>8 DEF Spin!TicketInv
<1>2. ASSUME NEW t \in Thread, Spin!Spin(t)
      PROVE  Spin!TicketInv'
  <2>1. /\ UNCHANGED <<serving_ticket, next_ticket, ticket>>
        /\ Spin!Active' = Spin!Active
        /\ \A u \in Thread : spin_pc'[u] = "held" => u = t \/ spin_pc[u] = "held"
        /\ ticket[t] = serving_ticket
    BY <1>2 DEF Spin!Spin, Spin!Goto, Spin!Active, Spin!TypeOK
  <2> QED
    BY <2>1 DEF Spin!TicketInv, Spin!Distance
<1>3. ASSUME NEW t \in Thread, Spin!Release(t)
      PROVE  Spin!TicketInv'
  <2>0. /\ t \in Spin!Active
        /\ Spin!Active' = Spin!Active \ {t}
        /\ Cardinality(Spin!Active') = Cardinality(Spin!Active) - 1
    BY <1>3, ReleaseCount
  <2>1. /\ serving_ticket' = Spin!Inc(serving_ticket)
        /\ next_ticket' = next_ticket
        /\ ticket' = ticket
        /\ ticket[t] = serving_ticket
        /\ \A u \in Thread : spin_pc'[u] = "held" => spin_pc[u] = "held" /\ u # t
    BY <1>3 DEF Spin!Release, Spin!Goto, Spin!TypeOK, Spin!TicketInv
  <2>2. next_ticket' = IF serving_ticket' + Cardinality(Spin!Active') >= TicketModulus
                       THEN serving_ticket' + Cardinality(Spin!Active') - TicketModulus
                       ELSE serving_ticket' + Cardinality(Spin!Active')
    <3>1. Cardinality(Spin!Active) >= 1
      BY <2>0, FS_EmptySet
    <3> QED
      BY <2>0, <2>1, <3>1 DEF Spin!TicketInv, Spin!TypeOK, Spin!Ticket, Spin!Inc
  <2>3. ASSUME NEW u \in Spin!Active'
        PROVE  Spin!Distance(ticket[u])' < Cardinality(Spin!Active')
    <3>1. /\ ticket[u] # serving_ticket
          /\ ticket[u] \in Spin!Ticket
          /\ Spin!Distance(ticket[u]) < Cardinality(Spin!Active)
      BY <2>0, <2>1 DEF Spin!TicketInv, Spin!TypeOK, Spin!Active
    <3>2. Spin!Distance(ticket[u])' = Spin!Distance(ticket[u]) - 1
      BY <3>1, <2>1 DEF Spin!Distance, Spin!Inc, Spin!TypeOK, Spin!Ticket
    <3> QED
      BY <3>1, <3>2, <2>0 DEF Spin!Distance, Spin!TypeOK, Spin!Ticket
  <2>4. \A u, v \in Spin!Active' : ticket'[u] = ticket'[v] => u = v
    BY <2>0, <2>1 DEF Spin!TicketInv
  <2>5. \A u \in Thread : spin_pc'[u] # "held"
    BY <2>0, <2>1 DEF Spin!TicketInv, Spin!Active
  <2>6. ASSUME NEW i \in 1..Cardinality(Spin!Active')
        PROVE  \E u \in Spin!Active' : Spin!Distance(ticket[u])' = i - 1
    <3>1. PICK u \in Spin!Active : Spin!Distance(ticket[u]) = (i + 1) - 1
      BY <2>0 DEF Spin!TicketInv
    <3>2. u \in Spin!Active' /\ ticket[u] \in Spin!Ticket
      BY <3>1, <2>0, <2>1 DEF Spin!Distance, Spin!TypeOK, Spin!Active, Spin!Ticket
    <3> QED
      BY <3>1, <3>2, <2>1 DEF Spin!Distance, Spin!Inc, Spin!TypeOK, Spin!Ticket
  <2> QED
    BY <2>2, <2>3, <2>4, <2>5, <2>6 DEF Spin!TicketInv
<1>4. CASE UNCHANGED Spin!vars
  BY <1>4 DEF Spin!vars, Spin!TicketInv, Spin!Active, Spin!Distance
<1> QED
  BY <1>1, <1>2, <1>3, <1>4 DEF Spin!Next

\* Every reachable state of SpinLock::Acquire/Release is well typed, and the
\* tickets in use are exactly the ones between the two counters.
THEOREM TicketInvHolds == Spin!Spec => [](Spin!TypeOK /\ Spin!TicketInv)
<1>1. Spin!Init => Spin!TypeOK /\ Spin!TicketInv
  BY SpinTypeInit, TicketInit
<1>2. (Spin!TypeOK /\ Spin!TicketInv) /\ [Spin!Next]_(Spin!vars) => (Spin!TypeOK /\ Spin!TicketInv)'
  BY SpinTypeStep, TicketStep
<1> QED
  BY <1>1, <1>2, PTL DEF Spin!Spec

\* SpinLock::Acquire lets at most one thread in at a time, for any number of
\* threads up to the number of tickets, however often the counters wrap.
THEOREM MutualExclusionHolds == Spin!Spec => []Spin!MutualExclusion
<1>1. Spin!TypeOK /\ Spin!TicketInv => Spin!MutualExclusion
  BY DEF Spin!TicketInv, Spin!MutualExclusion, Spin!Active
<1> QED
  BY <1>1, TicketInvHolds, PTL

\* The queue of the active threads has each of them, where its ticket says.
QueueOK ==
  /\ Cardinality(Spin!Active) \in Nat
  /\ Spin!TicketQueue \in Seq(Thread)
  /\ Len(Spin!TicketQueue) = Cardinality(Spin!Active)
  /\ \A i \in 1..Cardinality(Spin!Active) :
       /\ Spin!TicketQueue[i] \in Spin!Active
       /\ Spin!Distance(ticket[Spin!TicketQueue[i]]) = i - 1
  /\ \A t \in Spin!Active : \A i \in 1..Cardinality(Spin!Active) :
       Spin!Distance(ticket[t]) = i - 1 => Spin!TicketQueue[i] = t

LEMMA QueueFacts == Spin!TypeOK /\ Spin!TicketInv => QueueOK
<1> SUFFICES ASSUME Spin!TypeOK, Spin!TicketInv PROVE QueueOK
  OBVIOUS
<1> DEFINE n == Cardinality(Spin!Active)
           q == Spin!TicketQueue
<1>1. n \in Nat /\ Spin!Active \subseteq Thread
  BY ActiveCount DEF Spin!Active
<1>2. q = [i \in 1..n |->
             CHOOSE t \in Spin!Active :
               \/ Spin!Distance(ticket[t]) = i - 1
               \/ \A u \in Spin!Active : Spin!Distance(ticket[u]) # i - 1]
  BY SpinCardinality DEF Spin!TicketQueue
<1>3. ASSUME NEW i \in 1..n
      PROVE  q[i] \in Spin!Active /\ Spin!Distance(ticket[q[i]]) = i - 1
  <2>1. \E t \in Spin!Active : Spin!Distance(ticket[t]) = i - 1
    BY SpinCardinality DEF Spin!TicketInv
  <2> QED
    BY <1>2, <2>1
<1>4. ASSUME NEW t \in Spin!Active, NEW u \in Spin!Active,
             Spin!Distance(ticket[t]) = Spin!Distance(ticket[u])
      PROVE  t = u
  <2>1. ticket[t] = ticket[u]
    BY <1>1, <1>4, TicketAssumption DEF Spin!Distance, Spin!TypeOK, Spin!Ticket
  <2> QED
    BY <2>1 DEF Spin!TicketInv
<1>5. q \in Seq(Thread) /\ Len(q) = n
  <2>1. q \in [1..n -> Thread]
    BY <1>1, <1>2, <1>3
  <2> QED
    BY <1>1, <2>1
<1> QED
  BY <1>1, <1>3, <1>4, <1>5 DEF QueueOK

\* Sequences are equal if they have the same elements at the same places.
LEMMA SeqEqual ==
  ASSUME NEW S, NEW r \in Seq(S), NEW s \in Seq(S), Len(r) = Len(s),
         \A i \in 1..Len(r) : r[i] = s[i]
  PROVE  r = s
OBVIOUS

LEMMA FifoInit == Spin!Init => Spin!Fifo!Init
<1> SUFFICES ASSUME Spin!Init PROVE Spin!Fifo!Init
  OBVIOUS
<1>1. Spin!TypeOK /\ Spin!TicketInv
  BY SpinTypeInit, TicketInit
<1>2. Cardinality(Spin!Active) = 0
  <2>1. Spin!Active = {}
    BY DEF Spin!Init, Spin!Active
  <2> QED
    BY <2>1, FS_EmptySet
<1>3. Spin!TicketQueue = << >>
  BY <1>1, <1>2, QueueFacts DEF QueueOK
<1> QED
  BY <1>3 DEF Spin!Init, Spin!Fifo!Init

LEMMA FifoStep ==
  Spin!TypeOK /\ Spin!TicketInv /\ [Spin!Next]_(Spin!vars)
    => [Spin!Fifo!Next]_(Spin!Fifo!vars)
<1> SUFFICES ASSUME Spin!TypeOK, Spin!TicketInv, [Spin!Next]_(Spin!vars)
             PROVE  [Spin!Fifo!Next]_(Spin!Fifo!vars)
  OBVIOUS
<1> DEFINE n == Cardinality(Spin!Active)
           q == Spin!TicketQueue
           held == \E t \in Thread : spin_pc[t] = "held"
<1>0. Spin!TypeOK' /\ Spin!TicketInv'
  BY SpinTypeStep, TicketStep
<1>a. QueueOK
  BY QueueFacts
<1>b. QueueOK'
  BY <1>0, QueueFacts, PTL
<1>1. ASSUME NEW t \in Thread, Spin!TakeTicket(t) PROVE Spin!Fifo!Request(t)
  <2>1. /\ t \notin Spin!Active
        /\ Spin!Active' = Spin!Active \cup {t}
        /\ n' = n + 1
    BY <1>1, TakeTicketCount
  <2>2. /\ serving_ticket' = serving_ticket /\ ticket'[t] = next_ticket
        /\ \A u \in Spin!Active : ticket'[u] = ticket[u]
        /\ \A u \in Thread : spin_pc'[u] = "held" <=> spin_pc[u] = "held"
    BY <1>1, <2>1 DEF Spin!TakeTicket, Spin!Goto, Spin!TypeOK, Spin!Active
  <2>3. \A i \in 1..n : q'[i] = q[i]
    <3> SUFFICES ASSUME NEW i \in 1..n PROVE q'[i] = q[i]
      OBVIOUS
    <3>1. PICK u \in Spin!Active : u = q[i] /\ Spin!Distance(ticket[u]) = i - 1
      BY <1>a DEF QueueOK
    <3>2. Spin!Distance(ticket[u])' = i - 1
      BY <2>2, <3>1 DEF Spin!Distance
    <3>3. u \in Spin!Active' /\ i \in 1..n'
      BY <1>a, <2>1, <3>1 DEF QueueOK
    <3>4. q'[i] = u
      BY <1>b, <3>2, <3>3 DEF QueueOK
    <3> QED
      BY <3>1, <3>4
  <2>4. q'[n + 1] = t
    <3>1. Spin!Distance(ticket[t])' = n
      BY <1>a, <2>2, SpinCardinality, TicketAssumption, TakeTicketCount, <1>1
      DEF Spin!TicketInv, Spin!TypeOK, Spin!Ticket, Spin!Distance, QueueOK
    <3>2. t \in Spin!Active' /\ n + 1 \in 1..n' /\ n = (n + 1) - 1
      BY <1>a, <2>1 DEF QueueOK
    <3> QED
      BY <1>b, <3>1, <3>2 DEF QueueOK
  <2>5. q' = Append(q, t)
    <3>1. /\ n \in Nat /\ q \in Seq(Thread) /\ Len(q) = n
          /\ q' \in Seq(Thread) /\ Len(q') = n + 1
      BY <1>a, <1>b, <2>1 DEF QueueOK
    <3>2. \A i \in 1..(n + 1) : q'[i] = Append(q, t)[i]
      BY <2>3, <2>4, <3>1
    <3> HIDE DEF n, q
    <3> QED
      BY <3>1, <3>2, SeqEqual
  <2>6. \A i \in 1..Len(q) : q[i] # t
    BY <1>a, <2>1 DEF QueueOK
  <2> QED
    BY <2>2, <2>5, <2>6 DEF Spin!Fifo!Request, Spin!Fifo!Queued
<1>2. ASSUME NEW t \in Thread, Spin!Spin(t) PROVE Spin!Fifo!Grant
  <2>1. /\ t \in Spin!Active /\ Spin!Active' = Spin!Active
        /\ spin_pc[t] = "spin" /\ spin_pc'[t] = "held" /\ ticket[t] = serving_ticket
        /\ UNCHANGED <<serving_ticket, ticket>>
    BY <1>2 DEF Spin!Spin, Spin!Goto, Spin!TypeOK, Spin!Active
  <2>2. \A u \in Thread : spin_pc[u] # "held"
    BY <2>1 DEF Spin!TicketInv, Spin!Active
  <2>3. q' = q
    BY <2>1 DEF Spin!TicketQueue, Spin!Distance
  <2>4. q # << >>
    <3>1. n # 0
      BY <2>1, ActiveCount, FS_EmptySet
    <3> QED
      BY <1>a, <3>1 DEF QueueOK
  <2> QED
    BY <2>1, <2>2, <2>3, <2>4 DEF Spin!Fifo!Grant
<1>3. ASSUME NEW t \in Thread, Spin!Release(t) PROVE Spin!Fifo!Release
  <2>1. /\ t \in Spin!Active
        /\ Spin!Active' = Spin!Active \ {t}
        /\ n' = n - 1
    BY <1>3, ReleaseCount
  <2>2. /\ serving_ticket' = Spin!Inc(serving_ticket) /\ ticket' = ticket
        /\ ticket[t] = serving_ticket /\ spin_pc[t] = "held"
        /\ \A u \in Thread : spin_pc'[u] = "held" => spin_pc[u] = "held" /\ u # t
    BY <1>3 DEF Spin!Release, Spin!Goto, Spin!TypeOK, Spin!TicketInv
  <2>3. \A u \in Thread : spin_pc'[u] # "held"
    BY <2>1, <2>2 DEF Spin!TicketInv, Spin!Active
  <2>4. n \in Nat /\ n' \in Nat /\ n # 0
    BY <1>a, <1>b, <2>1 DEF QueueOK
  <2>5. \A i \in 1..n' : q'[i] = q[i + 1]
    <3> SUFFICES ASSUME NEW i \in 1..n' PROVE q'[i] = q[i + 1]
      OBVIOUS
    <3>1. i + 1 \in 1..n /\ i \in Nat /\ i # 0 /\ (i + 1) - 1 = i
      BY <2>1, <2>4
    <3>2. PICK u \in Spin!Active : u = q[i + 1] /\ Spin!Distance(ticket[u]) = i
      BY <1>a, <3>1 DEF QueueOK
    <3>3. ticket[u] # serving_ticket /\ ticket[u] \in Spin!Ticket /\ serving_ticket \in Spin!Ticket
      BY <3>1, <3>2 DEF Spin!Distance, Spin!TypeOK, Spin!Ticket, Spin!Active
    <3>4. Spin!Distance(ticket[u])' = i - 1
      BY <2>2, <3>2, <3>3, TicketAssumption DEF Spin!Distance, Spin!Inc, Spin!Ticket
    <3>5. u \in Spin!Active'
      BY <2>1, <2>2, <3>3
    <3>6. q'[i] = u
      BY <1>b, <3>4, <3>5 DEF QueueOK
    <3> QED
      BY <3>2, <3>6
  <2>6. q' = Tail(q)
    <3>1. /\ q \in Seq(Thread) /\ Len(q) = n
          /\ q' \in Seq(Thread) /\ Len(q') = n'
      BY <1>a, <1>b DEF QueueOK
    <3>2. Tail(q) \in Seq(Thread) /\ Len(Tail(q)) = n'
      BY <2>1, <2>4, <3>1
    <3>3. \A i \in 1..n' : q'[i] = Tail(q)[i]
      <4> HIDE DEF n, q
      <4>1. \A i \in 1..(Len(q) - 1) : Tail(q)[i] = q[i + 1]
        BY <2>4, <3>1
      <4> QED
        BY <2>1, <2>5, <3>1, <4>1
    <3> HIDE DEF n, q
    <3> QED
      BY <2>4, <3>1, <3>2, <3>3, SeqEqual
  <2> QED
    BY <2>2, <2>3, <2>6 DEF Spin!Fifo!Release
<1>4. CASE UNCHANGED Spin!vars
  BY <1>4 DEF Spin!vars, Spin!Fifo!vars, Spin!TicketQueue, Spin!Active, Spin!Distance
<1> QED
  BY <1>1, <1>2, <1>3, <1>4 DEF Spin!Next, Spin!Fifo!Next

\* The ticket lock is first come, first served: fetch_add on next_ticket fixes the order
\* in which threads get in, however often the counters wrap.
THEOREM SpinLockImplementsFifo == Spin!Spec => ImplementsFifoLock
<1> QED
  BY TicketInvHolds, FifoInit, FifoStep, PTL
  DEF Spin!Spec, ImplementsFifoLock, Spin!ImplementsFifoLock, Spin!Fifo!Spec

-----------------------------------------------------------------------------
(* The futex lock (os/linux/user/lock.cc).                                 *)

USE DEF Futex!kLockUncontended, Futex!kLockAcquired, Futex!kLockContended

\* Every step of the specification, and nothing else.
LEMMA FutexSteps ==
  ASSUME [Futex!Next]_(Futex!vars), NEW P,
         \A t \in FutexThread : Futex!FastPath(t) => P,
         \A t \in FutexThread : Futex!SpuriousWake(t) => P,
         \A t \in FutexThread : Futex!Test(t) => P,
         \A t \in FutexThread : Futex!Mark(t) => P,
         \A t \in FutexThread : Futex!Wait(t) => P,
         \A t \in FutexThread : Futex!Retry(t) => P,
         \A t \in FutexThread : Futex!Release(t) => P,
         \A t \in FutexThread : Futex!Store(t) => P,
         \A t \in FutexThread : Futex!Wake(t) => P,
         UNCHANGED Futex!vars => P
  PROVE  P
BY DEF Futex!Next, Futex!Proceed

LEMMA FutexTypeInit == Futex!Init => Futex!TypeOK
BY DEF Futex!Init, Futex!TypeOK, Futex!Label

LEMMA HolderInit == Futex!Init => Futex!HolderInv
BY DEF Futex!Init, Futex!HolderInv, Futex!Holding

LEMMA FutexTypeHolderStep == Futex!TypeOK /\ Futex!HolderInv /\ [Futex!Next]_(Futex!vars) => (Futex!TypeOK /\ Futex!HolderInv)'
<1> SUFFICES ASSUME Futex!TypeOK, Futex!HolderInv, [Futex!Next]_(Futex!vars)
             PROVE  (Futex!TypeOK /\ Futex!HolderInv)'
  OBVIOUS
<1> USE DEF Futex!TypeOK, Futex!HolderInv, Futex!Holding, Futex!Goto, Futex!CAS, Futex!Label
<1>1. \A t \in FutexThread : Futex!FastPath(t) => (Futex!TypeOK /\ Futex!HolderInv)'
  BY DEF Futex!FastPath
<1>2. \A t \in FutexThread : Futex!SpuriousWake(t) => (Futex!TypeOK /\ Futex!HolderInv)'
  BY DEF Futex!SpuriousWake
<1>3. \A t \in FutexThread : Futex!Test(t) => (Futex!TypeOK /\ Futex!HolderInv)'
  BY DEF Futex!Test
<1>4. \A t \in FutexThread : Futex!Mark(t) => (Futex!TypeOK /\ Futex!HolderInv)'
  BY DEF Futex!Mark
<1>5. \A t \in FutexThread : Futex!Wait(t) => (Futex!TypeOK /\ Futex!HolderInv)'
  BY DEF Futex!Wait
<1>6. \A t \in FutexThread : Futex!Retry(t) => (Futex!TypeOK /\ Futex!HolderInv)'
  BY DEF Futex!Retry
<1>7. \A t \in FutexThread : Futex!Release(t) => (Futex!TypeOK /\ Futex!HolderInv)'
  BY DEF Futex!Release
<1>8. \A t \in FutexThread : Futex!Store(t) => (Futex!TypeOK /\ Futex!HolderInv)'
  BY DEF Futex!Store
<1>9. \A t \in FutexThread : Futex!Wake(t) => (Futex!TypeOK /\ Futex!HolderInv)'
  BY DEF Futex!Wake
<1>10. UNCHANGED Futex!vars => (Futex!TypeOK /\ Futex!HolderInv)'
  BY DEF Futex!vars
<1> HIDE DEF Futex!TypeOK, Futex!HolderInv
<1> QED
  BY <1>1, <1>2, <1>3, <1>4, <1>5, <1>6, <1>7, <1>8, <1>9, <1>10, FutexSteps

\* os::Lock::Acquire and Release keep the lock word and the threads' places
\* consistent: one holder, and never a free word while there is a holder.
THEOREM HolderInvHolds == Futex!Spec => [](Futex!TypeOK /\ Futex!HolderInv)
<1>1. Futex!Init => Futex!TypeOK /\ Futex!HolderInv
  BY FutexTypeInit, HolderInit
<1>2. (Futex!TypeOK /\ Futex!HolderInv) /\ [Futex!Next]_(Futex!vars) => (Futex!TypeOK /\ Futex!HolderInv)'
  BY FutexTypeHolderStep
<1> QED
  BY <1>1, <1>2, PTL DEF Futex!Spec

LEMMA SleeperInit == Futex!Init => Futex!NoForgottenSleeper
BY DEF Futex!Init, Futex!NoForgottenSleeper

LEMMA SleeperStep == Futex!TypeOK /\ Futex!NoForgottenSleeper /\ [Futex!Next]_(Futex!vars) => Futex!NoForgottenSleeper'
<1> SUFFICES ASSUME Futex!TypeOK, Futex!NoForgottenSleeper, [Futex!Next]_(Futex!vars)
             PROVE  Futex!NoForgottenSleeper'
  OBVIOUS
<1> USE DEF Futex!TypeOK, Futex!NoForgottenSleeper, Futex!Rescuer, Futex!Goto, Futex!CAS, Futex!Label
<1>1. \A t \in FutexThread : Futex!FastPath(t) => Futex!NoForgottenSleeper'
  BY DEF Futex!FastPath
<1>2. \A t \in FutexThread : Futex!SpuriousWake(t) => Futex!NoForgottenSleeper'
  BY DEF Futex!SpuriousWake
<1>3. \A t \in FutexThread : Futex!Test(t) => Futex!NoForgottenSleeper'
  BY DEF Futex!Test
<1>4. \A t \in FutexThread : Futex!Mark(t) => Futex!NoForgottenSleeper'
  BY DEF Futex!Mark
<1>5. \A t \in FutexThread : Futex!Wait(t) => Futex!NoForgottenSleeper'
  BY DEF Futex!Wait
<1>6. \A t \in FutexThread : Futex!Retry(t) => Futex!NoForgottenSleeper'
  BY DEF Futex!Retry
<1>7. \A t \in FutexThread : Futex!Release(t) => Futex!NoForgottenSleeper'
  BY DEF Futex!Release
<1>8. \A t \in FutexThread : Futex!Store(t) => Futex!NoForgottenSleeper'
  BY DEF Futex!Store
<1>9. \A t \in FutexThread : Futex!Wake(t) => Futex!NoForgottenSleeper'
  BY DEF Futex!Wake
<1>10. UNCHANGED Futex!vars => Futex!NoForgottenSleeper'
  BY DEF Futex!vars
<1> HIDE DEF Futex!TypeOK, Futex!NoForgottenSleeper
<1> QED
  BY <1>1, <1>2, <1>3, <1>4, <1>5, <1>6, <1>7, <1>8, <1>9, <1>10, FutexSteps

\* No thread that sleeps in FUTEX_WAIT is left behind by Release's two steps
\* or by a barging thread: the lock is contended, or someone will see to it.
THEOREM NoForgottenSleeperHolds == Futex!Spec => []NoForgottenSleeper
<1>1. Futex!Spec => [](Futex!TypeOK /\ Futex!HolderInv)
  BY HolderInvHolds
<1> QED
  BY <1>1, SleeperInit, SleeperStep, PTL DEF Futex!Spec, NoForgottenSleeper

LEMMA FutexAbstractInit == Futex!Init => Futex!Abstract!Init
BY DEF Futex!Init, Futex!Abstract!Init, Futex!Holding

LEMMA FutexAbstractStep ==
  Futex!TypeOK /\ Futex!HolderInv /\ [Futex!Next]_(Futex!vars) => [Futex!Abstract!Next]_(Futex!Abstract!vars)
<1> SUFFICES ASSUME Futex!TypeOK, Futex!HolderInv, [Futex!Next]_(Futex!vars)
             PROVE  [Futex!Abstract!Next]_(Futex!Abstract!vars)
  OBVIOUS
<1> DEFINE Step == [Futex!Abstract!Next]_(Futex!Abstract!vars)
<1> USE DEF Futex!TypeOK, Futex!HolderInv, Futex!Goto, Futex!CAS, Futex!Label, Futex!Holding
<1>a. ASSUME NEW t \in FutexThread, Futex!Abstract!BeginWrite(t) \/ Futex!Abstract!EndWrite(t)
      PROVE  Step
  BY <1>a DEF Futex!Abstract!Next
<1>b. Futex!Holding' = Futex!Holding => Step
  BY DEF Futex!Abstract!vars
<1> HIDE DEF Step
<1>1. ASSUME NEW t \in FutexThread, Futex!FastPath(t) PROVE Step
  <2>1. CASE state = Futex!kLockUncontended
    <3>1. Futex!Holding = {} /\ Futex!Holding' = {t}
      BY <1>1, <2>1 DEF Futex!FastPath
    <3> QED
      BY <3>1, <1>a DEF Futex!Abstract!BeginWrite
  <2>2. CASE state # Futex!kLockUncontended
    <3>1. Futex!Holding' = Futex!Holding
      BY <1>1, <2>2 DEF Futex!FastPath
    <3> QED
      BY <3>1, <1>b
  <2> QED
    BY <2>1, <2>2
<1>2. ASSUME NEW t \in FutexThread, Futex!SpuriousWake(t) PROVE Step
  <2>1. Futex!Holding' = Futex!Holding
    BY <1>2 DEF Futex!SpuriousWake
  <2> QED
    BY <2>1, <1>b
<1>3. ASSUME NEW t \in FutexThread, Futex!Test(t) PROVE Step
  <2>1. Futex!Holding' = Futex!Holding
    BY <1>3 DEF Futex!Test
  <2> QED
    BY <2>1, <1>b
<1>4. ASSUME NEW t \in FutexThread, Futex!Mark(t) PROVE Step
  <2>1. Futex!Holding' = Futex!Holding
    BY <1>4 DEF Futex!Mark
  <2> QED
    BY <2>1, <1>b
<1>5. ASSUME NEW t \in FutexThread, Futex!Wait(t) PROVE Step
  <2>1. Futex!Holding' = Futex!Holding
    BY <1>5 DEF Futex!Wait
  <2> QED
    BY <2>1, <1>b
<1>6. ASSUME NEW t \in FutexThread, Futex!Retry(t) PROVE Step
  <2>1. CASE state = Futex!kLockUncontended
    <3>1. Futex!Holding = {} /\ Futex!Holding' = {t}
      BY <1>6, <2>1 DEF Futex!Retry
    <3> QED
      BY <3>1, <1>a DEF Futex!Abstract!BeginWrite
  <2>2. CASE state # Futex!kLockUncontended
    <3>1. Futex!Holding' = Futex!Holding
      BY <1>6, <2>2 DEF Futex!Retry
    <3> QED
      BY <3>1, <1>b
  <2> QED
    BY <2>1, <2>2
<1>7. ASSUME NEW t \in FutexThread, Futex!Release(t) PROVE Step
  <2>1. CASE state = Futex!kLockContended
    <3>1. Futex!Holding' = Futex!Holding
      BY <1>7, <2>1 DEF Futex!Release
    <3> QED
      BY <3>1, <1>b
  <2>2. CASE state # Futex!kLockContended
    <3>1. t \in Futex!Holding /\ Futex!Holding' = Futex!Holding \ {t}
      BY <1>7, <2>2 DEF Futex!Release
    <3> QED
      BY <3>1, <1>a DEF Futex!Abstract!EndWrite
  <2> QED
    BY <2>1, <2>2
<1>8. ASSUME NEW t \in FutexThread, Futex!Store(t) PROVE Step
  <2>1. t \in Futex!Holding /\ Futex!Holding' = Futex!Holding \ {t}
    BY <1>8 DEF Futex!Store
  <2> QED
    BY <2>1, <1>a DEF Futex!Abstract!EndWrite
<1>9. ASSUME NEW t \in FutexThread, Futex!Wake(t) PROVE Step
  <2>1. Futex!Holding' = Futex!Holding
    BY <1>9 DEF Futex!Wake
  <2> QED
    BY <2>1, <1>b
<1>10. ASSUME UNCHANGED Futex!vars PROVE Step
  <2>1. Futex!Holding' = Futex!Holding
    BY <1>10 DEF Futex!vars
  <2> QED
    BY <2>1, <1>b
<1>11. Step
  <2> HIDE DEF Futex!TypeOK, Futex!HolderInv
  <2> QED
    BY <1>1, <1>2, <1>3, <1>4, <1>5, <1>6, <1>7, <1>8, <1>9, <1>10 DEF Futex!Next, Futex!Proceed
<1> QED
  BY <1>11 DEF Step

\* os::Lock implements a mutex: every step of the lock word is an entry while
\* nobody has the lock, a departure, or no change of who has it.
THEOREM FutexLockImplementsMutex == Futex!Spec => ImplementsMutex
<1>1. Futex!Spec => [](Futex!TypeOK /\ Futex!HolderInv)
  BY HolderInvHolds
<1>2. Futex!Spec => Futex!Abstract!Spec
  BY <1>1, FutexAbstractInit, FutexAbstractStep, PTL DEF Futex!Spec, Futex!Abstract!Spec
<1> QED
  BY <1>2 DEF ImplementsMutex, Futex!ImplementsMutex
-----------------------------------------------------------------------------
(* The reader/writer lock (granary/base/lock.cc).                          *)

USE LockAssumption

\* The readers can be counted, and they fit below the writer's bit.
LEMMA ReaderCount ==
  /\ IsFiniteSet(Reading)
  /\ Cardinality(Reading) \in Nat
  /\ Cardinality(Reading) < WriterBit
  /\ Cardinality(Reading) = 0 <=> Reading = {}
<1>1. Reading \subseteq Thread
  BY DEF Reading
<1>2. IsFiniteSet(Thread) /\ Cardinality(Thread) \in Nat
  BY FS_CardinalityType
<1>3. IsFiniteSet(Reading) /\ Cardinality(Reading) <= Cardinality(Thread)
  BY <1>1, <1>2, FS_Subset
<1>4. Cardinality(Reading) \in Nat
  BY <1>3, FS_CardinalityType
<1>5. Cardinality(Reading) = 0 <=> Reading = {}
  BY <1>3, FS_EmptySet
<1> QED
  BY <1>2, <1>3, <1>4, <1>5

\* A reader outside is not the last one that fits below the writer's bit.
LEMMA RoomForReader ==
  ASSUME NEW t \in Thread, t \notin Reading
  PROVE  /\ Cardinality(Reading \cup {t}) = Cardinality(Reading) + 1
         /\ Cardinality(Reading) + 1 < WriterBit
<1>1. Cardinality(Reading \cup {t}) = Cardinality(Reading) + 1
  BY ReaderCount, FS_AddElement
<1>2. Reading \cup {t} \subseteq Thread
  BY DEF Reading
<1>3. Cardinality(Reading \cup {t}) <= Cardinality(Thread)
  BY <1>2, FS_Subset
<1> QED
  BY <1>1, <1>3, ReaderCount, FS_CardinalityType

\* Masking off the writer's bit leaves a count of readers.
LEMMA MaskedWord ==
  ASSUME TypeOK
  PROVE  lock \in Nat /\ Readers(lock) \in Word /\ Readers(lock) < WriterBit
<1>1. lock \in Nat /\ lock <= 2 * WriterBit - 1
  BY DEF TypeOK, Word
<1>2. Readers(lock) \in Nat /\ Readers(lock) < WriterBit
  BY <1>1 DEF Readers
<1>3. Readers(lock) \in Word
  BY <1>2 DEF Word
<1> QED
  BY <1>1, <1>2, <1>3

\* A CAS that succeeds finds the writer's bit clear.
LEMMA ExpectedWord ==
  ASSUME TypeOK, WordInv, NEW t \in Thread,
         pc[t] \in {"read cas", "write cas"}, lock = old_value[t]
  PROVE  BitOwners = {} /\ lock = Cardinality(Reading)
<1>1. lock < WriterBit
  BY DEF WordInv
<1>2. BitOwners # {} => lock = Cardinality(Reading) + WriterBit
  BY DEF WordInv
<1>3. ~(lock = Cardinality(Reading) + WriterBit)
  BY ONLY <1>1, ReaderCount, LockAssumption
<1> QED
  BY <1>2, <1>3 DEF WordInv

LEMMA InvInit == Init => TypeOK /\ WordInv
<1> SUFFICES ASSUME Init PROVE TypeOK /\ WordInv
  OBVIOUS
<1>1. Reading = {} /\ BitOwners = {} /\ Writing = {}
  BY DEF Init, Reading, BitOwners, Writing
<1>2. WriterBit > 0
  BY ReaderCount
<1> QED
  BY <1>1, <1>2, FS_EmptySet DEF Init, TypeOK, WordInv, Word, Label

\* A step that moves no thread into or out of a locked region, and leaves the
\* word alone, keeps the invariant.
LEMMA QuietStep ==
  ASSUME WordInv, UNCHANGED lock,
         Reading' = Reading, Writing' = Writing, BitOwners' = BitOwners,
         \A t \in Thread : pc'[t] \in {"read cas", "write cas"} =>
                              old_value'[t] < WriterBit
  PROVE  WordInv'
BY DEF WordInv

LEMMA InvStep == TypeOK /\ WordInv /\ [Next]_vars => (TypeOK /\ WordInv)'
<1> SUFFICES ASSUME TypeOK, WordInv, [Next]_vars
             PROVE  TypeOK' /\ WordInv'
  OBVIOUS
<1> USE ReaderCount DEF Goto
<1>w. /\ BitOwners = {} => lock = Cardinality(Reading)
      /\ BitOwners # {} => lock = Cardinality(Reading) + WriterBit
  BY DEF WordInv
<1>1. ASSUME NEW t \in Thread,
             \/ Call(t) \/ ReadLoad(t) \/ WriteLoad(t) \/ ReadGiveUp(t)
             \/ lock # old_value[t] /\ (ReadCAS(t) \/ WriteCAS(t))
             \/ lock # 0 /\ TryWriteAcquire(t)
      PROVE  TypeOK' /\ WordInv'
  <2> USE <1>1 DEF Call, ReadLoad, WriteLoad, ReadGiveUp, ReadCAS, WriteCAS,
                   TryWriteAcquire
  <2>1. TypeOK'
    BY MaskedWord DEF TypeOK, Label
  <2>2. Reading' = Reading
    BY DEF TypeOK, Reading
  <2>3. Writing' = Writing
    BY DEF TypeOK, Writing
  <2>4. BitOwners' = BitOwners
    BY DEF TypeOK, BitOwners
  <2>5. \A u \in Thread : pc'[u] \in {"read cas", "write cas"} =>
                             old_value'[u] < WriterBit
    BY MaskedWord DEF TypeOK, WordInv
  <2>6. UNCHANGED lock
    OBVIOUS
  <2> QED
    BY ONLY <2>1, <2>2, <2>3, <2>4, <2>5, <2>6, WordInv, QuietStep
<1>2. ASSUME NEW t \in Thread, ReadCAS(t), lock = old_value[t]
      PROVE  TypeOK' /\ WordInv'
  <2>1. t \notin Reading /\ Reading' = Reading \cup {t}
    BY <1>2 DEF ReadCAS, TypeOK, Reading
  <2>2. BitOwners = {}
    BY <1>2, ExpectedWord DEF ReadCAS
  <2>3. BitOwners' = {} /\ Writing' = {}
    BY <1>2, <2>2 DEF ReadCAS, TypeOK, BitOwners, Writing
  <2>4. lock' = lock + 1 /\ lock' < WriterBit /\ lock' = Cardinality(Reading')
    BY <1>2, <1>w, <2>1, <2>2, RoomForReader DEF ReadCAS
  <2>5. TypeOK'
    <3>1. lock' \in Word
      BY <1>w, <2>2, <2>4 DEF Word
    <3> QED
      BY <1>2, <3>1 DEF ReadCAS, TypeOK, Label
  <2>6. \A u \in Thread : pc'[u] \in {"read cas", "write cas"} =>
                             old_value'[u] < WriterBit
    BY <1>2 DEF ReadCAS, TypeOK, WordInv
  <2> QED
    BY <2>3, <2>4, <2>5, <2>6 DEF WordInv
<1>3. ASSUME NEW t \in Thread, ReadRelease(t)
      PROVE  TypeOK' /\ WordInv'
  <2>1. t \in Reading /\ Reading' = Reading \ {t}
    BY <1>3 DEF ReadRelease, TypeOK, Reading
  <2>2. Writing' = {} /\ BitOwners' = BitOwners
    BY <1>3, <2>1 DEF ReadRelease, TypeOK, BitOwners, Writing, WordInv
  <2>3. Cardinality(Reading') = Cardinality(Reading) - 1
    BY <2>1, FS_RemoveElement
  <2>4. Cardinality(Reading') \in Nat
    BY <2>1, FS_RemoveElement, FS_CardinalityType
  <2>5. /\ BitOwners' = {} => lock' = Cardinality(Reading')
        /\ BitOwners' # {} => lock' = Cardinality(Reading') + WriterBit
    BY <1>3, <1>w, <2>2, <2>3 DEF ReadRelease
  <2>6. TypeOK'
    <3>1. lock' \in Word
      BY <2>3, <2>4, <2>5 DEF Word
    <3> QED
      BY <1>3, <3>1 DEF ReadRelease, TypeOK, Label
  <2>7. \A u \in Thread : pc'[u] \in {"read cas", "write cas"} =>
                             old_value'[u] < WriterBit
    BY <1>3 DEF ReadRelease, TypeOK, WordInv
  <2> QED
    BY <2>2, <2>5, <2>6, <2>7 DEF WordInv
<1>4. ASSUME NEW t \in Thread, TryWriteAcquire(t), lock = 0
      PROVE  TypeOK' /\ WordInv'
  <2>1. Reading = {} /\ BitOwners = {}
    <3>1. BitOwners = {}
      BY <1>4, <1>w
    <3> QED
      BY <1>4, <1>w, <3>1
  <2>2. Reading' = {} /\ BitOwners' = {t}
    BY <1>4, <2>1 DEF TryWriteAcquire, TypeOK, Reading, BitOwners
  <2>3. lock' = WriterBit /\ Cardinality(Reading') = 0
    BY <1>4, <2>2, FS_EmptySet DEF TryWriteAcquire
  <2>4. TypeOK'
    <3>1. lock' \in Word
      BY <2>3 DEF Word
    <3> QED
      BY <1>4, <3>1 DEF TryWriteAcquire, TypeOK, Label
  <2>5. \A u \in Thread : pc'[u] \in {"read cas", "write cas"} =>
                             old_value'[u] < WriterBit
    BY <1>4 DEF TryWriteAcquire, TypeOK, WordInv
  <2>6. BitOwners' # {} /\ lock' = Cardinality(Reading') + WriterBit
    BY <2>2, <2>3
  <2> QED
    BY <2>2, <2>4, <2>5, <2>6 DEF WordInv
<1>5. ASSUME NEW t \in Thread, WriteCAS(t), lock = old_value[t]
      PROVE  TypeOK' /\ WordInv'
  <2>1. BitOwners = {} /\ Writing = {}
    BY <1>5, ExpectedWord DEF WriteCAS, BitOwners, Writing
  <2>2. BitOwners' = {t} /\ Writing' = {}
    BY <1>5, <2>1 DEF WriteCAS, TypeOK, Writing, BitOwners
  <2>3. Reading' = Reading
    BY <1>5 DEF WriteCAS, TypeOK, Reading
  <2>4. lock' = Cardinality(Reading') + WriterBit
    BY <1>5, <1>w, <2>1, <2>3 DEF WriteCAS
  <2>5. TypeOK'
    <3>1. lock' \in Word
      BY <2>3, <2>4 DEF Word
    <3> QED
      BY <1>5, <3>1 DEF WriteCAS, TypeOK, Label
  <2>6. \A u \in Thread : pc'[u] \in {"read cas", "write cas"} =>
                             old_value'[u] < WriterBit
    BY <1>5 DEF WriteCAS, TypeOK, WordInv
  <2> QED
    BY <2>2, <2>4, <2>5, <2>6 DEF WordInv
<1>6. ASSUME NEW t \in Thread, Drain(t)
      PROVE  TypeOK' /\ WordInv'
  <2>1. t \in BitOwners /\ BitOwners' = BitOwners
    BY <1>6 DEF Drain, TypeOK, BitOwners
  <2>2. Reading = {}
    BY <1>6, <1>w, <2>1 DEF Drain, Readers
  <2>3. Reading' = Reading
    BY <1>6 DEF Drain, TypeOK, Reading
  <2>4. TypeOK'
    BY <1>6 DEF Drain, TypeOK, Label
  <2>5. \A u \in Thread : pc'[u] \in {"read cas", "write cas"} =>
                             old_value'[u] < WriterBit
    BY <1>6 DEF Drain, TypeOK, WordInv
  <2> QED
    BY <1>6, <2>1, <2>2, <2>3, <2>4, <2>5 DEF WordInv, Drain
<1>7. ASSUME NEW t \in Thread, WriteRelease(t)
      PROVE  TypeOK' /\ WordInv'
  <2>1. BitOwners = {t} /\ Reading = {}
    BY <1>7 DEF WriteRelease, WordInv, BitOwners, Writing
  <2>2. BitOwners' = {} /\ Writing' = {} /\ Reading' = {}
    BY <1>7, <2>1 DEF WriteRelease, TypeOK, BitOwners, Writing, Reading
  <2>3. lock' = 0 /\ Cardinality(Reading') = 0
    BY <1>7, <2>2, FS_EmptySet DEF WriteRelease
  <2>4. TypeOK'
    <3>1. lock' \in Word
      BY <2>3 DEF Word
    <3> QED
      BY <1>7, <3>1 DEF WriteRelease, TypeOK, Label
  <2>5. \A u \in Thread : pc'[u] \in {"read cas", "write cas"} =>
                             old_value'[u] < WriterBit
    BY <1>7 DEF WriteRelease, TypeOK, WordInv
  <2> QED
    BY <2>2, <2>3, <2>4, <2>5 DEF WordInv
<1>8. CASE UNCHANGED vars
  BY <1>8 DEF vars, TypeOK, WordInv, Reading, Writing, BitOwners
<1> QED
  BY <1>1, <1>2, <1>3, <1>4, <1>5, <1>6, <1>7, <1>8 DEF Next, Proceed

\* In every reachable state the lock word is the number of readers inside plus
\* the writer's bit, and a writer inside is alone.
THEOREM WordInvHolds == Spec => [](TypeOK /\ WordInv)
<1>1. (TypeOK /\ WordInv) /\ [Next]_vars => (TypeOK /\ WordInv)'
  BY InvStep
<1> QED
  BY <1>1, InvInit, PTL DEF Spec

\* What a step can do to the locked regions, in terms of who is inside.
LEMMA RegionStep ==
  ASSUME TypeOK, WordInv, Next
  PROVE  \/ Reading' = Reading /\ Writing' = Writing
         \/ \E t \in Thread :
              \/ /\ BitOwners = {} /\ Writing = {}
                 /\ Reading' = Reading \cup {t} /\ Writing' = Writing
              \/ /\ t \in Reading
                 /\ Reading' = Reading \ {t} /\ Writing' = Writing
              \/ /\ Reading = {} /\ Writing = {}
                 /\ Writing' = {t} /\ Reading' = Reading
              \/ /\ t \in Writing
                 /\ Writing' = Writing \ {t} /\ Reading' = Reading
<1>1. PICK t \in Thread : Call(t) \/ ReadGiveUp(t) \/ Proceed(t)
  BY DEF Next
<1> USE DEF Goto
<1>2. CASE \/ Call(t) \/ ReadLoad(t) \/ WriteLoad(t) \/ ReadGiveUp(t) \/ WriteCAS(t)
           \/ lock # old_value[t] /\ ReadCAS(t)
           \/ lock # 0 /\ TryWriteAcquire(t)
  <2>1. Reading' = Reading
    BY <1>2 DEF Call, ReadLoad, WriteLoad, ReadGiveUp, WriteCAS, ReadCAS,
                TryWriteAcquire, TypeOK, Reading
  <2>2. Writing' = Writing
    BY <1>2 DEF Call, ReadLoad, WriteLoad, ReadGiveUp, WriteCAS, ReadCAS,
                TryWriteAcquire, TypeOK, Writing
  <2> QED
    BY <2>1, <2>2
<1>3. CASE lock = old_value[t] /\ ReadCAS(t)
  <2>1. BitOwners = {}
    BY <1>3, ExpectedWord DEF ReadCAS
  <2>2. Writing = {}
    BY <2>1 DEF BitOwners, Writing
  <2>3. Reading' = Reading \cup {t} /\ Writing' = Writing
    BY <1>3 DEF ReadCAS, TypeOK, Reading, Writing
  <2> QED
    BY <2>1, <2>2, <2>3
<1>4. CASE ReadRelease(t)
  <2>1. t \in Reading /\ Reading' = Reading \ {t} /\ Writing' = Writing
    BY <1>4 DEF ReadRelease, TypeOK, Reading, Writing
  <2> QED
    BY <2>1
<1>5. CASE lock = 0 /\ TryWriteAcquire(t)
  <2>0. ~(lock = Cardinality(Reading) + WriterBit)
    BY ONLY <1>5, ReaderCount, LockAssumption
  <2>1. BitOwners = {} /\ Cardinality(Reading) = 0
    BY <1>5, <2>0 DEF WordInv
  <2>2. Reading = {} /\ Writing = {}
    BY <2>1, ReaderCount DEF BitOwners, Writing
  <2>3. Writing' = {t} /\ Reading' = Reading
    BY <1>5, <2>2 DEF TryWriteAcquire, TypeOK, Reading, Writing
  <2> QED
    BY <2>2, <2>3
<1>6. CASE Drain(t)
  <2>1. t \in BitOwners /\ t \notin Writing
    BY <1>6 DEF Drain, BitOwners, Writing
  <2>2. Writing = {}
    BY <2>1 DEF WordInv, BitOwners, Writing
  <2>3. lock = Cardinality(Reading) + WriterBit
    BY <2>1 DEF WordInv
  <2>4. Readers(lock) = Cardinality(Reading)
    BY <2>3, ReaderCount DEF Readers
  <2>5. Reading = {}
    BY <1>6, <2>4, ReaderCount DEF Drain
  <2>6. Writing' = {t} /\ Reading' = Reading
    BY <1>6, <2>2 DEF Drain, TypeOK, Reading, Writing
  <2> QED
    BY <2>2, <2>5, <2>6
<1>7. CASE WriteRelease(t)
  <2>1. t \in Writing /\ Writing' = Writing \ {t} /\ Reading' = Reading
    BY <1>7 DEF WriteRelease, TypeOK, Reading, Writing
  <2> QED
    BY <2>1
<1> QED
  BY <1>1, <1>2, <1>3, <1>4, <1>5, <1>6, <1>7 DEF Proceed

LEMMA AbstractInit == Init => Abstract!Init
BY DEF Init, Abstract!Init, Reading, Writing

LEMMA AbstractStep ==
  TypeOK /\ WordInv /\ [Next]_vars => [Abstract!Next]_(Abstract!vars)
<1>1. ASSUME TypeOK, WordInv, Next PROVE Abstract!Next \/ UNCHANGED Abstract!vars
  BY <1>1, RegionStep DEF Abstract!Next, Abstract!BeginRead, Abstract!EndRead,
     Abstract!BeginWrite, Abstract!EndWrite, Abstract!vars
<1>2. ASSUME UNCHANGED vars PROVE UNCHANGED Abstract!vars
  BY <1>2 DEF vars, Abstract!vars, Reading, Writing
<1> QED
  BY <1>1, <1>2

\* The lock word implements a reader/writer lock: readers share, and a writer
\* excludes readers and writers.
THEOREM LockImplementsSharedMutex == Spec => ImplementsSharedMutex
<1>1. Spec => Abstract!Spec
  BY WordInvHolds, AbstractInit, AbstractStep, PTL DEF Spec, Abstract!Spec
<1> QED
  BY <1>1 DEF ImplementsSharedMutex

\* TryReadAcquire lets no reader in between a writer's CAS and its release.
THEOREM NoReaderOvertakesWriterHolds == Spec => NoReaderOvertakesWriter
<1>1. TypeOK /\ WordInv /\ [Next]_vars =>
        [BitOwners # {} => Reading' \subseteq Reading]_vars
  BY RegionStep DEF vars
<1> QED
  BY <1>1, WordInvHolds, PTL DEF Spec, NoReaderOvertakesWriter
=============================================================================
