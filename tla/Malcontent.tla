----------------------------- MODULE Malcontent -----------------------------
(***************************************************************************)
(* The malcontent client (clients/malcontent/client.cc) reports lines of   *)
(* memory that threads contend for.  Wrapped allocators remember recent    *)
(* objects; a monitor thread chooses sample points among them from time to *)
(* time and marks the shadow of their lines; instrumented code that comes  *)
(* upon a mark takes the line over, or records that it has taken it from   *)
(* another thread.  Shadow words are read and written without a lock, one  *)
(* instruction at a time.                                                  *)
(***************************************************************************)
EXTENDS Integers, Sequences, FiniteSets

CONSTANTS
  Thread,
  Line,           \* Lines of memory, numbers: an object is a run of them.
  LinesOf,        \* The lines that an object of each type has.
  Kind,           \* "read", "write", "atomic": what an access is.
  NumSamples,     \* --num_sample_points: ids are below it.
  MaxAllocations, \* Most allocations: a bound of the model.
  MaxRounds,      \* Most rounds of the monitor: a bound of the model.
  Nobody

VARIABLES
  gNextAllocationIndex, gRecentAllocations,
  tracker,        \* The shadow of each line: thread_base and sample_id.
  gSamplePoints,
  gPauseTime,     \* Whether it is not 0: --sample_pause_time, fixed by Init.
  readers,        \* gSamplePointsLock: who has locked it for reading.
  monitor,        \* What the monitor does: step, next allocation and line, samples.
  job,            \* What a thread does.
  allocated,      \* How many allocations were made.
  round,          \* How often the monitor has cleared the sample points.
  touched         \* The threads that have accessed each line.

samplerVars == <<gNextAllocationIndex, gRecentAllocations, tracker, gSamplePoints, gPauseTime,
                 readers, monitor, job, allocated, round, touched>>

Type == DOMAIN LinesOf
Ids == 1..(NumSamples - 1)
NoAccess == [line |-> 0, kind |-> "read", thread |-> Nobody, base |-> 0]
NoSample == [type |-> 0, line |-> 0, accesses |-> <<NoAccess, NoAccess>>]
Idle == [pc |-> "idle", line |-> 0, kind |-> "read", base |-> 0, id |-> 0]

\* 48 bits of a word are a thread's base, 16 an id: a word that is a small number
\* has that number for a base.
Word(base, id) == [base |-> base, id |-> id]

Init ==
  /\ gNextAllocationIndex = 0
  /\ gRecentAllocations = [i \in 0..(NumSamples - 1) |-> [line |-> 0, type |-> 0]]
  /\ tracker = [l \in Line |-> Word(0, 0)]
  /\ gSamplePoints = [k \in 0..NumSamples |-> NoSample]
  /\ gPauseTime \in BOOLEAN
  /\ readers = {}
  /\ monitor = [pc |-> "sleep", slot |-> 0, left |-> << >>, samples |-> 1]
  /\ job = [t \in Thread |-> Idle]
  /\ allocated = 0 /\ round = 0
  /\ touched = [l \in Line |-> {}]

pool == <<gNextAllocationIndex, gRecentAllocations, gPauseTime, allocated>>
Goto(t, pc) == job' = [job EXCEPT ![t].pc = pc]
-----------------------------------------------------------------------------
(* AddRecentAllocation, at the end of a wrapper: fetch_add, then the store. *)

FetchIndex(t, line, type) ==
  /\ job[t].pc = "idle" /\ allocated < MaxAllocations
  /\ line + LinesOf[type] - 1 \in Line
  /\ allocated' = allocated + 1
  /\ gNextAllocationIndex' = gNextAllocationIndex + 1
  /\ job' = [job EXCEPT ![t] = [Idle EXCEPT !.pc = "store", !.line = line, !.id = type,
                                  !.base = gNextAllocationIndex % NumSamples]]
  /\ UNCHANGED <<gRecentAllocations, tracker, gSamplePoints, gPauseTime, readers, monitor, round, touched>>
StoreAllocation(t) ==
  /\ job[t].pc = "store"
  /\ gRecentAllocations' = [gRecentAllocations EXCEPT ![job[t].base] =
                              [line |-> job[t].line, type |-> job[t].id]]
  /\ job' = [job EXCEPT ![t] = Idle]
  /\ UNCHANGED <<gNextAllocationIndex, allocated, tracker, gSamplePoints, gPauseTime, readers,
                 monitor, round, touched>>
-----------------------------------------------------------------------------
(* InstrumentMemOp: the code in front of an access.                        *)

Accessed(t, line) == touched' = [touched EXCEPT ![line] = @ \cup {t}]

\* The id is compared with 0.
CheckSample(t, line, kind) ==
  /\ job[t].pc = "idle"
  /\ Accessed(t, line)
  /\ job' = [job EXCEPT ![t] = IF tracker[line].id = 0 THEN Idle
                               ELSE [Idle EXCEPT !.pc = "owner", !.line = line, !.kind = kind]]
  /\ UNCHANGED <<pool, tracker, gSamplePoints, readers, monitor, round>>

\* Mutant: every thread takes the line.
CheckNobody(t) ==
  /\ job[t].pc = "owner"
  /\ Goto(t, "exchange")
  /\ UNCHANGED <<pool, tracker, gSamplePoints, readers, monitor, round, touched>>

\* The base is compared with this thread's: its low 32 bits in the code, which are
\* taken to be different for different threads.
CheckOwner(t) ==
  /\ job[t].pc = "owner"
  /\ job' = [job EXCEPT ![t] = IF tracker[job[t].line].base = t THEN Idle ELSE [@ EXCEPT !.pc = "exchange"]]
  /\ UNCHANGED <<pool, tracker, gSamplePoints, readers, monitor, round, touched>>

\* XCHG, with this thread's base and no id.
Exchange(t) ==
  /\ job[t].pc = "exchange"
  /\ tracker' = [tracker EXCEPT ![job[t].line] = Word(t, 0)]
  /\ job' = [job EXCEPT ![t].pc = "contention", ![t].base = tracker[job[t].line].base,
                        ![t].id = tracker[job[t].line].id]
  /\ UNCHANGED <<pool, gSamplePoints, readers, monitor, round, touched>>

\* InstrumentContention, with the old word.
LockSamplePoints(t) ==
  /\ job[t].pc = "contention"
  /\ IF job[t].id = 0
     THEN job' = [job EXCEPT ![t] = Idle] /\ UNCHANGED readers
     ELSE monitor.pc # "log" /\ readers' = readers \cup {t} /\ Goto(t, "sample")
  /\ UNCHANGED <<pool, tracker, gSamplePoints, monitor, round, touched>>

Release(t) == readers' = readers \ {t} /\ job' = [job EXCEPT ![t] = Idle]
Trace(t) == IF job[t].base = 0 THEN 1 ELSE 2

\* A sample point that is being filled may have a type and no tracker yet: the
\* thread faults.
MarkLine(t) ==
  LET sample == gSamplePoints[job[t].id] IN
  /\ job[t].pc = "sample"
  /\ \/ sample.type = 0 /\ Release(t) /\ UNCHANGED tracker
     \/ sample.type # 0 /\ sample.line = 0 /\ Goto(t, "fault") /\ UNCHANGED <<tracker, readers>>
     \/ /\ sample.type # 0 /\ sample.line # 0
        /\ tracker' = IF Trace(t) = 1 THEN [tracker EXCEPT ![sample.line].id = job[t].id]
                      ELSE [tracker EXCEPT ![sample.line] = Word(0, 0)]
        /\ Goto(t, IF Trace(t) = 1 /\ gPauseTime THEN "pause" ELSE "record")
        /\ UNCHANGED readers
  /\ UNCHANGED <<pool, gSamplePoints, monitor, round, touched>>

\* After the pause an access counts only if another thread has come.
Pause(t) ==
  /\ job[t].pc = "pause"
  /\ IF gSamplePoints[job[t].id].accesses[2].line = 0 THEN Release(t)
     ELSE Goto(t, "record") /\ UNCHANGED readers
  /\ UNCHANGED <<pool, tracker, gSamplePoints, monitor, round, touched>>

RecordAccess(t) ==
  /\ job[t].pc = "record"
  /\ gSamplePoints' = [gSamplePoints EXCEPT ![job[t].id].accesses[Trace(t)] =
                         [line |-> job[t].line, kind |-> job[t].kind, thread |-> t,
                          base |-> job[t].base]]
  /\ Release(t)
  /\ UNCHANGED <<pool, tracker, monitor, round, touched>>
-----------------------------------------------------------------------------
(* The monitor thread.                                                     *)

MonitorAt(pc) == monitor' = [monitor EXCEPT !.pc = pc]
monitorOnly == <<pool, readers, job, round, touched>>

\* TryWriteAcquire, when it succeeds.
WriteAcquire ==
  /\ monitor.pc = "sleep" /\ readers = {}
  /\ MonitorAt("log")
  /\ UNCHANGED <<monitorOnly, tracker, gSamplePoints>>

\* LogSamplePoints and ClearActiveSamplePoints, and WriteRelease.
LogAndClear ==
  /\ monitor.pc = "log" /\ round < MaxRounds
  /\ gSamplePoints' = [k \in DOMAIN gSamplePoints |-> NoSample]
  /\ round' = round + 1
  /\ monitor' = [pc |-> "choose", slot |-> 0, left |-> << >>, samples |-> 1]
  /\ UNCHANGED <<pool, readers, job, touched, tracker>>

\* ActivateSamplePoints, without a lock: the next allocation.
LinesFrom(alloc) ==
  IF alloc.line = 0 THEN << >>
  ELSE [i \in 1..LinesOf[alloc.type] |-> [line |-> alloc.line + i - 1, type |-> alloc.type]]
ChooseAllocation ==
  /\ monitor.pc = "choose" /\ monitor.left = << >>
  /\ monitor' = IF monitor.slot < NumSamples /\ monitor.samples <= NumSamples
                THEN [monitor EXCEPT !.slot = @ + 1, !.left = LinesFrom(gRecentAllocations[monitor.slot])]
                ELSE [monitor EXCEPT !.pc = "test", !.slot = 1]
  /\ UNCHANGED <<monitorOnly, tracker, gSamplePoints>>

\* AddSamplesForAlloc, for one line, in two steps: the type; the other fields,
\* and the id in the word of the line.
AddSampleType ==
  /\ monitor.pc = "choose" /\ monitor.left # << >>
  /\ IF monitor.samples < NumSamples
     THEN /\ gSamplePoints' = [gSamplePoints EXCEPT ![monitor.samples].type = Head(monitor.left).type]
          /\ MonitorAt("fill")
     ELSE monitor' = [monitor EXCEPT !.left = << >>] /\ UNCHANGED gSamplePoints
  /\ UNCHANGED <<monitorOnly, tracker>>
FillSample ==
  /\ monitor.pc = "fill"
  /\ gSamplePoints' = [gSamplePoints EXCEPT ![monitor.samples].line = Head(monitor.left).line]
  /\ tracker' = [tracker EXCEPT ![Head(monitor.left).line] = Word(monitor.samples, 0)]
  /\ monitor' = [monitor EXCEPT !.pc = "choose", !.samples = @ + 1, !.left = Tail(@)]
  /\ UNCHANGED monitorOnly

\* Activation: the last sample of a line wins.
NextSample == [monitor EXCEPT !.pc = "test", !.slot = @ + 1]
TestSample ==
  /\ monitor.pc = "test"
  /\ monitor' = IF monitor.slot >= monitor.samples
                THEN [pc |-> "sleep", slot |-> 0, left |-> << >>, samples |-> 1]
                ELSE IF tracker[gSamplePoints[monitor.slot].line] = Word(monitor.slot, 0)
                     THEN [monitor EXCEPT !.pc = "reset"] ELSE NextSample
  /\ UNCHANGED <<monitorOnly, tracker, gSamplePoints>>
ResetTracker ==
  /\ monitor.pc = "reset"
  /\ tracker' = [tracker EXCEPT ![gSamplePoints[monitor.slot].line] = Word(0, 0)]
  /\ MonitorAt("arm")
  /\ UNCHANGED <<monitorOnly, gSamplePoints>>
ArmTracker ==
  /\ monitor.pc = "arm"
  /\ tracker' = [tracker EXCEPT ![gSamplePoints[monitor.slot].line].id = monitor.slot]
  /\ monitor' = NextSample
  /\ UNCHANGED <<monitorOnly, gSamplePoints>>

Next ==
  \/ \E t \in Thread :
       \/ \E l \in Line : \/ \E type \in Type : FetchIndex(t, l, type)
                          \/ \E kind \in Kind : CheckSample(t, l, kind)
       \/ StoreAllocation(t) \/ CheckOwner(t) \/ Exchange(t) \/ LockSamplePoints(t)
       \/ MarkLine(t) \/ Pause(t) \/ RecordAccess(t)
  \/ WriteAcquire \/ LogAndClear \/ ChooseAllocation \/ AddSampleType \/ FillSample
  \/ TestSample \/ ResetTracker \/ ArmTracker

Spec == Init /\ [][Next]_samplerVars
-----------------------------------------------------------------------------
(* Properties.                                                             *)

\* What LogSamplePoints reports: two accesses to one line, not both reads and not
\* both atomic.
Reported(k) ==
  LET a == gSamplePoints[k].accesses IN
  /\ gSamplePoints[k].line # 0 /\ a[1].line # 0 /\ a[2].line # 0
  /\ ~(a[1].kind = "read" /\ a[2].kind = "read")
  /\ ~(a[1].kind = "atomic" /\ a[2].kind = "atomic")
  /\ a[1].line = a[2].line

\* A line is reported as taken from another thread only if two threads have accessed
\* it, however their reads and exchanges of its word fall between each other's and the
\* monitor's.  (A report whose second access found a base that is no thread's says
\* nothing: the monitor stores ids in the words, and a thread of an earlier round may
\* arm such a word before the monitor has reset it.)
ContentionShared ==
  monitor.pc = "log" =>
    \A k \in Ids : Reported(k) /\ gSamplePoints[k].accesses[2].base \in Thread =>
      \E u, v \in touched[gSamplePoints[k].accesses[1].line] : u # v
=============================================================================
