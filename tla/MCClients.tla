----------------------------- MODULE MCClients -----------------------------
(***************************************************************************)
(* Runs the clients that keep state of their own, one of them at a time:   *)
(* types of heap objects, shadow memory, function wrappers, samples of     *)
(* contention, and hooks on system calls.                                  *)
(***************************************************************************)
EXTENDS Integers, Sequences, FiniteSets, TLC

CONSTANTS
  Thread,
  Block, FirstBlock,    \* Two blocks, so that one can be translated before there are hooks.
  Hook,
  Line, LinesOf, Kind, NumSamples, MaxAllocations, MaxRounds,
  Site, ListOf, NumBytes, NumTaints, HalfAddrs, Taken, MaxObjects, s3,
  Struct, MaxStructs, gShiftAmount, OffsetBits, Address, MaxMaps,
  Wrapper, Function, Called, w4, w5,
  MaxSessions,          \* How often Granary attaches.
  None

VARIABLES
  part,
  gTypes, gNextTypeId, types, writer, type_ids, type_job, objects, next_addr, accessed,
  sessions, phase, gDescriptions, gUnalignedSize, gAlignedSize, gScaleAmount, gPrevOffset,
  gShadowMemSize, gShadowMem, gShadowMemLock, maps, shadow_job, code,
  session, registering, order, wrappers, wrapper_id, site,
  gNextAllocationIndex, gRecentAllocations, tracker, gSamplePoints, gPauseTime, readers,
  monitor, job, allocated, round, touched,
  link, next_ptr, list_lock, added, exit_hooked, hook_job

typeVars == <<gTypes, gNextTypeId, types, writer, type_ids, type_job, objects, next_addr, accessed>>
shadowVars == <<sessions, phase, gDescriptions, gUnalignedSize, gAlignedSize, gScaleAmount,
                gPrevOffset, gShadowMemSize, gShadowMem, gShadowMemLock, maps, shadow_job, code>>
wrapVars == <<session, registering, order, wrappers, wrapper_id, site>>
sampleVars == <<gNextAllocationIndex, gRecentAllocations, tracker, gSamplePoints, gPauseTime,
                readers, monitor, job, allocated, round, touched>>
hookVars == <<link, next_ptr, list_lock, added, exit_hooked, hook_job>>

\* Two of three sites hash to one list, and the ids run out: one is taken, and
\* there are three besides the last.
TwoLists == [s \in Site |-> IF s = s3 THEN 2 ELSE 1]
Types == INSTANCE PolyCode WITH job <- type_job, NoType <- None

\* Sites are addresses, which the numbers of the types that were there before are not;
\* objects are at addresses of user space.
ASSUME TypesAssumption ==
  /\ \A s \in Site : s \notin Nat
  /\ NumTaints \in Nat \ {0} /\ HalfAddrs \in Nat \ {0}
  /\ Taken \in 0..(NumTaints - 1) /\ MaxObjects \in 0..(HalfAddrs - 1)
  /\ None \notin Nat \cup Thread
  /\ None \notin [ret_address : Site \cup 0..NumTaints, size_order : {0} \cup {Types!SizeOrder(n) : n \in NumBytes}]
  /\ FirstBlock \in Block

\* Structures with and without gaps between them; addresses at the ends of lines
\* and beyond the offsets that shadow memory tells apart.
Shape(n) == [size |-> n, align |-> n]
Shapes == {Shape(1), Shape(2), Shape(4)}
Shadow == INSTANCE ShadowMemory WITH job <- shadow_job, NoThread <- None

\* Sizes and alignments are those of C++ types, and small enough for the step from one
\* structure to the next to be an 8-bit immediate.
ASSUME ShadowAssumption ==
  /\ gShiftAmount \in Nat /\ OffsetBits \in Nat /\ Address \subseteq Nat
  /\ \A s \in Struct : /\ s.size \in Nat \ {0} /\ s.align \in Nat \ {0} /\ s.size % s.align = 0
                       /\ s.size <= 64 /\ s.align <= 64
                       /\ \E k \in 0..s.align : s.align = Shadow!Shl(k)

\* Three wrappers of one function, one of a function before it, and one at the
\* same offset of another module.
In(m, o) == [module |-> m, offset |-> o]
ThreeFunctions == [w \in Wrapper |-> CASE w = w4 -> In("libc", 1) [] w = w5 -> In("libcxx", 2)
                                       [] OTHER -> In("libc", 2)]
FourFunctions == {In("libc", 1), In("libc", 2), In("libcxx", 1), In("libcxx", 2)}
Wrap == INSTANCE FunctionWrappers WITH NoWrapper <- None

\* A function is known by its module and offset.
ASSUME WrapAssumption ==
  /\ IsFiniteSet(Wrapper) /\ None \notin Wrapper
  /\ \A w \in Wrapper : /\ Function[w] = In(Function[w].module, Function[w].offset)
                         /\ Function[w].offset \in Nat

\* Objects of one line; two of them, for one sample.
OneLine == <<1>>
Samples == INSTANCE Malcontent WITH Nobody <- None

\* A line is not 0, and the base of a thread, an address, is not the id of a sample.
ASSUME SampleAssumption ==
  /\ Line \subseteq Nat \ {0} /\ NumSamples \in Nat \ {0}
  /\ LinesOf \in Seq(Nat)
  /\ \A t \in Thread : t \notin Nat

Hooks == INSTANCE SystemCallHooks WITH NoHook <- None, NoThread <- None

ASSUME HookAssumption == None \notin Hook \cup Thread \cup {Hooks!First} /\ Hooks!First \notin Hook

\* A part starts with one state of the others.
ClientsInit ==
  /\ part \in {"types", "shadow", "wrappers", "contention", "hooks"}
  /\ Types!Init /\ Shadow!Init
  /\ Wrap!Init /\ (part # "wrappers" => order = << >>)
  /\ Samples!Init /\ (part # "contention" => gPauseTime = FALSE)
  /\ Hooks!Init

ClientsNext ==
  \/ part = "types" /\ Types!Next /\ UNCHANGED <<part, shadowVars, wrapVars, sampleVars, hookVars>>
  \/ part = "shadow" /\ Shadow!Next /\ UNCHANGED <<part, typeVars, wrapVars, sampleVars, hookVars>>
  \/ part = "wrappers" /\ Wrap!Next /\ UNCHANGED <<part, typeVars, shadowVars, sampleVars, hookVars>>
  \/ part = "contention" /\ Samples!Next /\ UNCHANGED <<part, typeVars, shadowVars, wrapVars, hookVars>>
  \/ part = "hooks" /\ Hooks!Next /\ UNCHANGED <<part, typeVars, shadowVars, wrapVars, sampleVars>>

ClientsSpec ==
  ClientsInit /\ [][ClientsNext]_<<part, typeVars, shadowVars, wrapVars, sampleVars, hookVars>>

ThreadSymmetry == Permutations(Thread)
-----------------------------------------------------------------------------
\* A block's ids are those of the types it has accessed (poly_code/client.cc,
\* watchpoints/type_id.cc).
TypesRecorded == Types!TypesRecorded

\* All code finds one structure for an address, apart from all others
\* (shadow_memory/client.cc).
ShadowShared == Shadow!ShadowShared

\* A function's wrappers are found by number, in the order of their addition
\* (wrap_func/client.cc).
WrappersFound == Wrap!WrappersFound

\* A line is reported as contended only if two threads have accessed it
\* (malcontent/client.cc).
ContentionShared == Samples!ContentionShared

\* Hooks that have been added are called once around each system call
\* (util/closure.h, user/client.cc).
HooksCalled == Hooks!HooksCalled

=============================================================================
