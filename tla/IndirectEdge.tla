---------------------------- MODULE IndirectEdge ----------------------------
(***************************************************************************)
(* One indirect edge (granary/entry.cc, code/edge.h, arch/x86-64/edge.cc). *)
(* The in-edge code jumps through out_edge_pc into a chain of out-edges,   *)
(* each of which compares the branch's target with its own and goes to the *)
(* next one if they differ; the last one leads to the miss code, which     *)
(* enters Granary.  Granary prepends an out-edge for the new target while  *)
(* other threads are walking the chain.                                    *)
(***************************************************************************)
EXTENDS Naturals, FiniteSets

CONSTANTS
  Thread,
  AppPC,            \* Targets of the indirect branch.
  OutEdge,          \* Addresses where out-edges can be encoded.
  Miss,             \* The address of the miss code, go_to_granary.
  Null              \* nullptr.

VARIABLES
  out_edge_pc,      \* IndirectEdge::out_edge_pc.
  out_edges,        \* IndirectEdge::out_edges: a TinyMap from targets to code.
  lock,             \* The holder of IndirectEdge::lock.
  target, next,     \* What each out-edge compares with and where it goes else.
  encoded,          \* The out-edges that have been written to the code cache.
  reading, writing, \* gExitGranaryLock.
  want,             \* The target of the branch each thread executes,
  at,               \* the address it is at within the edge's code,
  new,              \* the out-edge it makes,
  entries,          \* how often it has entered Granary for this branch,
  pc                \* and what it does.

threadVars == <<want, at, new, entries, pc>>
edgeVars == <<out_edge_pc, out_edges, lock, target, next, encoded>>
lockVars == <<reading, writing>>
vars == <<threadVars, edgeVars, lockVars>>

ExitLock == INSTANCE SharedMutex

Goto(t, from, to) == /\ pc[t] = from
                     /\ pc' = [pc EXCEPT ![t] = to]
-----------------------------------------------------------------------------
\* The edge has been allocated; the block that ends in the branch is not
\* encoded yet.
Init == /\ out_edge_pc = Null
        /\ out_edges = [p \in AppPC |-> Null]
        /\ lock = Null
        /\ target = [o \in OutEdge |-> Null]
        /\ next = [o \in OutEdge |-> Null]
        /\ encoded = {}
        /\ ExitLock!Init
        /\ want = [t \in Thread |-> Null]
        /\ at = [t \in Thread |-> Null]
        /\ new = [t \in Thread |-> Null]
        /\ entries = [t \in Thread |-> 0]
        /\ pc = [t \in Thread |-> "code"]

\* The block is encoded, and UpdateEncodeAddresses stores the address of the
\* miss code and of the out-edge template.  From now on threads can run it.
UpdateEncodeAddresses ==
  /\ out_edge_pc = Null
  /\ out_edge_pc' = Miss
  /\ UNCHANGED <<threadVars, out_edges, lock, target, next, encoded, lockVars>>

\* The indirect branch: JMP or CALL [out_edge_pc].
Branch(t, p) ==
  /\ Goto(t, "code", "chain")
  /\ out_edge_pc # Null
  /\ want' = [want EXCEPT ![t] = p]
  /\ at' = [at EXCEPT ![t] = out_edge_pc]
  /\ entries' = [entries EXCEPT ![t] = 0]
  /\ UNCHANGED <<new, edgeVars, lockVars>>

\* compare_target: on to the block or along the chain.
Compare(t) ==
  /\ pc[t] = "chain"
  /\ at[t] \in OutEdge
  /\ IF target[at[t]] = want[t]
     THEN /\ pc' = [pc EXCEPT ![t] = "code"]
          /\ at' = [at EXCEPT ![t] = Null]
     ELSE /\ at' = [at EXCEPT ![t] = next[at[t]]]
          /\ UNCHANGED pc
  /\ UNCHANGED <<want, new, entries, edgeVars, lockVars>>
-----------------------------------------------------------------------------
\* granary_enter_indirect_edge, called by the miss code.

\* ReadLockedRegion exit_locker(&gExitGranaryLock).
ReadLockExit(t) ==
  /\ Goto(t, "chain", "lock")
  /\ at[t] = Miss
  /\ ExitLock!BeginRead(t)
  /\ entries' = [entries EXCEPT ![t] = @ + 1]
  /\ UNCHANGED <<want, at, new, edgeVars>>

\* LockedRegion edge_locker(&edge->lock), then out_edges[target_app_pc].
LockEdge(t) ==
  /\ pc[t] = "lock"
  /\ lock = Null
  /\ lock' = t
  /\ pc' = [pc EXCEPT ![t] = IF out_edges[want[t]] = Null THEN "copy" ELSE "unlock"]
  /\ UNCHANGED <<want, at, new, entries, out_edge_pc, out_edges, target, next,
                 encoded, lockVars>>

\* Copy the meta-data template, translate, and InstantiateIndirectEdge: the
\* out-edge falls back to what out_edge_pc is now.
InstantiateIndirectEdge(t, o) ==
  /\ Goto(t, "copy", "encode")
  /\ target[o] = Null
  /\ target' = [target EXCEPT ![o] = want[t]]
  /\ next' = [next EXCEPT ![o] = out_edge_pc]
  /\ new' = [new EXCEPT ![t] = o]
  /\ UNCHANGED <<want, at, entries, out_edge_pc, out_edges, lock, encoded, lockVars>>

\* Mutant: out_edge_pc is updated when the address is known.
EncodeAfterPublishing(t) ==
  /\ Goto(t, "encode", "publish")
  /\ out_edge_pc' = new[t]
  /\ UNCHANGED <<want, at, new, entries, out_edges, lock, target, next, encoded, lockVars>>

\* EncodeAndFree, Index: the code is complete when Translate returns.
Encode(t) ==
  /\ Goto(t, "encode", "publish")
  /\ encoded' = encoded \cup {new[t]}
  /\ UNCHANGED <<want, at, new, entries, out_edge_pc, out_edges, lock, target,
                 next, lockVars>>

\* encoded_pc = ...; edge->out_edge_pc = encoded_pc: threads see it at once.
Publish(t) ==
  /\ Goto(t, "publish", "unlock")
  /\ out_edges' = [out_edges EXCEPT ![want[t]] = new[t]]
  /\ out_edge_pc' = new[t]
  /\ UNCHANGED <<want, at, new, entries, lock, target, next, encoded, lockVars>>

\* Mutant: the lock is kept.
UnlockNothing(t) ==
  /\ Goto(t, "unlock", "chain")
  /\ ExitLock!EndRead(t)
  /\ at' = [at EXCEPT ![t] = out_edge_pc]
  /\ new' = [new EXCEPT ![t] = Null]
  /\ UNCHANGED <<want, entries, edgeVars>>

\* Both locks are released; the miss code ends with JMP [out_edge_pc].
Unlock(t) ==
  /\ Goto(t, "unlock", "chain")
  /\ lock' = Null
  /\ ExitLock!EndRead(t)
  /\ at' = [at EXCEPT ![t] = out_edge_pc]
  /\ new' = [new EXCEPT ![t] = Null]
  /\ UNCHANGED <<want, entries, out_edge_pc, out_edges, target, next, encoded>>

\* granary_exit: the exit lock is never released, and the process ends.
granary_exit(t) ==
  /\ pc[t] = "code"
  /\ ExitLock!BeginWrite(t)
  /\ pc' = [s \in Thread |-> "exited"]
  /\ UNCHANGED <<want, at, new, entries, edgeVars>>

\* What a thread does between the branch and the block it leads to.
EdgeStep(t) == \/ Compare(t) \/ ReadLockExit(t) \/ LockEdge(t)
               \/ \E o \in OutEdge : InstantiateIndirectEdge(t, o)
               \/ Encode(t) \/ Publish(t) \/ Unlock(t)

Next == \/ UpdateEncodeAddresses
        \/ \E t \in Thread : \/ \E p \in AppPC : Branch(t, p)
                             \/ EdgeStep(t)
                             \/ granary_exit(t)

\* Threads are scheduled; nothing is assumed of the order in which they get
\* the lock.
Fairness == \A t \in Thread : WF_vars(EdgeStep(t))

Spec == Init /\ [][Next]_vars /\ Fairness
-----------------------------------------------------------------------------
(* Properties.                                                             *)

Labels == {"code", "chain", "lock", "copy", "encode", "publish", "unlock", "exited"}

TypeOK == /\ out_edge_pc \in OutEdge \cup {Miss, Null}
          /\ out_edges \in [AppPC -> OutEdge \cup {Null}]
          /\ lock \in Thread \cup {Null}
          /\ target \in [OutEdge -> AppPC \cup {Null}]
          /\ next \in [OutEdge -> OutEdge \cup {Miss, Null}]
          /\ encoded \subseteq OutEdge
          /\ reading \subseteq Thread /\ writing \subseteq Thread
          /\ want \in [Thread -> AppPC \cup {Null}]
          /\ at \in [Thread -> OutEdge \cup {Miss, Null}]
          /\ new \in [Thread -> OutEdge \cup {Null}]
          /\ entries \in [Thread -> Nat]
          /\ pc \in [Thread -> Labels]

\* The addresses a walk from o passes through: the least set that has o and, with
\* an out-edge, the address it goes to if the targets differ.
Address == OutEdge \cup {Miss, Null}
ChainClosed(f, S) == \A y \in S \cap OutEdge : f[y] \in S
Walk(f, o) == {x \in Address : \A S \in SUBSET Address :
                 o \in S /\ ChainClosed(f, S) => x \in S}
Chain(o) == Walk(next, o)

\* Wherever a thread is in the chain, all code from there on is complete and
\* leads to the miss code; and the chain has exactly the out-edges of the map, one
\* for a target, so that a walk from out_edge_pc finds whatever the map has.
ChainEncoded ==
  /\ \A t \in Thread : pc[t] = "chain" => Chain(at[t]) \subseteq encoded \cup {Miss}
                                          /\ Miss \in Chain(at[t])
  /\ out_edge_pc # Null =>
       /\ Chain(out_edge_pc) \subseteq encoded \cup {Miss} /\ Miss \in Chain(out_edge_pc)
       /\ Chain(out_edge_pc) \ {Miss} = {out_edges[p] : p \in AppPC} \ {Null}
       /\ \A p \in AppPC : out_edges[p] # Null => target[out_edges[p]] = p

\* One visit to Granary is enough for a branch, whatever the others do.
OneEntry == \A t \in Thread : entries[t] <= 1

\* Why: the out-edge a thread makes under the lock falls back to the chain as it
\* still is when it is published, and a thread that has been to Granary is before
\* the out-edge of its target.
MakeInv ==
  /\ \A t \in Thread : pc[t] \in {"copy", "encode", "publish", "unlock"} => lock = t
  /\ \A t \in Thread : pc[t] \notin {"code", "exited"} =>
       want[t] \in AppPC /\ out_edge_pc # Null
  /\ \A o \in encoded : target[o] # Null
  /\ \A t \in Thread : pc[t] \in {"copy", "encode", "publish"} => out_edges[want[t]] = Null
  /\ \A t \in Thread : pc[t] \in {"encode", "publish"} =>
       /\ new[t] \in OutEdge /\ target[new[t]] = want[t]
       /\ next[new[t]] = out_edge_pc
  /\ \A t \in Thread : pc[t] = "publish" => new[t] \in encoded
  /\ \A t \in Thread : pc[t] = "unlock" => out_edges[want[t]] # Null
  /\ out_edge_pc = Null => \A p \in AppPC : out_edges[p] = Null

EntryInv ==
  \A t \in Thread :
    /\ pc[t] \in {"lock", "copy", "encode", "publish", "unlock"} => entries[t] = 1
    /\ pc[t] = "chain" /\ entries[t] # 0 =>
         \E o \in Chain(at[t]) \cap OutEdge : target[o] = want[t]

\* An indirect branch gets to its target, unless the process exits.
BranchResolves == \A t \in Thread : pc[t] = "chain" ~> pc[t] \in {"code", "exited"}
=============================================================================
