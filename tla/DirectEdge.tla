----------------------------- MODULE DirectEdge -----------------------------
(***************************************************************************)
(* Direct edges (granary/entry.cc, code/edge.{h,cc}, context.cc and        *)
(* arch/x86-64/edge.cc): threads run translated blocks; the branch at the  *)
(* end of a block goes to the edge's stub, which jumps through             *)
(* entry_target_pc: at first to the code that enters Granary, once the     *)
(* target is translated straight to it.  Threads jump without any lock     *)
(* while another one translates, publishes, patches, or wants to exit.     *)
(*                                                                         *)
(* A block is translated into a piece of code; two threads may translate   *)
(* one block twice.  The index gives the newest code of a block (see       *)
(* CodeCacheIndex), the exit lock is the one ReaderWriterLock implements.  *)
(***************************************************************************)
EXTENDS Naturals, Sequences, FiniteSets

CONSTANTS
  Thread,
  Block,            \* Blocks of the program.
  Succ,             \* Their control flow: [Block -> Seq(Block)].
  Entry,            \* The block where the program starts.
  Code,             \* Pieces of code of the code cache: what bounds the model.
  FirstCode,        \* The code of Entry.
  UnsafePatchEdges, \* FLAG_unsafe_patch_edges.
  Stub,             \* An address within edge_code_pc: the edge is unresolved.
  HasMeta,          \* dest_block_meta, as opposed to next_patchable.
  Null              \* nullptr.

ASSUME EdgeAssumption ==
  /\ Succ \in [Block -> Seq(Block)]
  /\ Entry \in Block /\ FirstCode \in Code
  /\ UnsafePatchEdges \in BOOLEAN
  /\ Null \notin Code \cup Block \cup Thread
  /\ Stub \notin Code \cup {Null}

VARIABLES
  block,            \* The block each piece of code was made from, or Null.
  encoded,          \* The code that has been written to the code cache.
  index,            \* What a lookup of each block finds: code or Null.
  entry_target_pc,  \* DirectEdge::entry_target_pc.
  union,            \* The union: HasMeta, Null, or the next edge of a list.
  lock,             \* The holder of DirectEdge::lock.
  patched,          \* Edges whose branch has been patched to bypass the stub.
  unpatched_edge_list,
  reading, writing, \* gExitGranaryLock.
  code,             \* The code each thread executes or has left last,
  edge,             \* the edge it is in,
  new,              \* the code it translates into,
  pc                \* and what it does.

threadVars == <<code, edge, new, pc>>
edgeVars == <<entry_target_pc, union, lock, patched, unpatched_edge_list>>
cacheVars == <<block, encoded, index>>
lockVars == <<reading, writing>>
vars == <<threadVars, edgeVars, cacheVars, lockVars>>

ExitLock == INSTANCE SharedMutex

\* The edge of the i-th branch of some code, and where it has to lead.
Edge == Code \X UNION {DOMAIN Succ[b] : b \in Block}
EdgesOf(c, b) == {<<c, i>> : i \in DOMAIN Succ[b]}
TargetOf(e) == Succ[block[e[1]]][e[2]]

\* What shares a word with the address of an edge is no edge.
ASSUME UnionAssumption == /\ Null \notin Edge
                          /\ HasMeta \notin Edge \cup {Null}

\* EdgeHasTranslation: entry_target_pc lies outside of the edge's own code.
EdgeHasTranslation(e) == entry_target_pc[e] # Stub

Goto(t, from, to) == /\ pc[t] = from
                     /\ pc' = [pc EXCEPT ![t] = to]
-----------------------------------------------------------------------------
\* After InitGranary and the translation of the program's entry point.
Init == /\ block = [c \in Code |-> IF c = FirstCode THEN Entry ELSE Null]
        /\ encoded = {FirstCode}
        /\ index = [b \in Block |-> IF b = Entry THEN FirstCode ELSE Null]
        /\ entry_target_pc = [e \in Edge |->
             IF e \in EdgesOf(FirstCode, Entry) THEN Stub ELSE Null]
        /\ union = [e \in Edge |->
             IF e \in EdgesOf(FirstCode, Entry) THEN HasMeta ELSE Null]
        /\ lock = [e \in Edge |-> Null]
        /\ patched = {}
        /\ unpatched_edge_list = Null
        /\ ExitLock!Init
        /\ code = [t \in Thread |-> FirstCode]
        /\ edge = [t \in Thread |-> Null]
        /\ new = [t \in Thread |-> Null]
        /\ pc = [t \in Thread |-> "code"]

\* The branch at the end of the code is executed: a patched one goes straight
\* to the target, any other to the stub.
TakeBranch(t, e) ==
  /\ pc[t] = "code"
  /\ e \in EdgesOf(code[t], block[code[t]])
  /\ IF e \in patched
     THEN /\ code' = [code EXCEPT ![t] = entry_target_pc[e]]
          /\ UNCHANGED <<edge, pc>>
     ELSE /\ edge' = [edge EXCEPT ![t] = e]
          /\ pc' = [pc EXCEPT ![t] = "stub"]
          /\ UNCHANGED code
  /\ UNCHANGED <<new, edgeVars, cacheVars, lockVars>>

\* JMP [entry_target_pc], from GenerateDirectEdgeCode.
Jump(t) ==
  /\ pc[t] = "stub"
  /\ IF EdgeHasTranslation(edge[t])
     THEN /\ code' = [code EXCEPT ![t] = entry_target_pc[edge[t]]]
          /\ edge' = [edge EXCEPT ![t] = Null]
          /\ pc' = [pc EXCEPT ![t] = "code"]
     ELSE /\ pc' = [pc EXCEPT ![t] = "enter"]
          /\ UNCHANGED <<code, edge>>
  /\ UNCHANGED <<new, edgeVars, cacheVars, lockVars>>
-----------------------------------------------------------------------------
\* granary_enter_direct_edge.

\* ReadLockedRegion exit_locker(&gExitGranaryLock).
ReadLockExit(t) ==
  /\ Goto(t, "enter", "lock")
  /\ ExitLock!BeginRead(t)
  /\ UNCHANGED <<code, edge, new, edgeVars, cacheVars>>

\* Mutant: whether the edge has a translation is not looked at again.
LockEdgeUnchecked(t) ==
  /\ pc[t] = "lock"
  /\ lock[edge[t]] = Null
  /\ lock' = [lock EXCEPT ![edge[t]] = t]
  /\ pc' = [pc EXCEPT ![t] = "lookup"]
  /\ UNCHANGED <<code, edge, new, entry_target_pc, union, patched,
                 unpatched_edge_list, cacheVars, lockVars>>

\* LockedRegion edge_locker(&edge->lock), and whether there is anything to do.
LockEdge(t) ==
  /\ pc[t] = "lock"
  /\ lock[edge[t]] = Null
  /\ lock' = [lock EXCEPT ![edge[t]] = t]
  /\ pc' = [pc EXCEPT ![t] = IF EdgeHasTranslation(edge[t]) THEN "unlock" ELSE "lookup"]
  /\ UNCHANGED <<code, edge, new, entry_target_pc, union, patched,
                 unpatched_edge_list, cacheVars, lockVars>>

\* Mutant: the lookup may hit another block's bucket.
LookupAny(t) ==
  /\ \E b \in Block :
       /\ new' = [new EXCEPT ![t] = index[b]]
       /\ Goto(t, "lookup", IF index[b] = Null THEN "assemble" ELSE "publish")
  /\ UNCHANGED <<code, edge, edgeVars, cacheVars, lockVars>>

\* Translate: the block may be in the index.
Lookup(t) ==
  /\ pc[t] = "lookup"
  /\ new' = [new EXCEPT ![t] = index[TargetOf(edge[t])]]
  /\ pc' = [pc EXCEPT ![t] = IF index[TargetOf(edge[t])] = Null
                             THEN "assemble" ELSE "publish"]
  /\ UNCHANGED <<code, edge, edgeVars, cacheVars, lockVars>>

\* Assemble, and the allocation of the code: AllocateDirectEdge makes an edge
\* for every branch out of the block.
Assemble(t, c) ==
  /\ Goto(t, "assemble", "encode")
  /\ block[c] = Null
  /\ block' = [block EXCEPT ![c] = TargetOf(edge[t])]
  /\ new' = [new EXCEPT ![t] = c]
  /\ union' = [e \in Edge |-> IF e \in EdgesOf(c, TargetOf(edge[t])) THEN HasMeta
                              ELSE union[e]]
  /\ UNCHANGED <<code, edge, entry_target_pc, lock, patched, unpatched_edge_list,
                 encoded, index, lockVars>>

\* Mutant: the addresses of the edges are not updated.
EncodeOnly(t) ==
  /\ Goto(t, "encode", "index")
  /\ encoded' = encoded \cup {new[t]}
  /\ UNCHANGED <<code, edge, new, edgeVars, block, index, lockVars>>

\* Encode, then UpdateEncodeAddresses: the edges of the new code get their stubs.
Encode(t) ==
  /\ Goto(t, "encode", "index")
  /\ encoded' = encoded \cup {new[t]}
  /\ entry_target_pc' = [e \in Edge |->
       IF e \in EdgesOf(new[t], block[new[t]]) THEN Stub ELSE entry_target_pc[e]]
  /\ UNCHANGED <<code, edge, new, union, lock, patched, unpatched_edge_list,
                 block, index, lockVars>>

\* Index(trace): if somebody else has indexed the block meanwhile, it stays,
\* unless both have looked before either inserted.
Index(t) ==
  /\ Goto(t, "index", "publish")
  /\ \/ index' = [index EXCEPT ![block[new[t]]] = new[t]]
     \/ index[block[new[t]]] # Null /\ UNCHANGED index
  /\ UNCHANGED <<code, edge, new, edgeVars, block, encoded, lockVars>>

\* edge->entry_target_pc = Translate(...): other threads see it at once.
Publish(t) ==
  /\ Goto(t, "publish", "patch")
  /\ entry_target_pc' = [entry_target_pc EXCEPT ![edge[t]] = new[t]]
  /\ UNCHANGED <<code, edge, new, union, lock, patched, unpatched_edge_list,
                 cacheVars, lockVars>>

\* Context::PreparePatchDirectEdge.
PreparePatchDirectEdge(e) ==
  /\ union' = [union EXCEPT ![e] = unpatched_edge_list]
  /\ unpatched_edge_list' = e
  /\ UNCHANGED patched

\* TryAtomicPatchEdge, where the instruction can be patched.
TryAtomicPatchEdge(e) ==
  /\ UnsafePatchEdges
  /\ patched' = patched \cup {e}
  /\ union' = [union EXCEPT ![e] = Null]
  /\ UNCHANGED unpatched_edge_list

\* dest_block_meta = nullptr; patch the branch or put the edge on the list.
Patch(t) ==
  /\ Goto(t, "patch", "unlock")
  /\ PreparePatchDirectEdge(edge[t]) \/ TryAtomicPatchEdge(edge[t])
  /\ UNCHANGED <<code, edge, new, entry_target_pc, lock, cacheVars, lockVars>>

\* Both locks are released, and the edge code jumps back to the stub.  Between the two
\* releases the thread touches nothing that is shared.
Unlock(t) ==
  /\ Goto(t, "unlock", "stub")
  /\ lock' = [lock EXCEPT ![edge[t]] = Null]
  /\ ExitLock!EndRead(t)
  /\ new' = [new EXCEPT ![t] = Null]
  /\ UNCHANGED <<code, edge, entry_target_pc, union, patched,
                 unpatched_edge_list, cacheVars>>
-----------------------------------------------------------------------------
\* granary_exit, from a system call of the program.
granary_exit(t) ==
  /\ Goto(t, "code", "exit")
  /\ ExitLock!BeginWrite(t)
  /\ UNCHANGED <<code, edge, new, edgeVars, cacheVars>>

\* The edges on a list that is linked through u, from e on: the least set that
\* has e and, with an edge, the edge that comes after it.
LinkClosed(u, S) == \A y \in S : u[y] \in Edge => u[y] \in S
Linked(u, e) == {x \in Edge : \A S \in SUBSET Edge :
                   (e \in Edge => e \in S) /\ LinkClosed(u, S) => x \in S}
ListFrom(e) == Linked(union, e)

\* Exit: ~Context unlinks the list, so that what ~DirectEdge deletes is
\* meta-data; then the process ends.  The exit lock is not released.
ExitContext(t) ==
  /\ pc[t] = "exit"
  /\ pc' = [s \in Thread |-> "exited"]
  /\ union' = [e \in Edge |-> IF e \in ListFrom(unpatched_edge_list) THEN Null
                              ELSE union[e]]
  /\ UNCHANGED <<code, edge, new, entry_target_pc, lock, patched,
                 unpatched_edge_list, cacheVars, lockVars>>

\* What a thread does once it has left a block.
EdgeStep(t) == \/ Jump(t) \/ ReadLockExit(t) \/ LockEdge(t) \/ Lookup(t)
               \/ \E c \in Code : Assemble(t, c)
               \/ Encode(t) \/ Index(t) \/ Publish(t) \/ Patch(t) \/ Unlock(t)

Next == \E t \in Thread : \/ \E e \in Edge : TakeBranch(t, e)
                          \/ EdgeStep(t)
                          \/ granary_exit(t)
                          \/ ExitContext(t)

\* Threads are scheduled.  Nothing is assumed of the locks: an edge's lock is
\* only asked for until the edge has a translation.
Fairness == \A t \in Thread : WF_vars(EdgeStep(t)) /\ WF_vars(ExitContext(t))

Spec == Init /\ [][Next]_vars /\ Fairness
-----------------------------------------------------------------------------
(* Properties.                                                             *)

Labels == {"code", "stub", "enter", "lock", "lookup", "assemble", "encode",
           "index", "publish", "patch", "unlock", "exit", "exited"}

\* Within granary_enter_direct_edge; with the edge's lock; working on its code.
Entered == {"lock", "lookup", "assemble", "encode", "index", "publish", "patch", "unlock"}
Locked == Entered \ {"lock"}

TypeOK == /\ block \in [Code -> Block \cup {Null}]
          /\ encoded \subseteq Code
          /\ index \in [Block -> Code \cup {Null}]
          /\ entry_target_pc \in [Edge -> Code \cup {Stub, Null}]
          /\ union \in [Edge -> Edge \cup {HasMeta, Null}]
          /\ lock \in [Edge -> Thread \cup {Null}]
          /\ patched \subseteq Edge
          /\ unpatched_edge_list \in Edge \cup {Null}
          /\ reading \subseteq Thread /\ writing \subseteq Thread
          /\ code \in [Thread -> Code]
          /\ edge \in [Thread -> Edge \cup {Null}]
          /\ new \in [Thread -> Code \cup {Null}]
          /\ pc \in [Thread -> Labels]

\* Whatever a thread can jump to is complete: the code it executes is encoded,
\* and every edge of encoded code leads into its own stub or to encoded code
\* of the branch's target.
JumpsAreSafe ==
  /\ \A t \in Thread : code[t] \in encoded
  /\ \A c \in encoded : \A e \in EdgesOf(c, block[c]) :
       \/ entry_target_pc[e] = Stub /\ e \notin patched
       \/ entry_target_pc[e] \in encoded /\ block[entry_target_pc[e]] = TargetOf(e)

\* Why.  A thread has its edge's lock from LockEdge to Unlock, and reads the
\* exit lock meanwhile, which the thread that exits keeps for itself.
LockInv ==
  /\ \A t \in Thread : pc[t] \in Locked => lock[edge[t]] = t
  /\ \A e \in Edge : lock[e] # Null => pc[lock[e]] \in Locked /\ edge[lock[e]] = e
  /\ reading = {t \in Thread : pc[t] \in Entered}
  /\ writing # {} => reading = {}
  /\ \A t \in Thread : pc[t] = "exit" => writing # {}
  /\ (\E t \in Thread : pc[t] = "exited") => \A t \in Thread : pc[t] = "exited"

\* The edge is one of the code the thread has left.  The code it makes is for the
\* edge's target, and it alone encodes it; what the index has is encoded.
CodeInv ==
  /\ \A c \in encoded : block[c] # Null
  /\ \A t \in Thread : pc[t] \notin {"code", "exit", "exited"} =>
       edge[t] \in EdgesOf(code[t], block[code[t]])
  /\ \A t \in Thread : pc[t] \in {"encode", "index", "publish", "patch"} =>
       new[t] \in Code /\ block[new[t]] = TargetOf(edge[t])
  /\ \A t \in Thread : pc[t] \in {"index", "publish", "patch"} => new[t] \in encoded
  /\ \A t \in Thread : pc[t] = "encode" => new[t] \notin encoded
  /\ \A t, u \in Thread : pc[t] = "encode" /\ pc[u] = "encode" /\ new[t] = new[u] => t = u
  /\ \A b \in Block : index[b] # Null => index[b] \in encoded /\ block[index[b]] = b

\* Edges of code that is not encoded lead nowhere and are not patched.
StubInv ==
  /\ \A e \in Edge : e[1] \notin encoded => entry_target_pc[e] = Null /\ e \notin patched
  /\ \A t \in Thread : pc[t] = "patch" => EdgeHasTranslation(edge[t])

\* An edge has its meta-data until it is patched or put on the list.
MetaInv ==
  /\ \A e \in Edge : entry_target_pc[e] = Stub => union[e] = HasMeta
  /\ \A t \in Thread : pc[t] = "encode" =>
       \A e \in EdgesOf(new[t], block[new[t]]) : union[e] = HasMeta
  /\ \A t \in Thread : pc[t] \in Locked \ {"unlock"} => union[edge[t]] = HasMeta
  /\ \A e \in patched : union[e] = Null
  /\ \A e \in ListFrom(unpatched_edge_list) : entry_target_pc[e] \in Code
  /\ \A e \in Edge : union[e] \in Edge => e \in ListFrom(unpatched_edge_list)

\* The union holds meta-data until the edge is translated; then the edge is on
\* the list of edges to patch exactly if it has not been patched, and the list
\* is not circular.  So ~Context deletes the meta-data of untranslated edges
\* and nothing else.
UnionConsistent ==
  /\ \A t \in Thread : pc[t] # "exited" =>
       \A e \in ListFrom(unpatched_edge_list) :
         /\ EdgeHasTranslation(e) /\ e \notin patched
         /\ union[e] # HasMeta /\ e \notin ListFrom(union[e])
  /\ \A e \in Edge : union[e] = HasMeta =>
       \/ ~EdgeHasTranslation(e) \/ entry_target_pc[e] = Null
       \/ \E t \in Thread : pc[t] = "patch" /\ edge[t] = e
  /\ (\E t \in Thread : pc[t] = "exited") => \A e \in Edge : union[e] \in {HasMeta, Null}

\* Granary is transparent: the code the threads execute follows the program's
\* own control flow.
Native == INSTANCE NativeExecution
            WITH at <- [t \in Thread |-> block[code[t]]],
                 running <- \A t \in Thread : pc[t] # "exited"
ImplementsNativeExecution == Native!Spec

\* A thread that has left a block gets to the next one, unless the process exits.
EdgeResolves == \A t \in Thread :
  pc[t] = "stub" ~> pc[t] \in {"code", "exited"}
=============================================================================
