----------------------------- MODULE EdgeProofs -----------------------------
(***************************************************************************)
(* Direct and indirect edges, for every program, every set of threads and  *)
(* any amount of code: threads only ever jump into complete code of the    *)
(* right block, the union of a direct edge is never taken for what it is   *)
(* not, Granary is transparent, and one visit to Granary is enough for an  *)
(* indirect branch.                                                        *)
(***************************************************************************)
EXTENDS MCEdges, TLAPS

-----------------------------------------------------------------------------
(* Direct edges.                                                           *)

LEMMA EdgesOfFacts ==
  \A c \in Code, b \in Block : \A e :
    e \in EdgesOf(c, b) <=> e \in Edge /\ e[1] = c /\ e[2] \in DOMAIN Succ[b]
BY EdgeAssumption DEF EdgesOf, Edge

LEMMA Nulls == /\ Null \notin Code /\ Null \notin Block /\ Null \notin Thread
               /\ Stub \notin Code /\ Stub # Null
               /\ Null \notin Edge /\ HasMeta \notin Edge /\ HasMeta # Null
BY EdgeAssumption, UnionAssumption

LEMMA EdgeParts == \A e \in Edge : e[1] \in Code
BY DEF Edge

LEMMA SuccType == \A b \in Block : \A i \in DOMAIN Succ[b] : Succ[b][i] \in Block
<1> SUFFICES ASSUME NEW b \in Block, NEW i \in DOMAIN Succ[b]
             PROVE  Succ[b][i] \in Block
  OBVIOUS
<1>1. Succ[b] \in Seq(Block)
  BY EdgeAssumption
<1> QED
  BY <1>1

\* The set of linked edges has the first edge and what follows any of its edges.
LEMMA LinkedClosed ==
  ASSUME NEW u, NEW e
  PROVE  /\ Linked(u, e) \subseteq Edge
         /\ e \in Edge => e \in Linked(u, e)
         /\ LinkClosed(u, Linked(u, e))
BY DEF Linked, LinkClosed

\* And it is the least such set.
LEMMA LinkedLeast ==
  ASSUME NEW u, NEW e, NEW S \in SUBSET Edge, e \in Edge => e \in S, LinkClosed(u, S)
  PROVE  Linked(u, e) \subseteq S
BY DEF Linked

LEMMA LinkedNone == ASSUME NEW u, NEW e, e \notin Edge PROVE Linked(u, e) = {}
<1>1. LinkClosed(u, {})
  BY DEF LinkClosed
<1> QED
  BY <1>1, LinkedLeast

\* A list is its first edge and the list from the next one.
LEMMA LinkedUnfold ==
  ASSUME NEW u, NEW e \in Edge
  PROVE  Linked(u, e) = {e} \cup Linked(u, u[e])
<1>1. Linked(u, e) \subseteq {e} \cup Linked(u, u[e])
  <2>1. LinkClosed(u, {e} \cup Linked(u, u[e]))
    BY LinkedClosed DEF LinkClosed
  <2> QED
    BY <2>1, LinkedLeast, LinkedClosed
<1>2. Linked(u, u[e]) \subseteq Linked(u, e)
  <2>1. u[e] \in Edge => u[e] \in Linked(u, e)
    BY LinkedClosed DEF LinkClosed
  <2> QED
    BY <2>1, LinkedLeast, LinkedClosed
<1> QED
  BY <1>1, <1>2, LinkedClosed

\* Links elsewhere do not matter.
LEMMA LinkedAgree ==
  ASSUME NEW u, NEW v, NEW e, \A x \in Linked(u, e) : v[x] = u[x]
  PROVE  Linked(v, e) = Linked(u, e)
<1>1. LinkClosed(v, Linked(u, e))
  BY LinkedClosed DEF LinkClosed
<1>2. Linked(v, e) \subseteq Linked(u, e)
  BY <1>1, LinkedLeast, LinkedClosed
<1>3. LinkClosed(u, Linked(v, e))
  BY <1>2, LinkedClosed DEF LinkClosed
<1> QED
  BY <1>2, <1>3, LinkedLeast, LinkedClosed

\* Every step of the specification, and nothing else.
LEMMA Steps ==
  ASSUME [Next]_vars, NEW P,
         \A t \in Thread, e \in Edge : TakeBranch(t, e) => P,
         \A t \in Thread, c \in Code : Assemble(t, c) => P,
         \A t \in Thread : Jump(t) => P,
         \A t \in Thread : ReadLockExit(t) => P,
         \A t \in Thread : LockEdge(t) => P,
         \A t \in Thread : Lookup(t) => P,
         \A t \in Thread : Encode(t) => P,
         \A t \in Thread : Index(t) => P,
         \A t \in Thread : Publish(t) => P,
         \A t \in Thread : Patch(t) => P,
         \A t \in Thread : Unlock(t) => P,
         \A t \in Thread : granary_exit(t) => P,
         \A t \in Thread : ExitContext(t) => P,
         UNCHANGED vars => P
  PROVE  P
BY DEF Next, EdgeStep

LEMMA TypeInit == Init => TypeOK
BY EdgeAssumption, EdgesOfFacts DEF Init, TypeOK, Labels, ExitLock!Init

\* The code a thread executes is of some block, and an edge of it leads to one.
LEMMA TargetType ==
  ASSUME TypeOK, CodeInv, JumpsAreSafe
  PROVE  /\ \A t \in Thread : block[code[t]] \in Block
         /\ \A t \in Thread : \A e \in EdgesOf(code[t], block[code[t]]) :
              e \in Edge /\ e[1] = code[t] /\ TargetOf(e) \in Block
         /\ \A t \in Thread : pc[t] \notin {"code", "exit", "exited"} =>
              edge[t] \in Edge /\ edge[t][1] = code[t] /\ TargetOf(edge[t]) \in Block
<1>1. \A t \in Thread : code[t] \in Code /\ block[code[t]] \in Block
  BY DEF TypeOK, CodeInv, JumpsAreSafe
<1>2. \A t \in Thread : \A e \in EdgesOf(code[t], block[code[t]]) :
              e \in Edge /\ e[1] = code[t] /\ TargetOf(e) \in Block
  BY <1>1, EdgesOfFacts, SuccType DEF TargetOf
<1> QED
  BY <1>1, <1>2 DEF CodeInv

\* Where a branch that bypasses its stub, or the jump of a stub, leads to.
\* Where a branch that bypasses its stub, or the jump of a stub, leads to.
LEMMA JumpTarget ==
  ASSUME JumpsAreSafe, NEW t \in Thread, NEW e \in EdgesOf(code[t], block[code[t]]),
         EdgeHasTranslation(e) \/ e \in patched
  PROVE  /\ entry_target_pc[e] \in encoded
         /\ block[entry_target_pc[e]] = TargetOf(e)
BY DEF JumpsAreSafe, EdgeHasTranslation

LEMMA TypeStep == TypeOK /\ CodeInv /\ JumpsAreSafe /\ [Next]_vars => TypeOK'
<1> SUFFICES ASSUME TypeOK, CodeInv, JumpsAreSafe, [Next]_vars
             PROVE  TypeOK'
  OBVIOUS
<1> USE DEF TypeOK, Labels, Goto, threadVars, edgeVars, cacheVars, lockVars
<1>1. ASSUME NEW t \in Thread, NEW e \in Edge, TakeBranch(t, e) PROVE TypeOK'
  BY <1>1, TargetType, JumpTarget DEF TakeBranch
<1>2. ASSUME NEW t \in Thread, NEW c \in Code, Assemble(t, c) PROVE TypeOK'
  BY <1>2, TargetType DEF Assemble
<1>3. ASSUME NEW t \in Thread, Jump(t) PROVE TypeOK'
  BY <1>3, TargetType, JumpTarget DEF Jump, CodeInv
<1>4. ASSUME NEW t \in Thread, ReadLockExit(t) PROVE TypeOK'
  BY <1>4 DEF ReadLockExit, ExitLock!BeginRead
<1>5. ASSUME NEW t \in Thread, LockEdge(t) PROVE TypeOK'
  BY <1>5 DEF LockEdge
<1>6. ASSUME NEW t \in Thread, Lookup(t) PROVE TypeOK'
  BY <1>6, TargetType DEF Lookup
<1>7. ASSUME NEW t \in Thread, Encode(t) PROVE TypeOK'
  BY <1>7 DEF Encode, CodeInv
<1>8. ASSUME NEW t \in Thread, Index(t) PROVE TypeOK'
  BY <1>8 DEF Index
<1>9. ASSUME NEW t \in Thread, Publish(t) PROVE TypeOK'
  BY <1>9 DEF Publish
<1>10. ASSUME NEW t \in Thread, Patch(t) PROVE TypeOK'
  BY <1>10, TargetType DEF Patch, PreparePatchDirectEdge, TryAtomicPatchEdge
<1>11. ASSUME NEW t \in Thread, Unlock(t) PROVE TypeOK'
  BY <1>11 DEF Unlock, ExitLock!EndRead
<1>12. ASSUME NEW t \in Thread, granary_exit(t) PROVE TypeOK'
  BY <1>12 DEF granary_exit, ExitLock!BeginWrite
<1>13. ASSUME NEW t \in Thread, ExitContext(t) PROVE TypeOK'
  BY <1>13 DEF ExitContext
<1>14. ASSUME UNCHANGED vars PROVE TypeOK'
  BY <1>14 DEF vars
<1> HIDE DEF TypeOK
<1> QED
  BY <1>1, <1>2, <1>3, <1>4, <1>5, <1>6, <1>7, <1>8, <1>9, <1>10, <1>11, <1>12, <1>13, <1>14,
     Steps

LEMMA LockInit == Init => LockInv
BY Nulls DEF Init, LockInv, Locked, Entered, ExitLock!Init

LEMMA LockStep ==
  TypeOK /\ CodeInv /\ JumpsAreSafe /\ LockInv /\ [Next]_vars
    => LockInv'
<1> SUFFICES ASSUME TypeOK, CodeInv, JumpsAreSafe, LockInv, [Next]_vars
             PROVE  LockInv'
  OBVIOUS
<1> USE DEF TypeOK, Labels, Goto, threadVars, edgeVars, cacheVars, lockVars,
           LockInv, Locked, Entered
<1>1. ASSUME NEW t \in Thread, NEW e \in Edge, TakeBranch(t, e) PROVE LockInv'
  BY <1>1, Nulls DEF TakeBranch
<1>2. ASSUME NEW t \in Thread, NEW c \in Code, Assemble(t, c) PROVE LockInv'
  BY <1>2, Nulls DEF Assemble
<1>3. ASSUME NEW t \in Thread, Jump(t) PROVE LockInv'
  BY <1>3, Nulls DEF Jump
<1>4. ASSUME NEW t \in Thread, ReadLockExit(t) PROVE LockInv'
  BY <1>4, Nulls DEF ReadLockExit, ExitLock!BeginRead
<1>5. ASSUME NEW t \in Thread, LockEdge(t) PROVE LockInv'
  BY <1>5, Nulls, TargetType DEF LockEdge
<1>6. ASSUME NEW t \in Thread, Lookup(t) PROVE LockInv'
  BY <1>6, Nulls DEF Lookup
<1>7. ASSUME NEW t \in Thread, Encode(t) PROVE LockInv'
  BY <1>7, Nulls DEF Encode
<1>8. ASSUME NEW t \in Thread, Index(t) PROVE LockInv'
  BY <1>8, Nulls DEF Index
<1>9. ASSUME NEW t \in Thread, Publish(t) PROVE LockInv'
  BY <1>9, Nulls DEF Publish
<1>10. ASSUME NEW t \in Thread, Patch(t) PROVE LockInv'
  BY <1>10, Nulls DEF Patch, PreparePatchDirectEdge, TryAtomicPatchEdge
<1>11. ASSUME NEW t \in Thread, Unlock(t) PROVE LockInv'
  BY <1>11, Nulls, TargetType DEF Unlock, ExitLock!EndRead
<1>12. ASSUME NEW t \in Thread, granary_exit(t) PROVE LockInv'
  BY <1>12, Nulls DEF granary_exit, ExitLock!BeginWrite
<1>13. ASSUME NEW t \in Thread, ExitContext(t) PROVE LockInv'
  BY <1>13, Nulls DEF ExitContext
<1>14. ASSUME UNCHANGED vars PROVE LockInv'
  BY <1>14 DEF vars
<1> HIDE DEF LockInv
<1> QED
  BY <1>1, <1>2, <1>3, <1>4, <1>5, <1>6, <1>7, <1>8, <1>9, <1>10, <1>11, <1>12, <1>13, <1>14,
     Steps

LEMMA CodeInit == Init => CodeInv /\ StubInv /\ JumpsAreSafe
<1> SUFFICES ASSUME Init PROVE CodeInv /\ StubInv /\ JumpsAreSafe
  OBVIOUS
<1>1. CodeInv
  BY Nulls, EdgeAssumption DEF Init, CodeInv
<1>2. StubInv
  BY EdgeAssumption, EdgesOfFacts DEF Init, StubInv
<1>3. JumpsAreSafe
  BY EdgeAssumption, EdgesOfFacts DEF Init, JumpsAreSafe
<1> QED
  BY <1>1, <1>2, <1>3

\* The code a thread makes: where its edges are, and that nobody executes it yet.
LEMMA NewCode ==
  ASSUME TypeOK, CodeInv, JumpsAreSafe, NEW t \in Thread, pc[t] = "encode"
  PROVE  /\ new[t] \in Code /\ block[new[t]] \in Block
         /\ \A e : e \in EdgesOf(new[t], block[new[t]]) =>
              e \in Edge /\ e[1] = new[t] /\ e[1] \notin encoded /\ TargetOf(e) \in Block
         /\ \A u \in Thread : pc[u] \notin {"code", "exit", "exited"} =>
              edge[u][1] # new[t] /\ edge[u] \notin EdgesOf(new[t], block[new[t]])
<1>1. new[t] \in Code /\ new[t] \notin encoded /\ block[new[t]] \in Block
  BY TargetType DEF CodeInv
<1>2. \A e : e \in EdgesOf(new[t], block[new[t]]) =>
        e \in Edge /\ e[1] = new[t] /\ TargetOf(e) \in Block
  BY <1>1, EdgesOfFacts, SuccType DEF TargetOf
<1>3. \A u \in Thread : pc[u] \notin {"code", "exit", "exited"} => edge[u][1] # new[t]
  BY <1>1, TargetType DEF JumpsAreSafe
<1> QED
  BY <1>1, <1>2, <1>3

\* Assemble leaves the code alone that others execute or make.
Apart(c) ==
  /\ c \notin encoded
  /\ \A x \in Code \ {c} : block'[x] = block[x]
  /\ \A u \in Thread : code[u] # c
  /\ \A u \in Thread : pc[u] \notin {"code", "exit", "exited"} =>
       TargetOf(edge[u])' = TargetOf(edge[u]) /\ edge'[u] = edge[u]
  /\ \A u \in Thread : pc[u] \in {"encode", "index", "publish", "patch"} => new[u] # c

LEMMA AssembleFrame ==
  ASSUME TypeOK, CodeInv, JumpsAreSafe, NEW t \in Thread, NEW c \in Code, Assemble(t, c)
  PROVE  Apart(c)
<1> USE DEF TypeOK, Assemble
<1>1. c \notin encoded
  BY DEF CodeInv
<1>2. \A x \in Code \ {c} : block'[x] = block[x]
  OBVIOUS
<1>3. \A u \in Thread : code[u] # c
  BY <1>1 DEF JumpsAreSafe
<1>4. \A u \in Thread : pc[u] \notin {"code", "exit", "exited"} =>
        TargetOf(edge[u])' = TargetOf(edge[u]) /\ edge'[u] = edge[u]
  BY <1>2, <1>3, TargetType DEF TargetOf
<1>5. \A u \in Thread : pc[u] \in {"encode", "index", "publish", "patch"} => new[u] # c
  BY Nulls, TargetType DEF CodeInv
<1> QED
  BY <1>1, <1>2, <1>3, <1>4, <1>5 DEF Apart

LEMMA CodeStep == TypeOK /\ CodeInv /\ JumpsAreSafe /\ [Next]_vars => CodeInv'
<1> SUFFICES ASSUME TypeOK, CodeInv, JumpsAreSafe, [Next]_vars
             PROVE  CodeInv'
  OBVIOUS
<1> USE DEF TypeOK, Labels, Goto, threadVars, edgeVars, cacheVars, lockVars, CodeInv
<1>1. ASSUME NEW t \in Thread, NEW e \in Edge, TakeBranch(t, e) PROVE CodeInv'
  BY <1>1, Nulls, TargetType DEF TakeBranch, TargetOf
<1>2. ASSUME NEW t \in Thread, NEW c \in Code, Assemble(t, c) PROVE CodeInv'
  <2>0. Apart(c)
    BY <1>2, AssembleFrame
  <2> USE <1>2, <2>0, TargetType, Nulls DEF Assemble, Apart
  <2>1. (\A x \in encoded : block[x] # Null)'
    OBVIOUS
  <2>2. (\A u \in Thread : pc[u] \notin {"code", "exit", "exited"} =>
          edge[u] \in EdgesOf(code[u], block[code[u]]))'
    OBVIOUS
  <2>3. (\A u \in Thread : pc[u] \in {"encode", "index", "publish", "patch"} =>
          new[u] \in Code /\ block[new[u]] = TargetOf(edge[u]))'
    <3> SUFFICES ASSUME NEW u \in Thread, (pc[u] \in {"encode", "index", "publish", "patch"})'
                 PROVE  new'[u] \in Code /\ block'[new'[u]] = TargetOf(edge[u])'
      OBVIOUS
    <3>1. CASE u = t
      BY <3>1
    <3>2. CASE u # t
      BY <3>2
    <3> QED
      BY <3>1, <3>2
  <2>4. (\A u \in Thread : pc[u] \in {"index", "publish", "patch"} => new[u] \in encoded)'
    OBVIOUS
  <2>5. (\A u \in Thread : pc[u] = "encode" => new[u] \notin encoded)'
    OBVIOUS
  <2>6. (\A u, v \in Thread :
          pc[u] = "encode" /\ pc[v] = "encode" /\ new[u] = new[v] => u = v)'
    OBVIOUS
  <2>7. (\A b \in Block : index[b] # Null => index[b] \in encoded /\ block[index[b]] = b)'
    OBVIOUS
  <2> QED
    BY <2>1, <2>2, <2>3, <2>4, <2>5, <2>6, <2>7
<1>3. ASSUME NEW t \in Thread, Jump(t) PROVE CodeInv'
  BY <1>3, Nulls, TargetType DEF Jump, TargetOf
<1>4. ASSUME NEW t \in Thread, ReadLockExit(t) PROVE CodeInv'
  BY <1>4, Nulls, TargetType DEF ReadLockExit, ExitLock!BeginRead, TargetOf
<1>5. ASSUME NEW t \in Thread, LockEdge(t) PROVE CodeInv'
  BY <1>5, Nulls, TargetType DEF LockEdge, TargetOf
<1>6. ASSUME NEW t \in Thread, Lookup(t) PROVE CodeInv'
  <2>1. TargetOf(edge[t]) \in Block
    BY <1>6, TargetType DEF Lookup
  <2>2. \A u \in Thread : TargetOf(edge[u])' = TargetOf(edge[u])
    BY <1>6 DEF Lookup, TargetOf
  <2>3. index[TargetOf(edge[t])] # Null =>
          /\ index[TargetOf(edge[t])] \in encoded
          /\ block[index[TargetOf(edge[t])]] = TargetOf(edge[t])
    BY <2>1
  <2> QED
    BY <1>6, <2>2, <2>3 DEF Lookup
<1>7. ASSUME NEW t \in Thread, Encode(t) PROVE CodeInv'
  BY <1>7, Nulls, TargetType DEF Encode, TargetOf
<1>8. ASSUME NEW t \in Thread, Index(t) PROVE CodeInv'
  BY <1>8, Nulls, TargetType DEF Index, TargetOf
<1>9. ASSUME NEW t \in Thread, Publish(t) PROVE CodeInv'
  BY <1>9, Nulls, TargetType DEF Publish, TargetOf
<1>10. ASSUME NEW t \in Thread, Patch(t) PROVE CodeInv'
  BY <1>10, Nulls, TargetType
  DEF Patch, PreparePatchDirectEdge, TryAtomicPatchEdge, TargetOf
<1>11. ASSUME NEW t \in Thread, Unlock(t) PROVE CodeInv'
  BY <1>11, Nulls, TargetType DEF Unlock, ExitLock!EndRead, TargetOf
<1>12. ASSUME NEW t \in Thread, granary_exit(t) PROVE CodeInv'
  BY <1>12, Nulls, TargetType DEF granary_exit, ExitLock!BeginWrite, TargetOf
<1>13. ASSUME NEW t \in Thread, ExitContext(t) PROVE CodeInv'
  BY <1>13, Nulls, TargetType DEF ExitContext, TargetOf
<1>14. ASSUME UNCHANGED vars PROVE CodeInv'
  BY <1>14 DEF vars, TargetOf
<1> HIDE DEF CodeInv
<1> QED
  BY <1>1, <1>2, <1>3, <1>4, <1>5, <1>6, <1>7, <1>8, <1>9, <1>10, <1>11, <1>12, <1>13, <1>14,
     Steps

LEMMA StubStep ==
  TypeOK /\ CodeInv /\ StubInv /\ JumpsAreSafe /\ [Next]_vars
    => StubInv'
<1> SUFFICES ASSUME TypeOK, CodeInv, StubInv, JumpsAreSafe, [Next]_vars
             PROVE  StubInv'
  OBVIOUS
<1> USE DEF TypeOK, Labels, Goto, threadVars, edgeVars, cacheVars, lockVars,
           StubInv, EdgeHasTranslation
<1>1. ASSUME NEW t \in Thread, NEW e \in Edge, TakeBranch(t, e) PROVE StubInv'
  BY <1>1, Nulls, TargetType DEF TakeBranch
<1>2. ASSUME NEW t \in Thread, NEW c \in Code, Assemble(t, c) PROVE StubInv'
  BY <1>2, Nulls, TargetType DEF Assemble
<1>3. ASSUME NEW t \in Thread, Jump(t) PROVE StubInv'
  BY <1>3, Nulls, TargetType DEF Jump
<1>4. ASSUME NEW t \in Thread, ReadLockExit(t) PROVE StubInv'
  BY <1>4, Nulls, TargetType DEF ReadLockExit, ExitLock!BeginRead
<1>5. ASSUME NEW t \in Thread, LockEdge(t) PROVE StubInv'
  BY <1>5, Nulls, TargetType DEF LockEdge
<1>6. ASSUME NEW t \in Thread, Lookup(t) PROVE StubInv'
  BY <1>6, Nulls, TargetType DEF Lookup
<1>7. ASSUME NEW t \in Thread, Encode(t) PROVE StubInv'
  BY <1>7, Nulls, TargetType, NewCode DEF Encode
<1>8. ASSUME NEW t \in Thread, Index(t) PROVE StubInv'
  BY <1>8, Nulls, TargetType DEF Index
<1>9. ASSUME NEW t \in Thread, Publish(t) PROVE StubInv'
  BY <1>9, Nulls, TargetType DEF Publish, JumpsAreSafe, CodeInv
<1>10. ASSUME NEW t \in Thread, Patch(t) PROVE StubInv'
  BY <1>10, Nulls, TargetType
  DEF Patch, PreparePatchDirectEdge, TryAtomicPatchEdge, JumpsAreSafe
<1>11. ASSUME NEW t \in Thread, Unlock(t) PROVE StubInv'
  BY <1>11, Nulls, TargetType DEF Unlock, ExitLock!EndRead
<1>12. ASSUME NEW t \in Thread, granary_exit(t) PROVE StubInv'
  BY <1>12, Nulls, TargetType DEF granary_exit, ExitLock!BeginWrite
<1>13. ASSUME NEW t \in Thread, ExitContext(t) PROVE StubInv'
  BY <1>13, Nulls, TargetType DEF ExitContext
<1>14. ASSUME UNCHANGED vars PROVE StubInv'
  BY <1>14 DEF vars
<1> HIDE DEF StubInv
<1> QED
  BY <1>1, <1>2, <1>3, <1>4, <1>5, <1>6, <1>7, <1>8, <1>9, <1>10, <1>11, <1>12, <1>13, <1>14,
     Steps

LEMMA JumpsStep ==
  TypeOK /\ CodeInv /\ StubInv /\ JumpsAreSafe /\ [Next]_vars
    => JumpsAreSafe'
<1> SUFFICES ASSUME TypeOK, CodeInv, StubInv, JumpsAreSafe, [Next]_vars
             PROVE  JumpsAreSafe'
  OBVIOUS
<1> USE DEF TypeOK, Labels, Goto, threadVars, edgeVars, cacheVars, lockVars,
           JumpsAreSafe, TargetOf
<1>1. ASSUME NEW t \in Thread, NEW e \in Edge, TakeBranch(t, e) PROVE JumpsAreSafe'
  BY <1>1, Nulls, TargetType DEF TakeBranch
<1>2. ASSUME NEW t \in Thread, NEW c \in Code, Assemble(t, c) PROVE JumpsAreSafe'
  <2>0. Apart(c)
    BY <1>2, AssembleFrame
  <2> SUFFICES ASSUME NEW x \in encoded, NEW e \in EdgesOf(x, block[x])
               PROVE  \/ entry_target_pc[e] = Stub /\ e \notin patched
                      \/ /\ entry_target_pc[e] \in encoded
                         /\ block'[entry_target_pc[e]] = TargetOf(e)'
    BY <1>2, <2>0 DEF Assemble, Apart
  <2>1. x \in Code \ {c} /\ block[x] \in Block
    BY <2>0 DEF CodeInv, Apart
  <2>2. e[1] = x
    BY <2>1, EdgesOfFacts
  <2>3. \A y \in encoded : block'[y] = block[y]
    BY <2>0 DEF Apart
  <2> QED
    BY <2>1, <2>2, <2>3
<1>3. ASSUME NEW t \in Thread, Jump(t) PROVE JumpsAreSafe'
  BY <1>3, Nulls, TargetType, JumpTarget DEF Jump, CodeInv
<1>4. ASSUME NEW t \in Thread, ReadLockExit(t) PROVE JumpsAreSafe'
  BY <1>4, Nulls, TargetType DEF ReadLockExit, ExitLock!BeginRead
<1>5. ASSUME NEW t \in Thread, LockEdge(t) PROVE JumpsAreSafe'
  BY <1>5, Nulls, TargetType DEF LockEdge
<1>6. ASSUME NEW t \in Thread, Lookup(t) PROVE JumpsAreSafe'
  BY <1>6, Nulls, TargetType DEF Lookup
<1>7. ASSUME NEW t \in Thread, Encode(t) PROVE JumpsAreSafe'
  <2>1. \A x \in encoded : \A e \in EdgesOf(x, block[x]) :
          e \in Edge /\ e \notin EdgesOf(new[t], block[new[t]])
    BY <1>7, NewCode, EdgesOfFacts DEF Encode, CodeInv
  <2>2. \A e \in EdgesOf(new[t], block[new[t]]) : e \in Edge /\ e \notin patched
    BY <1>7, NewCode DEF Encode, StubInv
  <2> QED
    BY <1>7, <2>1, <2>2 DEF Encode
<1>8. ASSUME NEW t \in Thread, Index(t) PROVE JumpsAreSafe'
  BY <1>8, Nulls, TargetType DEF Index
<1>9. ASSUME NEW t \in Thread, Publish(t) PROVE JumpsAreSafe'
  BY <1>9, Nulls, TargetType, EdgesOfFacts DEF Publish, CodeInv
<1>10. ASSUME NEW t \in Thread, Patch(t) PROVE JumpsAreSafe'
  <2>1. /\ entry_target_pc[edge[t]] \in encoded
        /\ block[entry_target_pc[edge[t]]] = TargetOf(edge[t])
    BY <1>10, JumpTarget DEF Patch, CodeInv, StubInv
  <2> QED
    BY <1>10, <2>1 DEF Patch, PreparePatchDirectEdge, TryAtomicPatchEdge
<1>11. ASSUME NEW t \in Thread, Unlock(t) PROVE JumpsAreSafe'
  BY <1>11, Nulls, TargetType DEF Unlock, ExitLock!EndRead
<1>12. ASSUME NEW t \in Thread, granary_exit(t) PROVE JumpsAreSafe'
  BY <1>12, Nulls, TargetType DEF granary_exit, ExitLock!BeginWrite
<1>13. ASSUME NEW t \in Thread, ExitContext(t) PROVE JumpsAreSafe'
  BY <1>13, Nulls, TargetType DEF ExitContext
<1>14. ASSUME UNCHANGED vars PROVE JumpsAreSafe'
  BY <1>14 DEF vars
<1> HIDE DEF JumpsAreSafe
<1> QED
  BY <1>1, <1>2, <1>3, <1>4, <1>5, <1>6, <1>7, <1>8, <1>9, <1>10, <1>11, <1>12, <1>13, <1>14,
     Steps

\* Why threads only jump into complete code: what granary_enter_direct_edge has
\* locked, made and published so far.
DirectInv == TypeOK /\ LockInv /\ CodeInv /\ StubInv /\ JumpsAreSafe

LEMMA DirectInvInit == Init => DirectInv
BY TypeInit, LockInit, CodeInit DEF DirectInv

LEMMA DirectInvStep == DirectInv /\ [Next]_vars => DirectInv'
BY TypeStep, LockStep, CodeStep, StubStep, JumpsStep DEF DirectInv

\* While other threads translate, publish, index and patch, whatever a thread can
\* jump to without a lock is complete code of the branch's target (granary/entry.cc,
\* granary_enter_direct_edge).
THEOREM JumpsAreSafeHolds == Spec => []JumpsAreSafe
<1>1. DirectInv => JumpsAreSafe
  BY DEF DirectInv
<1> QED
  BY <1>1, DirectInvInit, DirectInvStep, PTL DEF Spec

-----------------------------------------------------------------------------
\* The list of edges to patch stays as it is while its own links do.
LEMMA ListKept ==
  ASSUME \A x \in Linked(union, unpatched_edge_list) : union'[x] = union[x]
  PROVE  /\ Linked(union', unpatched_edge_list) = Linked(union, unpatched_edge_list)
         /\ \A x \in Linked(union, unpatched_edge_list) :
              Linked(union', union'[x]) = Linked(union, union[x])
<1> DEFINE L == Linked(union, unpatched_edge_list)
<1>1. \A x \in L : Linked(union, union[x]) \subseteq L
  <2> SUFFICES ASSUME NEW x \in L PROVE Linked(union, union[x]) \subseteq L
    OBVIOUS
  <2>1. union[x] \in Edge => union[x] \in L
    BY LinkedClosed DEF LinkClosed
  <2> QED
    BY <2>1, LinkedLeast, LinkedClosed
<1>2. \A x \in L : Linked(union', union[x]) = Linked(union, union[x])
  BY <1>1, LinkedAgree
<1> QED
  BY <1>2, LinkedAgree

LEMMA UnionInit == Init => MetaInv /\ UnionConsistent
<1> SUFFICES ASSUME Init PROVE MetaInv /\ UnionConsistent
  OBVIOUS
<1>1. ListFrom(unpatched_edge_list) = {}
  BY LinkedNone, Nulls DEF Init, ListFrom
<1>2. \A e \in Edge : union[e] \in {HasMeta, Null}
  BY DEF Init
<1>3. \A e \in Edge : /\ entry_target_pc[e] = Stub <=> union[e] = HasMeta
                     /\ entry_target_pc[e] \in {Stub, Null}
  BY Nulls DEF Init
<1>4. MetaInv
  BY <1>1, <1>2, <1>3, Nulls DEF Init, MetaInv, Locked, Entered
<1>5. UnionConsistent
  BY <1>1, <1>2, <1>3 DEF Init, UnionConsistent, EdgeHasTranslation
<1> QED
  BY <1>4, <1>5

UnionInv == MetaInv /\ UnionConsistent

LEMMA UnionStep == DirectInv /\ UnionInv /\ [Next]_vars => UnionInv'
<1> SUFFICES ASSUME DirectInv, UnionInv, [Next]_vars
             PROVE  UnionInv'
  OBVIOUS
<1> USE DEF DirectInv, UnionInv, TypeOK, Labels, Goto, threadVars, edgeVars, cacheVars, lockVars,
           MetaInv, UnionConsistent, EdgeHasTranslation, ListFrom, Locked, Entered
<1>1. ASSUME NEW t \in Thread, NEW e \in Edge, TakeBranch(t, e) PROVE UnionInv'
  BY <1>1, Nulls DEF TakeBranch
<1>2. ASSUME NEW t \in Thread, NEW c \in Code, Assemble(t, c) PROVE UnionInv'
  <2> DEFINE L == Linked(union, unpatched_edge_list)
             E == EdgesOf(c, TargetOf(edge[t]))
  <2>1. Apart(c)
    BY <1>2, AssembleFrame
  <2>2. \A e : e \in E <=> e \in Edge /\ e[1] = c /\ e[2] \in DOMAIN Succ[TargetOf(edge[t])]
    BY <1>2, EdgesOfFacts, TargetType DEF Assemble
  <2>3. \A e \in E : entry_target_pc[e] = Null
    BY <2>1, <2>2 DEF Apart, StubInv
  <2>4. \A e \in Edge : union'[e] = IF e \in E THEN HasMeta ELSE union[e]
    BY <1>2 DEF Assemble
  <2>5. \A x \in L : union'[x] = union[x]
    BY <2>3, <2>4, LinkedClosed, Nulls
  <2>6. /\ Linked(union', unpatched_edge_list) = L
        /\ \A x \in L : Linked(union', union'[x]) = Linked(union, union[x])
    BY <2>5, ListKept
  <2> HIDE DEF L, E
  <2>7. MetaInv'
    <3>1. (\A u \in Thread : pc[u] = "encode" =>
            \A e \in EdgesOf(new[u], block[new[u]]) : union[e] = HasMeta)'
      <4> SUFFICES ASSUME NEW u \in Thread, pc'[u] = "encode",
                          NEW e \in EdgesOf(new'[u], block'[new'[u]])
                   PROVE  union'[e] = HasMeta
        OBVIOUS
      <4>1. CASE u = t
        BY <1>2, <2>2, <2>4, <4>1 DEF Assemble, E
      <4>2. CASE u # t
        <5>1. pc[u] = "encode" /\ new'[u] = new[u]
          BY <1>2, <4>2 DEF Assemble
        <5>2. block'[new[u]] = block[new[u]]
          BY <2>1, <5>1 DEF Apart, CodeInv
        <5>3. e \in Edge /\ union[e] = HasMeta
          BY <5>1, <5>2, NewCode
        <5> QED
          BY <2>4, <5>3
      <4> QED
        BY <4>1, <4>2
    <3>2. (\A u \in Thread : pc[u] \in Locked \ {"unlock"} => union[edge[u]] = HasMeta)'
      BY <1>2, <2>4, TargetType DEF Assemble
    <3>3. (\A e \in Edge : union[e] \in Edge => e \in ListFrom(unpatched_edge_list))'
      BY <1>2, <2>4, <2>6, Nulls DEF Assemble, L
    <3>4. (\A e \in ListFrom(unpatched_edge_list) : entry_target_pc[e] \in Code)'
      BY <1>2, <2>6 DEF Assemble, L
    <3>5. (\A e \in Edge : entry_target_pc[e] = Stub => union[e] = HasMeta)'
      BY <1>2, <2>4 DEF Assemble
    <3>6. (\A e \in patched : union[e] = Null)'
      BY <1>2, <2>2, <2>4, <2>1 DEF Assemble, StubInv, Apart
    <3> QED
      BY <3>1, <3>2, <3>3, <3>4, <3>5, <3>6
  <2>8. UnionConsistent'
    <3>1. (\A u \in Thread : pc[u] # "exited" =>
             \A e \in ListFrom(unpatched_edge_list) :
               /\ EdgeHasTranslation(e) /\ e \notin patched
               /\ union[e] # HasMeta /\ e \notin ListFrom(union[e]))'
      BY <1>2, <2>5, <2>6 DEF Assemble, L
    <3>2. (\A e \in Edge : union[e] = HasMeta =>
             \/ ~EdgeHasTranslation(e) \/ entry_target_pc[e] = Null
             \/ \E u \in Thread : pc[u] = "patch" /\ edge[u] = e)'
      BY <1>2, <2>3, <2>4 DEF Assemble
    <3>3. ~(\E u \in Thread : pc[u] = "exited")'
      BY <1>2 DEF Assemble, LockInv
    <3> QED
      BY <3>1, <3>2, <3>3
  <2> QED
    BY <2>7, <2>8
<1>3. ASSUME NEW t \in Thread, Jump(t) PROVE UnionInv'
  BY <1>3, Nulls, TargetType DEF Jump
<1>4. ASSUME NEW t \in Thread, ReadLockExit(t) PROVE UnionInv'
  BY <1>4, Nulls DEF ReadLockExit, ExitLock!BeginRead
<1>5. ASSUME NEW t \in Thread, LockEdge(t) PROVE UnionInv'
  BY <1>5, Nulls, TargetType DEF LockEdge
<1>6. ASSUME NEW t \in Thread, Lookup(t) PROVE UnionInv'
  BY <1>6, Nulls DEF Lookup
<1>7. ASSUME NEW t \in Thread, Encode(t) PROVE UnionInv'
  <2> DEFINE E == EdgesOf(new[t], block[new[t]])
  <2>1. \A e \in E : e \in Edge /\ e[1] \notin encoded /\ union[e] = HasMeta
    BY <1>7, NewCode DEF Encode
  <2>2. \A e \in Edge : entry_target_pc'[e] = IF e \in E THEN Stub ELSE entry_target_pc[e]
    BY <1>7 DEF Encode
  <2>3. \A e \in Linked(union, unpatched_edge_list) : e \in Edge /\ e \notin E
    BY <2>1, LinkedClosed, Nulls DEF StubInv
  <2> HIDE DEF E
  <2> QED
    BY <1>7, <2>1, <2>2, <2>3 DEF Encode
<1>8. ASSUME NEW t \in Thread, Index(t) PROVE UnionInv'
  BY <1>8, Nulls DEF Index
<1>9. ASSUME NEW t \in Thread, Publish(t) PROVE UnionInv'
  BY <1>9, Nulls DEF Publish
<1>10. ASSUME NEW t \in Thread, Patch(t) PROVE UnionInv'
  <2> DEFINE L == Linked(union, unpatched_edge_list)
  <2>1. pc[t] = "patch" /\ edge[t] \in Edge /\ union[edge[t]] = HasMeta
    BY <1>10, TargetType DEF Patch
  <2>2. edge[t] \notin L
    BY <2>1
  <2>3. entry_target_pc[edge[t]] \in Code
    BY <2>1, JumpTarget DEF CodeInv, StubInv
  <2>4. \A u \in Thread : u # t /\ pc[u] \in Locked => edge[u] # edge[t]
    BY <2>1 DEF LockInv
  <2>5. \A u \in Thread : pc[u] = "encode" =>
          \A e \in EdgesOf(new[u], block[new[u]]) : e # edge[t]
    BY <2>1, NewCode
  <2> DEFINE M == Linked(union', unpatched_edge_list')
  <2>6. /\ \A e \in Edge : e # edge[t] => union'[e] = union[e]
        /\ union'[edge[t]] # HasMeta
        /\ union'[edge[t]] = Null \/ edge[t] \notin patched'
        /\ patched' \subseteq patched \cup {edge[t]}
    BY <1>10, <2>1, Nulls DEF Patch, PreparePatchDirectEdge, TryAtomicPatchEdge
  <2>7. \A x \in L : union'[x] = union[x]
    BY <2>2, <2>6, LinkedClosed
  <2>8. /\ Linked(union', unpatched_edge_list) = L
        /\ \A x \in L : Linked(union', union'[x]) = Linked(union, union[x])
    BY <2>7, ListKept
  <2>9. \/ M = L /\ union'[edge[t]] = Null
        \/ /\ M = {edge[t]} \cup L /\ edge[t] \notin patched'
           /\ Linked(union', union'[edge[t]]) = L
    <3>1. CASE PreparePatchDirectEdge(edge[t])
      <4>1. union'[edge[t]] = unpatched_edge_list /\ unpatched_edge_list' = edge[t]
        BY <2>1, <3>1 DEF PreparePatchDirectEdge
      <4>2. M = {edge[t]} \cup L
        BY <2>1, <2>8, <4>1, LinkedUnfold
      <4>3. edge[t] \notin patched'
        BY <2>1, <3>1, Nulls DEF PreparePatchDirectEdge
      <4> QED
        BY <2>8, <4>1, <4>2, <4>3
    <3>2. CASE TryAtomicPatchEdge(edge[t])
      BY <2>1, <2>8, <3>2 DEF TryAtomicPatchEdge
    <3> QED
      BY <1>10, <3>1, <3>2 DEF Patch
  <2>10. /\ pc' = [pc EXCEPT ![t] = "unlock"]
         /\ UNCHANGED <<code, edge, new, entry_target_pc, block, encoded>>
    BY <1>10 DEF Patch
  <2> HIDE DEF L, M
  <2>11. MetaInv'
    <3>1. (\A e \in Edge : entry_target_pc[e] = Stub => union[e] = HasMeta)'
      BY <2>3, <2>6, <2>10, Nulls
    <3>2. (\A u \in Thread : pc[u] = "encode" =>
            \A e \in EdgesOf(new[u], block[new[u]]) : union[e] = HasMeta)'
      BY <2>5, <2>6, <2>10, NewCode
    <3>3. (\A u \in Thread : pc[u] \in Locked \ {"unlock"} => union[edge[u]] = HasMeta)'
      BY <2>4, <2>6, <2>10, TargetType
    <3>4. (\A e \in patched : union[e] = Null)'
      BY <2>6
    <3>5. (\A e \in ListFrom(unpatched_edge_list) : entry_target_pc[e] \in Code)'
      BY <2>3, <2>9, <2>10 DEF L, M
    <3>6. (\A e \in Edge : union[e] \in Edge => e \in ListFrom(unpatched_edge_list))'
      BY <2>6, <2>9, Nulls DEF L, M
    <3> QED
      BY <3>1, <3>2, <3>3, <3>4, <3>5, <3>6
  <2>12. UnionConsistent'
    <3>1. (\A u \in Thread : pc[u] # "exited" =>
             \A e \in ListFrom(unpatched_edge_list) :
               /\ EdgeHasTranslation(e) /\ e \notin patched
               /\ union[e] # HasMeta /\ e \notin ListFrom(union[e]))'
      BY <2>1, <2>2, <2>3, <2>6, <2>7, <2>8, <2>9, <2>10, Nulls DEF L, M
    <3>2. (\A e \in Edge : union[e] = HasMeta =>
             \/ ~EdgeHasTranslation(e) \/ entry_target_pc[e] = Null
             \/ \E u \in Thread : pc[u] = "patch" /\ edge[u] = e)'
      BY <2>6, <2>10
    <3>3. ~(\E u \in Thread : pc[u] = "exited")'
      BY <2>1, <2>10 DEF LockInv
    <3> QED
      BY <3>1, <3>2, <3>3
  <2> QED
    BY <2>11, <2>12
<1>11. ASSUME NEW t \in Thread, Unlock(t) PROVE UnionInv'
  BY <1>11, Nulls DEF Unlock, ExitLock!EndRead
<1>12. ASSUME NEW t \in Thread, granary_exit(t) PROVE UnionInv'
  BY <1>12, Nulls DEF granary_exit, ExitLock!BeginWrite
<1>13. ASSUME NEW t \in Thread, ExitContext(t) PROVE UnionInv'
  <2> DEFINE L == Linked(union, unpatched_edge_list)
  <2>1. \A e \in Edge : union'[e] = IF e \in L THEN Null ELSE union[e]
    BY <1>13 DEF ExitContext
  <2>2. \A e \in Edge : union'[e] \in {HasMeta, Null}
    BY <2>1
  <2>3. Linked(union', unpatched_edge_list) \subseteq L
    <3>1. LinkClosed(union', L)
      BY <2>2, LinkedClosed, Nulls DEF LinkClosed
    <3> QED
      BY <3>1, LinkedClosed, LinkedLeast
  <2>4. \A u \in Thread : pc[u] # "patch"
    BY <1>13 DEF ExitContext, LockInv
  <2> HIDE DEF L
  <2>5. MetaInv'
    BY <1>13, <2>1, <2>2, <2>3, Nulls DEF ExitContext, L
  <2>6. UnionConsistent'
    BY <1>13, <2>1, <2>2, <2>4, Nulls DEF ExitContext
  <2> QED
    BY <2>5, <2>6
<1>14. ASSUME UNCHANGED vars PROVE UnionInv'
  BY <1>14 DEF vars
<1> HIDE DEF UnionInv
<1> QED
  BY <1>1, <1>2, <1>3, <1>4, <1>5, <1>6, <1>7, <1>8, <1>9, <1>10, <1>11, <1>12, <1>13, <1>14,
     Steps

\* The word that an edge's meta-data shares with the link of the list of edges to
\* patch is never taken for the other one, and every edge is on the list once at most
\* (granary/code/edge.h, granary/context.cc: ~Context deletes what the union has).
THEOREM UnionConsistentHolds == Spec => []UnionConsistent
<1>1. Init => DirectInv /\ UnionInv
  BY DirectInvInit, UnionInit DEF UnionInv
<1>2. (DirectInv /\ UnionInv) /\ [Next]_vars => (DirectInv /\ UnionInv)'
  BY DirectInvStep, UnionStep
<1>3. DirectInv /\ UnionInv => UnionConsistent
  BY DEF UnionInv
<1> QED
  BY <1>1, <1>2, <1>3, PTL DEF Spec
-----------------------------------------------------------------------------
LEMMA NativeInit == Init => Native!Init
BY EdgeAssumption DEF Init, Native!Init

\* A step after which every thread is in the same block as before and the process
\* has not exited is no step of the program.
LEMMA NativeStutter ==
  ASSUME \A u \in Thread : block'[code'[u]] = block[code[u]],
         \A u \in Thread : pc[u] # "exited", \A u \in Thread : pc'[u] # "exited"
  PROVE  UNCHANGED Native!vars
BY DEF Native!vars

\* Going to where an edge leads is the program's own branch.
LEMMA NativeBranch ==
  ASSUME DirectInv, NEW t \in Thread, NEW e \in EdgesOf(code[t], block[code[t]]),
         EdgeHasTranslation(e) \/ e \in patched,
         code' = [code EXCEPT ![t] = entry_target_pc[e]], block' = block,
         \A u \in Thread : pc[u] # "exited", \A u \in Thread : pc'[u] # "exited"
  PROVE  Native!Branch(t)
<1>1. e[1] = code[t] /\ e[2] \in DOMAIN Succ[block[code[t]]]
  BY TargetType, EdgesOfFacts DEF DirectInv, TypeOK
<1>2. block[entry_target_pc[e]] = Succ[block[code[t]]][e[2]]
  BY <1>1, JumpTarget DEF DirectInv, TargetOf
<1>3. [u \in Thread |-> block[code[u]]]'
        = [[u \in Thread |-> block[code[u]]] EXCEPT ![t] = Succ[block[code[t]]][e[2]]]
  BY <1>2 DEF DirectInv, TypeOK
<1>4. [u \in Thread |-> block[code[u]]][t] = block[code[t]]
  OBVIOUS
<1> QED
  BY <1>1, <1>3, <1>4 DEF Native!Branch

LEMMA NativeStep == DirectInv /\ [Next]_vars => [Native!Next]_(Native!vars)
<1> SUFFICES ASSUME DirectInv, [Next]_vars
             PROVE  [Native!Next]_(Native!vars)
  OBVIOUS
<1> DEFINE Step == [Native!Next]_(Native!vars)
<1> USE DEF DirectInv, TypeOK, Labels, Goto, LockInv, threadVars, edgeVars, cacheVars, lockVars
<1>1. ASSUME NEW t \in Thread, NEW e \in Edge, TakeBranch(t, e) PROVE Step
  <2>1. CASE e \in patched
    BY <1>1, <2>1, NativeBranch DEF TakeBranch, Native!Next
  <2>2. CASE e \notin patched
    BY <1>1, <2>2, NativeStutter DEF TakeBranch
  <2> QED
    BY <2>1, <2>2
<1>2. ASSUME NEW t \in Thread, NEW c \in Code, Assemble(t, c) PROVE Step
  <2>1. Apart(c)
    BY <1>2, AssembleFrame
  <2> QED
    BY <1>2, <2>1, NativeStutter DEF Assemble, Apart
<1>3. ASSUME NEW t \in Thread, Jump(t) PROVE Step
  <2>1. CASE EdgeHasTranslation(edge[t])
    BY <1>3, <2>1, NativeBranch DEF Jump, CodeInv, Native!Next
  <2>2. CASE ~EdgeHasTranslation(edge[t])
    BY <1>3, <2>2, NativeStutter DEF Jump
  <2> QED
    BY <2>1, <2>2
<1>4. ASSUME NEW t \in Thread, ReadLockExit(t) PROVE Step
  BY <1>4, NativeStutter DEF ReadLockExit, ExitLock!BeginRead
<1>5. ASSUME NEW t \in Thread, LockEdge(t) PROVE Step
  BY <1>5, NativeStutter DEF LockEdge
<1>6. ASSUME NEW t \in Thread, Lookup(t) PROVE Step
  BY <1>6, NativeStutter DEF Lookup
<1>7. ASSUME NEW t \in Thread, Encode(t) PROVE Step
  BY <1>7, NativeStutter DEF Encode
<1>8. ASSUME NEW t \in Thread, Index(t) PROVE Step
  BY <1>8, NativeStutter DEF Index
<1>9. ASSUME NEW t \in Thread, Publish(t) PROVE Step
  BY <1>9, NativeStutter DEF Publish
<1>10. ASSUME NEW t \in Thread, Patch(t) PROVE Step
  BY <1>10, NativeStutter DEF Patch, PreparePatchDirectEdge, TryAtomicPatchEdge
<1>11. ASSUME NEW t \in Thread, Unlock(t) PROVE Step
  BY <1>11, NativeStutter DEF Unlock, ExitLock!EndRead
<1>12. ASSUME NEW t \in Thread, granary_exit(t) PROVE Step
  BY <1>12, NativeStutter DEF granary_exit, ExitLock!BeginWrite
<1>13. ASSUME NEW t \in Thread, ExitContext(t) PROVE Step
  <2>1. [u \in Thread |-> block[code[u]]]' = [u \in Thread |-> block[code[u]]]
    BY <1>13 DEF ExitContext
  <2>2. (\A u \in Thread : pc[u] # "exited")' = FALSE
    BY <1>13 DEF ExitContext
  <2> QED
    BY <2>1, <2>2 DEF Native!Next, Native!Exit
<1>14. ASSUME UNCHANGED vars PROVE Step
  BY <1>14 DEF vars, Native!vars
<1> HIDE DEF Step, DirectInv, LockInv, TypeOK
<1>15. Step
  BY <1>1, <1>2, <1>3, <1>4, <1>5, <1>6, <1>7, <1>8, <1>9, <1>10, <1>11, <1>12, <1>13, <1>14,
     Steps
<1> QED
  BY <1>15 DEF Step

\* Granary is transparent: whatever is translated, published and patched meanwhile,
\* the code that the threads execute follows the program's own control flow.
THEOREM DirectEdgesImplementNative == Spec => ImplementsNativeExecution
<1> QED
  BY DirectInvInit, DirectInvStep, NativeInit, NativeStep, PTL
  DEF Spec, ImplementsNativeExecution, Native!Spec
-----------------------------------------------------------------------------
(* Indirect edges.                                                         *)

LEMMA IndirectSteps ==
  ASSUME [Indirect!Next]_(Indirect!vars), NEW P,
         Indirect!UpdateEncodeAddresses => P,
         \A t \in Thread, p \in AppPC : Indirect!Branch(t, p) => P,
         \A t \in Thread, o \in OutEdge : Indirect!InstantiateIndirectEdge(t, o) => P,
         \A t \in Thread : Indirect!Compare(t) => P,
         \A t \in Thread : Indirect!ReadLockExit(t) => P,
         \A t \in Thread : Indirect!LockEdge(t) => P,
         \A t \in Thread : Indirect!Encode(t) => P,
         \A t \in Thread : Indirect!Publish(t) => P,
         \A t \in Thread : Indirect!Unlock(t) => P,
         \A t \in Thread : Indirect!granary_exit(t) => P,
         UNCHANGED Indirect!vars => P
  PROVE  P
BY DEF Indirect!Next, Indirect!EdgeStep

\* The set of addresses a walk passes through has the first one, what an out-edge in
\* it falls back to, and nothing else.
LEMMA WalkClosed ==
  ASSUME NEW f, NEW o, o \in Indirect!Address,
         \A x \in OutEdge : f[x] \in Indirect!Address
  PROVE  /\ Indirect!Walk(f, o) \subseteq Indirect!Address
         /\ o \in Indirect!Walk(f, o)
         /\ \A x \in Indirect!Walk(f, o) \cap OutEdge : f[x] \in Indirect!Walk(f, o)
BY DEF Indirect!Walk, Indirect!ChainClosed, Indirect!Address

LEMMA WalkLeast ==
  ASSUME NEW f, NEW o, NEW S \in SUBSET Indirect!Address, o \in S,
         \A x \in S \cap OutEdge : f[x] \in S
  PROVE  Indirect!Walk(f, o) \subseteq S
BY DEF Indirect!Walk, Indirect!ChainClosed

LEMMA WalkUnfold ==
  ASSUME NEW f, NEW o \in OutEdge, \A x \in OutEdge : f[x] \in Indirect!Address
  PROVE  Indirect!Walk(f, o) = {o} \cup Indirect!Walk(f, f[o])
<1>1. o \in Indirect!Address
  BY DEF Indirect!Address
<1>2. Indirect!Walk(f, o) \subseteq {o} \cup Indirect!Walk(f, f[o])
  <2> DEFINE S == {o} \cup Indirect!Walk(f, f[o])
  <2>1. S \in SUBSET Indirect!Address /\ o \in S
    BY <1>1, WalkClosed
  <2>2. \A x \in S \cap OutEdge : f[x] \in S
    BY WalkClosed
  <2> HIDE DEF S
  <2>3. Indirect!Walk(f, o) \subseteq S
    BY <2>1, <2>2, WalkLeast
  <2> QED
    BY <2>3 DEF S
<1>3. Indirect!Walk(f, f[o]) \subseteq Indirect!Walk(f, o)
  BY <1>1, WalkClosed, WalkLeast
<1> QED
  BY <1>1, <1>2, <1>3, WalkClosed

\* A walk that starts at the miss code ends there.
LEMMA WalkMiss == ASSUME NEW f PROVE Indirect!Walk(f, Miss) = {Miss}
<1>1. Indirect!Walk(f, Miss) \subseteq {Miss}
  <2>1. {Miss} \in SUBSET Indirect!Address /\ {Miss} \cap OutEdge = {}
    BY IndirectAssumption DEF Indirect!Address
  <2> QED
    BY <2>1, WalkLeast
<1>2. Miss \in Indirect!Walk(f, Miss)
  BY DEF Indirect!Walk, Indirect!Address
<1> QED
  BY <1>1, <1>2

LEMMA WalkAgree ==
  ASSUME NEW f, NEW g, NEW o \in Indirect!Address,
         \A x \in OutEdge : f[x] \in Indirect!Address,
         \A x \in OutEdge : g[x] \in Indirect!Address,
         \A x \in Indirect!Walk(f, o) \cap OutEdge : g[x] = f[x]
  PROVE  Indirect!Walk(g, o) = Indirect!Walk(f, o)
<1>1. Indirect!Walk(g, o) \subseteq Indirect!Walk(f, o)
  BY WalkClosed, WalkLeast
<1>2. \A x \in Indirect!Walk(g, o) \cap OutEdge : f[x] \in Indirect!Walk(g, o)
  BY <1>1, WalkClosed
<1> QED
  BY <1>1, <1>2, WalkClosed, WalkLeast

LEMMA IndirectTypeInit == Indirect!Init => Indirect!TypeOK
BY DEF Indirect!Init, Indirect!TypeOK, Indirect!Labels, Indirect!ExitLock!Init

LEMMA IndirectTypeStep ==
  Indirect!TypeOK /\ Indirect!MakeInv /\ [Indirect!Next]_(Indirect!vars)
    => Indirect!TypeOK'
<1> SUFFICES ASSUME Indirect!TypeOK, Indirect!MakeInv,
                    [Indirect!Next]_(Indirect!vars)
             PROVE  Indirect!TypeOK'
  OBVIOUS
<1> USE DEF Indirect!TypeOK, Indirect!Labels, Indirect!Goto, Indirect!threadVars,
           Indirect!edgeVars, Indirect!lockVars
<1>1. ASSUME Indirect!UpdateEncodeAddresses PROVE Indirect!TypeOK'
  BY <1>1 DEF Indirect!UpdateEncodeAddresses
<1>2. ASSUME NEW t \in Thread, NEW p \in AppPC, Indirect!Branch(t, p) PROVE Indirect!TypeOK'
  BY <1>2 DEF Indirect!Branch
<1>3. ASSUME NEW t \in Thread, NEW o \in OutEdge, Indirect!InstantiateIndirectEdge(t, o) PROVE Indirect!TypeOK'
  BY <1>3 DEF Indirect!InstantiateIndirectEdge, Indirect!MakeInv
<1>4. ASSUME NEW t \in Thread, Indirect!Compare(t) PROVE Indirect!TypeOK'
  BY <1>4 DEF Indirect!Compare
<1>5. ASSUME NEW t \in Thread, Indirect!ReadLockExit(t) PROVE Indirect!TypeOK'
  BY <1>5 DEF Indirect!ReadLockExit, Indirect!ExitLock!BeginRead
<1>6. ASSUME NEW t \in Thread, Indirect!LockEdge(t) PROVE Indirect!TypeOK'
  BY <1>6 DEF Indirect!LockEdge
<1>7. ASSUME NEW t \in Thread, Indirect!Encode(t) PROVE Indirect!TypeOK'
  BY <1>7 DEF Indirect!Encode, Indirect!MakeInv
<1>8. ASSUME NEW t \in Thread, Indirect!Publish(t) PROVE Indirect!TypeOK'
  BY <1>8 DEF Indirect!Publish, Indirect!MakeInv
<1>9. ASSUME NEW t \in Thread, Indirect!Unlock(t) PROVE Indirect!TypeOK'
  BY <1>9 DEF Indirect!Unlock, Indirect!ExitLock!EndRead
<1>10. ASSUME NEW t \in Thread, Indirect!granary_exit(t) PROVE Indirect!TypeOK'
  BY <1>10 DEF Indirect!granary_exit, Indirect!ExitLock!BeginWrite
<1>11. ASSUME UNCHANGED Indirect!vars PROVE Indirect!TypeOK'
  BY <1>11 DEF Indirect!vars
<1> HIDE DEF Indirect!TypeOK
<1> QED
  BY <1>1, <1>2, <1>3, <1>4, <1>5, <1>6, <1>7, <1>8, <1>9, <1>10, <1>11,
     IndirectSteps

LEMMA MakeInit == Indirect!Init => Indirect!MakeInv
BY DEF Indirect!Init, Indirect!MakeInv

LEMMA MakeStep ==
  Indirect!TypeOK /\ Indirect!MakeInv /\ [Indirect!Next]_(Indirect!vars)
    => Indirect!MakeInv'
<1> SUFFICES ASSUME Indirect!TypeOK, Indirect!MakeInv,
                    [Indirect!Next]_(Indirect!vars)
             PROVE  Indirect!MakeInv'
  OBVIOUS
<1> USE DEF Indirect!TypeOK, Indirect!Labels, Indirect!Goto, Indirect!threadVars,
           Indirect!edgeVars, Indirect!lockVars, Indirect!MakeInv
<1>1. ASSUME Indirect!UpdateEncodeAddresses PROVE Indirect!MakeInv'
  BY <1>1, IndirectAssumption DEF Indirect!UpdateEncodeAddresses
<1>2. ASSUME NEW t \in Thread, NEW p \in AppPC, Indirect!Branch(t, p) PROVE Indirect!MakeInv'
  BY <1>2, IndirectAssumption DEF Indirect!Branch
<1>3. ASSUME NEW t \in Thread, NEW o \in OutEdge, Indirect!InstantiateIndirectEdge(t, o) PROVE Indirect!MakeInv'
  BY <1>3, IndirectAssumption DEF Indirect!InstantiateIndirectEdge
<1>4. ASSUME NEW t \in Thread, Indirect!Compare(t) PROVE Indirect!MakeInv'
  BY <1>4, IndirectAssumption DEF Indirect!Compare
<1>5. ASSUME NEW t \in Thread, Indirect!ReadLockExit(t) PROVE Indirect!MakeInv'
  BY <1>5, IndirectAssumption DEF Indirect!ReadLockExit, Indirect!ExitLock!BeginRead
<1>6. ASSUME NEW t \in Thread, Indirect!LockEdge(t) PROVE Indirect!MakeInv'
  BY <1>6, IndirectAssumption DEF Indirect!LockEdge
<1>7. ASSUME NEW t \in Thread, Indirect!Encode(t) PROVE Indirect!MakeInv'
  BY <1>7, IndirectAssumption DEF Indirect!Encode
<1>8. ASSUME NEW t \in Thread, Indirect!Publish(t) PROVE Indirect!MakeInv'
  BY <1>8, IndirectAssumption DEF Indirect!Publish
<1>9. ASSUME NEW t \in Thread, Indirect!Unlock(t) PROVE Indirect!MakeInv'
  BY <1>9, IndirectAssumption DEF Indirect!Unlock, Indirect!ExitLock!EndRead
<1>10. ASSUME NEW t \in Thread, Indirect!granary_exit(t) PROVE Indirect!MakeInv'
  BY <1>10, IndirectAssumption
  DEF Indirect!granary_exit, Indirect!ExitLock!BeginWrite
<1>11. ASSUME UNCHANGED Indirect!vars PROVE Indirect!MakeInv'
  BY <1>11 DEF Indirect!vars
<1> HIDE DEF Indirect!MakeInv
<1> QED
  BY <1>1, <1>2, <1>3, <1>4, <1>5, <1>6, <1>7, <1>8, <1>9, <1>10, <1>11,
     IndirectSteps

ChainInv == Indirect!ChainEncoded /\ Indirect!EntryInv /\ Indirect!OneEntry

LEMMA ChainInit == Indirect!Init => ChainInv
BY DEF Indirect!Init, ChainInv, Indirect!ChainEncoded, Indirect!EntryInv, Indirect!OneEntry

LEMMA NextType ==
  ASSUME Indirect!TypeOK
  PROVE  /\ \A x \in OutEdge : next[x] \in Indirect!Address
         /\ out_edge_pc \in Indirect!Address /\ \A t \in Thread : at[t] \in Indirect!Address
BY DEF Indirect!TypeOK, Indirect!Address

\* A walk through complete code does not change when an out-edge is made.
LEMMA ChainKept ==
  ASSUME Indirect!TypeOK, NEW t \in Thread, NEW o \in OutEdge,
         Indirect!InstantiateIndirectEdge(t, o), Indirect!MakeInv,
         NEW x \in Indirect!Address, Indirect!Chain(x) \subseteq out_encoded \cup {Miss}
  PROVE  /\ Indirect!Walk(next', x) = Indirect!Walk(next, x)
         /\ \A y \in Indirect!Walk(next, x) \cap OutEdge : target'[y] = target[y]
<1>1. o \notin out_encoded /\ next' = [next EXCEPT ![o] = out_edge_pc]
      /\ target' = [target EXCEPT ![o] = want[t]]
  BY DEF Indirect!InstantiateIndirectEdge, Indirect!MakeInv
<1>2. o \notin Indirect!Walk(next, x)
  BY <1>1, IndirectAssumption DEF Indirect!Chain
<1>3. \A y \in OutEdge : next[y] \in Indirect!Address /\ next'[y] \in Indirect!Address
  BY <1>1, NextType DEF Indirect!TypeOK
<1>4. \A y \in OutEdge \ {o} : next'[y] = next[y] /\ target'[y] = target[y]
  BY <1>1 DEF Indirect!TypeOK
<1> QED
  BY <1>2, <1>3, <1>4, WalkAgree

LEMMA ChainStep ==
  Indirect!TypeOK /\ Indirect!MakeInv /\ ChainInv /\ [Indirect!Next]_(Indirect!vars)
    => ChainInv'
<1> SUFFICES ASSUME Indirect!TypeOK, Indirect!MakeInv, ChainInv,
                    [Indirect!Next]_(Indirect!vars)
             PROVE  ChainInv'
  OBVIOUS
<1> USE DEF Indirect!TypeOK, Indirect!Labels, Indirect!Goto, Indirect!threadVars,
           Indirect!edgeVars, Indirect!lockVars, ChainInv, Indirect!ChainEncoded,
           Indirect!EntryInv, Indirect!OneEntry, Indirect!Chain
<1>1. ASSUME Indirect!UpdateEncodeAddresses PROVE ChainInv'
  <2>1. out_edge_pc' = Miss /\ out_edge_pc = Null
        /\ \A p \in AppPC : out_edges[p] = Null
    BY <1>1 DEF Indirect!UpdateEncodeAddresses, Indirect!MakeInv
  <2>2. Indirect!Walk(next, Miss) = {Miss}
    BY WalkMiss
  <2>3. {out_edges[p] : p \in AppPC} \ {Null} = {}
    BY <2>1
  <2> QED
    BY <1>1, <2>1, <2>2, <2>3 DEF Indirect!UpdateEncodeAddresses
<1>2. ASSUME NEW t \in Thread, NEW p \in AppPC, Indirect!Branch(t, p) PROVE ChainInv'
  BY <1>2 DEF Indirect!Branch
<1>3. ASSUME NEW t \in Thread, NEW o \in OutEdge, Indirect!InstantiateIndirectEdge(t, o) PROVE ChainInv'
  <2>1. \A u \in Thread : out_pc[u] = "chain" =>
          /\ Indirect!Walk(next', at[u]) = Indirect!Walk(next, at[u])
          /\ \A y \in Indirect!Walk(next, at[u]) \cap OutEdge : target'[y] = target[y]
    BY <1>3, ChainKept, NextType
  <2>2. out_edge_pc # Null =>
          /\ Indirect!Walk(next', out_edge_pc) = Indirect!Walk(next, out_edge_pc)
          /\ \A y \in Indirect!Walk(next, out_edge_pc) \cap OutEdge : target'[y] = target[y]
    BY <1>3, ChainKept, NextType
  <2>3. /\ out_pc' = [out_pc EXCEPT ![t] = "encode"] /\ out_pc[t] = "copy"
        /\ UNCHANGED <<want, at, entries, out_edge_pc, out_edges, out_encoded>>
    BY <1>3 DEF Indirect!InstantiateIndirectEdge
  <2>4. Indirect!ChainEncoded'
    <3>1. (\A u \in Thread : out_pc[u] = "chain" =>
             /\ Indirect!Chain(at[u]) \subseteq out_encoded \cup {Miss}
             /\ Miss \in Indirect!Chain(at[u]))'
      BY <2>1, <2>3
    <3>2. (out_edge_pc # Null =>
             /\ Indirect!Chain(out_edge_pc) \subseteq out_encoded \cup {Miss}
             /\ Miss \in Indirect!Chain(out_edge_pc)
             /\ Indirect!Chain(out_edge_pc) \ {Miss}
                  = {out_edges[p] : p \in AppPC} \ {Null})'
      BY <2>2, <2>3
    <3>3. (out_edge_pc # Null =>
             \A p \in AppPC : out_edges[p] # Null => target[out_edges[p]] = p)'
      <4> SUFFICES ASSUME out_edge_pc # Null, NEW p \in AppPC, out_edges[p] # Null
                   PROVE  target'[out_edges[p]] = p
        BY <2>3
      <4>1. out_edges[p] \in Indirect!Walk(next, out_edge_pc) \cap OutEdge
        OBVIOUS
      <4> QED
        BY <2>2, <4>1
    <3> QED
      BY <3>1, <3>2, <3>3
  <2>5. Indirect!EntryInv' /\ Indirect!OneEntry'
    BY <2>1, <2>3
  <2> QED
    BY <2>4, <2>5
<1>4. ASSUME NEW t \in Thread, Indirect!Compare(t) PROVE ChainInv'
  <2>1. out_pc[t] = "chain" /\ at[t] \in OutEdge
    BY <1>4 DEF Indirect!Compare
  <2>2. Indirect!Walk(next, at[t]) = {at[t]} \cup Indirect!Walk(next, next[at[t]])
    BY <2>1, WalkUnfold, NextType
  <2>3. Miss \in Indirect!Walk(next, next[at[t]])
    BY <2>1, <2>2, IndirectAssumption
  <2> QED
    BY <1>4, <2>1, <2>2, <2>3 DEF Indirect!Compare
<1>5. ASSUME NEW t \in Thread, Indirect!ReadLockExit(t) PROVE ChainInv'
  <2>1. out_pc[t] = "chain" /\ at[t] = Miss
    BY <1>5 DEF Indirect!ReadLockExit
  <2>2. entries[t] = 0
    BY <2>1, WalkMiss, IndirectAssumption
  <2> QED
    BY <1>5, <2>2 DEF Indirect!ReadLockExit
<1>6. ASSUME NEW t \in Thread, Indirect!LockEdge(t) PROVE ChainInv'
  BY <1>6 DEF Indirect!LockEdge
<1>7. ASSUME NEW t \in Thread, Indirect!Encode(t) PROVE ChainInv'
  BY <1>7 DEF Indirect!Encode
<1>8. ASSUME NEW t \in Thread, Indirect!Publish(t) PROVE ChainInv'
  <2>1. /\ out_pc[t] = "publish" /\ want[t] \in AppPC /\ out_edges[want[t]] = Null
        /\ out_edge_pc # Null /\ out_new[t] \in OutEdge /\ out_new[t] \in out_encoded
        /\ target[out_new[t]] = want[t] /\ next[out_new[t]] = out_edge_pc
    BY <1>8 DEF Indirect!Publish, Indirect!MakeInv
  <2>2. Indirect!Walk(next, out_new[t]) = {out_new[t]} \cup Indirect!Walk(next, out_edge_pc)
    BY <2>1, WalkUnfold, NextType
  <2>3. {out_edges'[p] : p \in AppPC} \ {Null}
          = {out_new[t]} \cup ({out_edges[p] : p \in AppPC} \ {Null})
    BY <1>8, <2>1, IndirectAssumption DEF Indirect!Publish
  <2>4. Indirect!ChainEncoded'
    BY <1>8, <2>1, <2>2, <2>3, IndirectAssumption DEF Indirect!Publish
  <2>5. Indirect!EntryInv' /\ Indirect!OneEntry'
    BY <1>8 DEF Indirect!Publish
  <2> QED
    BY <2>4, <2>5
<1>9. ASSUME NEW t \in Thread, Indirect!Unlock(t) PROVE ChainInv'
  <2>1. /\ out_pc[t] = "unlock" /\ want[t] \in AppPC /\ out_edges[want[t]] # Null
        /\ out_edge_pc # Null
    BY <1>9 DEF Indirect!Unlock, Indirect!MakeInv
  <2>2. /\ out_edges[want[t]] \in Indirect!Walk(next, out_edge_pc) \cap OutEdge
        /\ target[out_edges[want[t]]] = want[t]
    BY <2>1
  <2> QED
    BY <1>9, <2>1, <2>2 DEF Indirect!Unlock
<1>10. ASSUME NEW t \in Thread, Indirect!granary_exit(t) PROVE ChainInv'
  BY <1>10 DEF Indirect!granary_exit, Indirect!ExitLock!BeginWrite
<1>11. ASSUME UNCHANGED Indirect!vars PROVE ChainInv'
  BY <1>11 DEF Indirect!vars
<1> HIDE DEF ChainInv
<1> QED
  BY <1>1, <1>2, <1>3, <1>4, <1>5, <1>6, <1>7, <1>8, <1>9, <1>10, <1>11,
     IndirectSteps

\* Whatever other threads prepend meanwhile, a walk along the chain of out-edges is
\* through complete code and ends at the miss code, it finds what the map out_edges has,
\* and one call of granary_enter_indirect_edge is enough for a branch.
THEOREM ChainSoundHolds == Indirect!Spec => []ChainSound
<1>1. Indirect!Init => Indirect!TypeOK /\ Indirect!MakeInv /\ ChainInv
  BY IndirectTypeInit, MakeInit, ChainInit
<1>2. (Indirect!TypeOK /\ Indirect!MakeInv /\ ChainInv) /\ [Indirect!Next]_(Indirect!vars)
        => (Indirect!TypeOK /\ Indirect!MakeInv /\ ChainInv)'
  BY IndirectTypeStep, MakeStep, ChainStep
<1>3. ChainInv => ChainSound
  BY DEF ChainInv, ChainSound
<1> QED
  BY <1>1, <1>2, <1>3, PTL DEF Indirect!Spec
=============================================================================
