------------------------------- MODULE MCEdges -------------------------------
(***************************************************************************)
(* Runs the direct edges of a program or one indirect edge: the two share  *)
(* nothing but the exit lock.  Both branches of the program's first block  *)
(* lead to the second, so that two edges to it are translated at the same  *)
(* time; the second block is a loop, whose edge both threads use.          *)
(***************************************************************************)
EXTENDS DirectEdge

CONSTANTS A, B, AppPC, OutEdge, Miss

MCSucc == [b \in {A, B} |-> IF b = A THEN <<B, B>> ELSE <<B>>]

VARIABLES kind, out_edge_pc, out_edges, edge_lock, target, next, out_encoded,
          want, at, out_new, entries, out_pc, out_reading, out_writing

Indirect == INSTANCE IndirectEdge
              WITH lock <- edge_lock, encoded <- out_encoded, new <- out_new,
                   pc <- out_pc, reading <- out_reading, writing <- out_writing

\* The miss code and nullptr are no out-edges.
ASSUME IndirectAssumption == /\ Miss \notin OutEdge \cup {Null}
                             /\ Null \notin OutEdge \cup AppPC \cup Thread

indirectVars == <<out_edge_pc, out_edges, edge_lock, target, next, out_encoded, want,
                  at, out_new, entries, out_pc, out_reading, out_writing>>
edgesVars == <<kind, vars, indirectVars>>

EdgesInit == /\ kind \in {"direct", "indirect"}
             /\ Init
             /\ Indirect!Init

EdgesNext == \/ kind = "direct" /\ Next /\ UNCHANGED <<kind, indirectVars>>
             \/ kind = "indirect" /\ Indirect!Next /\ UNCHANGED <<kind, vars>>

\* Fairness of the one and of the other.
EdgesFairness ==
  \A t \in Thread : /\ WF_vars(kind = "direct" /\ EdgeStep(t))
                    /\ WF_vars(kind = "direct" /\ ExitContext(t))
                    /\ WF_indirectVars(kind = "indirect" /\ Indirect!EdgeStep(t))

EdgesSpec == EdgesInit /\ [][EdgesNext]_edgesVars /\ EdgesFairness
-----------------------------------------------------------------------------
\* A walk along the chain of out-edges is through complete code, finds what the map
\* out_edges has, and ends; and one call of granary_enter_indirect_edge is enough for
\* a branch (granary/code/edge.cc, arch/x86-64/edge.cc).
ChainSound == Indirect!ChainEncoded /\ Indirect!OneEntry

\* A direct edge that is taken gets its translation, and an indirect branch gets to its
\* target, unless the process exits.
BranchesResolve == EdgeResolves /\ Indirect!BranchResolves
==============================================================================
