---------------------------- MODULE BlockFactory ----------------------------
(***************************************************************************)
(* How a trace is built: the block factory of granary/cfg/factory.cc, the  *)
(* trace of granary/cfg/trace.cc, and the driver of granary/instrument.cc  *)
(* that lets the tools request blocks until no requests are left or a      *)
(* limit is reached.  One translation, by one thread.  A block's           *)
(* instructions are left out, except for the blocks they lead to;          *)
(* indirect and return blocks are never requested and are left out too, as *)
(* are the debugging limit on decoded blocks and tools that make blocks.   *)
(***************************************************************************)
EXTENDS Naturals, SequencesExt, FiniteSetsExt

CONSTANTS
  PC,               \* Code of the application.
  NativePC,         \* Code that is never instrumented.
  Succ,             \* What decoding a block at pc finds: its successors' pcs,
                    \* and the strategies they are requested with.
  EntryPC,
  MaxIterations,    \* FLAG_max_num_control_flow_iterations.
  MaxRequests       \* Requests of the tools, in total: a bound of the model.

\* BlockRequestKind; the numbers are the code's, divided by five.
Later == 0
FromIndexOrTraceOnly == 1
FromIndexOrTrace == 2
FromTrace == 4
DecodeNow == 6
ExecuteNatively == 8
InFuture == 10
ToolStrategy == {FromIndexOrTrace, FromTrace, DecodeNow, ExecuteNatively, InFuture}
Strategy == ToolStrategy \cup {Later, FromIndexOrTraceOnly}

\* Any program: from each pc, a block is decoded that has finitely many successors.
ASSUME ProgramAssumption == /\ EntryPC \in PC
                            /\ Succ \in [PC -> Seq([pc : PC, strategy : Strategy])]

VARIABLES
  status,           \* What unifying with an equal block in the trace, and in
                    \* the index, gives; "none" if there is none in the index.
  block,            \* All blocks made so far; a block is its number.
  blocks,           \* Trace::blocks.
  first_new_block,  \* Trace::first_new_block, 0 for nullptr.
  generation,
  has_pending_request,
  phase,            \* Where the driver is.
  kind,             \* Of the request: direct, indirect or entry point.
  cursor, changed,  \* MaterializeDirectBlocks: its loop and its result.
  again,            \* Two calls of MaterializeRequestedBlocks in a row.
  num_iterations, stop,
  requests,         \* Bound: how many requests tools have made.
  allocated         \* Meta-data that has been made and not been deleted.

trace == <<block, blocks, first_new_block, generation>>
loop == <<cursor, changed, again>>
driver == <<num_iterations, stop, requests>>
vars == <<status, trace, has_pending_request, phase, kind, loop, driver, allocated>>

\* The entry block is the first block (AddEntryBlock).
entry_block == 1
Freed == [class |-> "freed", pc |-> EntryPC, meta |-> 0, succs |-> << >>,
          strategy |-> Later, materialized |-> 0, generation |-> 0, comparable |-> FALSE]
NewBlock(class, pc, meta, succs) ==
  [Freed EXCEPT !.class = class, !.pc = pc, !.meta = meta, !.succs = succs,
                !.generation = generation, !.comparable = TRUE]
\* A DirectBlock owns new meta-data, which is named after the block.
NewDirectBlock(pc, number, strategy) ==
  [NewBlock("direct", pc, number, << >>) EXCEPT !.strategy = strategy]

\* The meta-data that newly made blocks have.
Metas(new_blocks) == {new_blocks[i].meta : i \in DOMAIN new_blocks} \ {0}

IsDirect(b) == block[b].class = "direct"

\* The elements of seq that are in S, in their order.
Keep(seq, S) ==
  LET Kept[i \in 0..Len(seq)] ==
        IF i = 0 THEN << >>
        ELSE IF seq[i] \in S THEN Append(Kept[i - 1], seq[i]) ELSE Kept[i - 1]
  IN  Kept[Len(seq)]

\* list, and behind it the elements of seq that it does not have yet.
AppendNew(list, seq) ==
  LET Appended[i \in 0..Len(seq)] ==
        IF i = 0 THEN list
        ELSE LET l == Appended[i - 1] IN IF Contains(l, seq[i]) THEN l ELSE Append(l, seq[i])
  IN  Appended[Len(seq)]
-----------------------------------------------------------------------------
\* DecodeInstructionList, for a block with number n: the block and its targets.
\* The strategy of a decoded block is history: the request it comes from.
DecodeInstructionList(pc, meta, n, strategy) ==
  <<[NewBlock("decoded", pc, meta, [i \in DOMAIN Succ[pc] |-> n + i]) EXCEPT !.strategy = strategy]>>
  \o [i \in DOMAIN Succ[pc] |-> NewDirectBlock(Succ[pc][i].pc, n + i, Succ[pc][i].strategy)]

\* AdaptToBlock.
AdaptToBlock(pc, meta, existing_block) ==
  NewBlock("compensation", pc, meta, <<existing_block>>)

\* RequestIndexedBlock: the blocks it makes, none if it finds nothing.
RequestIndexedBlock(pc, meta, n) ==
  CASE status[pc].index = "accept" -> <<NewBlock("cached", pc, 0, << >>)>>
    [] status[pc].index = "adapt"  -> <<AdaptToBlock(pc, meta, n + 1),
                                        NewBlock("cached", pc, 0, << >>)>>
    [] OTHER -> << >>

Init ==
  /\ status \in [PC -> [index : {"none", "accept", "adapt"},
                        trace : {"accept", "adapt", "reject"}]]
  /\ block = << >> /\ blocks = << >> /\ first_new_block = 0 /\ generation = 0
  /\ has_pending_request = FALSE
  /\ phase = "enter"
  /\ kind \in {"direct", "indirect", "entry_point"}
  /\ cursor = 0 /\ changed = FALSE /\ again = FALSE
  /\ num_iterations = 1 /\ stop = FALSE /\ requests = 0
  /\ allocated = {1}

\* AddEntryBlock of the first of new_blocks: all of them are added, and new.
AddEntryBlock(new_blocks) ==
  /\ block' = new_blocks
  /\ blocks' = [i \in DOMAIN new_blocks |-> i]
  /\ first_new_block' = 1
  /\ generation' = generation + 1

\* InstrumentDirect, up to the loop: the entry block comes from the index
\* (RequestDirectEntryBlock), is decoded, or goes native
\* (MaterializeDirectEntryBlock, which forgets the requests made by decoding).
EnterDirect ==
  LET indexed == RequestIndexedBlock(EntryPC, 1, 1)
      decoded == IF EntryPC \in NativePC
                 THEN <<AdaptToBlock(EntryPC, 1, 2), NewBlock("native", EntryPC, 0, << >>)>>
                 ELSE DecodeInstructionList(EntryPC, 1, 1, DecodeNow)
      made == IF indexed # << >> THEN indexed ELSE decoded
  IN  /\ phase = "enter" /\ kind = "direct"
      /\ AddEntryBlock(made)
      /\ allocated' = Metas(made)
      /\ phase' = IF made[1].class = "cached" THEN "done" ELSE "tools"
      /\ UNCHANGED <<status, has_pending_request, kind, loop, driver>>

\* InstrumentIndirect and InstrumentEntryPoint, up to the loop
\* (MaterializeIndirectEntryBlock).
EnterIndirect ==
  LET target == IF EntryPC \in NativePC THEN NewBlock("native", EntryPC, 0, << >>)
                ELSE NewDirectBlock(EntryPC, 2, FromIndexOrTrace)
  IN  /\ phase = "enter" /\ kind # "direct"
      /\ AddEntryBlock(<<[AdaptToBlock(EntryPC, 1, 2) EXCEPT !.comparable = FALSE], target>>)
      /\ allocated' = {1} \cup Metas(<<target>>)
      /\ has_pending_request' = (EntryPC \notin NativePC)
      /\ phase' = IF kind = "indirect" THEN "tools" ELSE "entry_tools"
      /\ UNCHANGED <<status, kind, loop, driver>>
-----------------------------------------------------------------------------
\* RequestBlock: the larger strategy wins.
Request(b, strategy) == [block[b] EXCEPT !.strategy = Max({@, strategy})]

\* A tool calls RequestBlock, from InstrumentControlFlow or InstrumentEntryPoint.
RequestBlock(b, strategy) ==
  /\ phase \in {"tools", "entry_tools"} /\ requests < MaxRequests
  /\ IsDirect(b)
  /\ strategy > block[b].strategy
  /\ block' = [block EXCEPT ![b] = Request(b, strategy)]
  /\ has_pending_request' = TRUE
  /\ requests' = requests + 1
  /\ UNCHANGED <<status, blocks, first_new_block, generation, phase, kind, loop,
                 num_iterations, stop, allocated>>

\* MaterializeRequestedBlocks begins.
BeginMaterialize(twice) ==
  /\ phase' = "materialize"
  /\ first_new_block' = 0
  /\ cursor' = 1 /\ changed' = FALSE /\ again' = twice

EndEntryTools ==
  /\ phase = "entry_tools"
  /\ BeginMaterialize(FALSE)
  /\ has_pending_request' = FALSE
  /\ UNCHANGED <<status, block, blocks, generation, kind, driver, allocated>>

\* FinalizeControlFlow: whether it requests anything, and the requests.
CanFinalize == \E b \in ToSet(blocks) : IsDirect(b) /\ block[b].strategy = Later
Finalized == [b \in DOMAIN block |-> IF b \in ToSet(blocks) /\ IsDirect(b)
                                     THEN Request(b, FromIndexOrTraceOnly) ELSE block[b]]

\* InstrumentControlFlow: every tool has had its turn, and the loop goes on:
\* the last round is over, or nothing is left to request.
EndInstrumentControlFlow ==
  /\ phase = "tools"
  /\ stop \/ (~has_pending_request /\ ~CanFinalize)
  /\ phase' = "finish"
  /\ UNCHANGED <<status, trace, has_pending_request, kind, loop, driver, allocated>>

\* Nothing is requested: blocks that exist already are taken, and the
\* increment of the loop calls MaterializeRequestedBlocks once more.
FinalizeControlFlow ==
  /\ phase = "tools" /\ ~stop /\ ~has_pending_request /\ CanFinalize
  /\ block' = Finalized
  /\ stop' = TRUE
  /\ BeginMaterialize(TRUE)
  /\ has_pending_request' = FALSE
  /\ UNCHANGED <<status, blocks, generation, kind, num_iterations, requests, allocated>>

\* Requests are pending, and the limit may be reached.
ContinueControlFlow ==
  /\ phase = "tools" /\ ~stop /\ has_pending_request
  /\ num_iterations' = num_iterations + 1
  /\ stop' = (num_iterations + 1 >= MaxIterations)
  /\ block' = IF num_iterations + 1 >= MaxIterations THEN Finalized ELSE block
  /\ BeginMaterialize(FALSE)
  /\ has_pending_request' = FALSE
  /\ UNCHANGED <<status, blocks, generation, kind, requests, allocated>>
-----------------------------------------------------------------------------
\* The search of MaterializeFromTrace among the blocks that are eligible: the
\* block that b can become, 0 if there is none.  A direct block stands for what
\* it has become.  The search runs backwards and stops at the first block that
\* is accepted; of those that need adapting, it takes the one it meets last.
Search(b, Eligible(_)) ==
  LET candidates == [i \in DOMAIN blocks |-> IF IsDirect(blocks[i])
                                             THEN block[blocks[i]].materialized ELSE blocks[i]]
      Match(c) == /\ c # 0 /\ block[c].class \in {"decoded", "compensation", "cached"}
                  /\ Eligible(c) /\ block[c].pc = block[b].pc
      found == {i \in DOMAIN blocks : Match(candidates[i])}
  IN  IF status[block[b].pc].trace = "reject" \/ found = {} THEN 0
      ELSE candidates[IF status[block[b].pc].trace = "accept" THEN Max(found) ELSE Min(found)]

\* Mutant: every block is comparable.
MaterializeFromAny(b) == Search(b, LAMBDA c : TRUE)

\* MaterializeFromTrace.
MaterializeFromTrace(b) == Search(b, LAMBDA c : block[c].comparable)

\* What MaterializeBlock does with a direct block: the blocks it makes, the one
\* that takes its place (0 if none does), and whether its meta-data is kept by
\* it, given to a new block or deleted.
Outcome(b) ==
  LET d == block[b]
      n == Len(block) + 1
      request == IF d.pc \in NativePC THEN ExecuteNatively ELSE d.strategy
      indexed == IF request \in {FromIndexOrTrace, FromIndexOrTraceOnly}
                 THEN RequestIndexedBlock(d.pc, d.meta, n) ELSE << >>
      existing == IF request \in {FromIndexOrTrace, FromIndexOrTraceOnly, FromTrace}
                  THEN MaterializeFromTrace(b) ELSE 0
      Made(new, by) == [new |-> new, by |-> by]
  IN  IF request = ExecuteNatively
      THEN Made(<<NewBlock("native", d.pc, 0, << >>)>>, n)
      ELSE IF indexed # << >> THEN Made(indexed, n)
      ELSE IF existing # 0 /\ status[d.pc].trace = "accept" THEN Made(<< >>, existing)
      ELSE IF existing # 0 THEN Made(<<AdaptToBlock(d.pc, d.meta, existing)>>, n)
      ELSE IF request = FromIndexOrTraceOnly THEN Made(<< >>, 0)
      ELSE Made(DecodeInstructionList(d.pc, d.meta, n, request), n)

\* CanMaterializeBlock.
CanMaterializeBlock(b) == /\ IsDirect(b)
                          /\ block[b].materialized = 0
                          /\ block[b].strategy \notin {Later, InFuture}

\* The direct block afterwards: it cannot be materialized again, and its
\* meta-data is gone if a block takes its place.
Materialized(b, out) ==
  [block EXCEPT ![b].strategy = InFuture, ![b].materialized = out.by,
                ![b].meta = IF out.by = 0 THEN @ ELSE 0]

\* MaterializeDirectBlocks, one round of its loop: MaterializeBlock.  New blocks
\* are appended to the list that the loop runs over.
MaterializeBlock ==
  /\ phase = "materialize" /\ cursor <= Len(blocks)
  /\ cursor' = cursor + 1
  /\ LET b == blocks[cursor]
         out == Outcome(b)
     IN  IF ~CanMaterializeBlock(b)
         THEN UNCHANGED <<block, blocks, changed, allocated, has_pending_request>>
         ELSE /\ block' = Materialized(b, out) \o out.new
              /\ blocks' = blocks \o [i \in DOMAIN out.new |-> Len(block) + i]
              /\ changed' = (changed \/ out.by # 0)
              /\ allocated' = Metas(out.new) \cup
                   IF out.by = 0 THEN allocated ELSE allocated \ {block[b].meta}
              /\ has_pending_request' =
                   (has_pending_request \/ \E i \in DOMAIN out.new :
                      out.new[i].class = "direct" /\ out.new[i].strategy # Later)
  /\ UNCHANGED <<status, first_new_block, generation, phase, kind, again, driver>>

\* Mutant: control flow is not relinked.
RelinkNothing == block

\* RelinkCFIs: blocks lead to what their direct successors have become.
RelinkCFIs ==
  [b \in DOMAIN block |-> [block[b] EXCEPT !.succs =
     [i \in DOMAIN @ |-> IF block[@[i]].materialized # 0 THEN block[@[i]].materialized ELSE @[i]]]]

\* RemoveUnreachableBlocks: the list in the order in which the blocks are
\* reached, old ones before new ones, and the rest deleted with its meta-data.
Reached(blk) ==
  LET Visited[i \in 0..Len(blk)] ==
        IF i = 0 THEN <<entry_block>>
        ELSE LET list == Visited[i - 1]
             IN  IF i > Len(list) THEN list ELSE AppendNew(list, blk[list[i]].succs)
  IN  Visited[Len(blk)]

RemoveUnreachableBlocks(blk) ==
  LET reached == Reached(blk)
      New == {b \in DOMAIN blk : blk[b].generation >= generation}
      new == Keep(reached, New)
      gone == ToSet(blocks) \ ToSet(reached)
  IN  /\ blocks' = Keep(reached, DOMAIN blk \ New) \o new
      /\ first_new_block' = IF new = << >> THEN 0 ELSE new[1]
      /\ block' = [b \in DOMAIN blk |-> IF b \in gone THEN Freed ELSE blk[b]]
      /\ allocated' = allocated \ {blk[b].meta : b \in gone}

\* The end of MaterializeRequestedBlocks.
EndMaterialize ==
  /\ phase = "materialize" /\ cursor > Len(blocks)
  /\ IF changed THEN RemoveUnreachableBlocks(RelinkCFIs)
     ELSE UNCHANGED <<block, blocks, first_new_block, allocated>>
  /\ generation' = generation + 1
  /\ phase' = IF again THEN "again" ELSE "tools"
  /\ UNCHANGED <<status, has_pending_request, kind, loop, driver>>

\* The second of two calls.
MaterializeAgain ==
  /\ phase = "again"
  /\ BeginMaterialize(FALSE)
  /\ has_pending_request' = FALSE
  /\ UNCHANGED <<status, block, blocks, generation, kind, driver, allocated>>

\* The last RemoveUnreachableBlocks.
Finish ==
  /\ phase = "finish"
  /\ RemoveUnreachableBlocks(block)
  /\ phase' = "done"
  /\ UNCHANGED <<status, generation, has_pending_request, kind, loop, driver>>

Next == \/ EnterDirect \/ EnterIndirect \/ EndEntryTools
        \/ EndInstrumentControlFlow \/ FinalizeControlFlow \/ ContinueControlFlow
        \/ MaterializeBlock \/ EndMaterialize \/ MaterializeAgain \/ Finish
        \/ \E b \in ToSet(blocks), strategy \in ToolStrategy : RequestBlock(b, strategy)

Spec == Init /\ [][Next]_vars
-----------------------------------------------------------------------------
(* Properties.                                                             *)

\* When tools look at a trace, and when it is compiled, all its blocks lead to
\* blocks of the trace, none of them to a direct block that has become another
\* one, and all can be reached from the entry block.  Two of them are decoded from
\* the same code only if the second was to be decoded in any case, or tools refuse
\* to unify them.
TraceClosed ==
  phase \in {"tools", "done"} =>
    \A b \in ToSet(blocks) :
      /\ \A s \in ToSet(block[b].succs) : s \in ToSet(blocks) /\ block[s].materialized = 0
      /\ b \in ToSet(Reached(block))
      /\ \A c \in ToSet(blocks) :
           (b < c /\ block[b].pc = block[c].pc /\ block[b].class = "decoded" /\ block[c].class = "decoded")
             => block[c].strategy = DecodeNow \/ status[block[b].pc].trace = "reject"

\* All meta-data that there is belongs to one block of the trace: nothing is
\* deleted twice, used after it was deleted, or leaks, while blocks turn into
\* other blocks.
MetaOwnedOnce ==
  /\ phase # "enter" => allocated = {block[b].meta : b \in ToSet(blocks)} \ {0}
  /\ \A b, c \in ToSet(blocks) : block[b].meta = block[c].meta /\ b # c => block[b].meta = 0

\* Compensation blocks lead to other code in the end, and never to each other in
\* a circle: this is what is_comparable is for.
CompensationEnds ==
  LET adapters == {b \in ToSet(blocks) : block[b].class = "compensation"}
  IN  ~\E circle \in SUBSET adapters :
         circle # {} /\ \A b \in circle : block[b].succs[1] \in circle
=============================================================================
