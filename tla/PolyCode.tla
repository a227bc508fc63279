------------------------------ MODULE PolyCode ------------------------------
(***************************************************************************)
(* The poly_code client: which types of heap objects a block accesses.     *)
(* Wrapped allocators (poly_code/client.cc) ask for the id of a type, a    *)
(* return address and a size (watchpoints/type_id.cc), and put it into the *)
(* high bits of the pointer (watchpoints/client.cc); instrumented code     *)
(* that uses such a pointer adds the id to the meta-data of its block.     *)
(* Threads do all of this at once.                                         *)
(***************************************************************************)
EXTENDS Integers, Sequences, SequencesExt, FiniteSetsExt

CONSTANTS
  Thread,
  Site,           \* Return addresses of calls to allocators.
  ListOf,         \* The list of gTypeTable that a return address hashes to.
  NumBytes,       \* Sizes of allocations.
  Block,          \* Blocks that are instrumented.
  FirstBlock,
  NumTaints,      \* 2^15: what the high 16 bits of a pointer hold besides the mark.
  HalfAddrs,      \* 2^47: the lower half of the other 48, the addresses of user space.
  Taken,          \* How many ids have been given out before.
  MaxObjects,     \* Most objects: a bound of the model.
  NoType

VARIABLES
  gTypes,         \* The type of each id.
  gNextTypeId,
  types,          \* The lists of gTypeTable.
  writer,         \* Who has written-locked a list, or NoType.
  type_ids,       \* type_id + 1 of what a block has accessed; NoType: no block yet.
  job,            \* What a thread is doing.
  objects,        \* Pointers that the application has, with the type they are of.
  next_addr,      \* The allocator's next address.
  accessed        \* The types that a block has accessed.

polyVars == <<gTypes, gNextTypeId, types, writer, type_ids, job, objects, next_addr, accessed>>
table == <<gTypes, gNextTypeId, types, writer>>
log == <<type_ids, accessed>>

kMaxWatchpointTypeId == NumTaints - 1
NumAddrs == 2 * HalfAddrs
List == {ListOf[s] : s \in Site}
Idle == [pc |-> "idle", type |-> NoType, id |-> 0, block |-> FirstBlock, pointer |-> 0]

\* TypeIdFor identifies a type by the return address and the order of the size.
SizeOrder(bytes) == IF bytes = 0 THEN 0 ELSE CHOOSE n \in 0..bytes : 2^n <= bytes /\ bytes < 2^(n + 1)

\* TaintAddress, UntaintAddress, IsTaintedAddress and ExtractTaint, in user space:
\* the lowest of the high bits marks the pointer.
TaintAddress(addr, index) ==
  (((2 * index) % (2 * NumTaints)) + 1) * NumAddrs + (addr % NumAddrs)
UntaintAddress(addr) == addr % NumAddrs
IsTaintedAddress(addr) == (addr \div NumAddrs) % 2 # (addr \div HalfAddrs) % 2
ExtractTaint(addr) == addr \div (2 * NumAddrs)

\* The types that have ids are in lists that no site of the model hashes to.
OtherType(i) == [ret_address |-> i, size_order |-> 0]

Init ==
  /\ gTypes = [i \in 0..kMaxWatchpointTypeId |-> IF i < Taken THEN OtherType(i) ELSE NoType]
  /\ gNextTypeId = Taken
  /\ types = [l \in List |-> << >>]
  /\ writer = [l \in List |-> NoType]
  /\ type_ids = [b \in Block |-> IF b = FirstBlock THEN {} ELSE {NoType}]
  /\ job = [t \in Thread |-> Idle]
  /\ objects = {} /\ next_addr = 1
  /\ accessed = [b \in Block |-> {}]
-----------------------------------------------------------------------------
(* The wrapper of an allocator, and TypeIdFor.                             *)

MyList(t) == ListOf[job[t].type.ret_address]
FindType(t) == {types[MyList(t)][i] : i \in {j \in DOMAIN types[MyList(t)] :
                                               gTypes[types[MyList(t)][j]] = job[t].type}}
Goto(t, pc) == job' = [job EXCEPT ![t].pc = pc]
Got(t, id) == job' = [job EXCEPT ![t].pc = "got", ![t].id = id]

Allocate(t) ==
  /\ job[t].pc = "idle" /\ next_addr <= MaxObjects
  /\ \E s \in Site, n \in NumBytes :
       job' = [job EXCEPT ![t] = [Idle EXCEPT !.pc = "find",
                 !.type = [ret_address |-> s, size_order |-> SizeOrder(n)]]]
  /\ UNCHANGED <<table, log, objects, next_addr>>

\* Under the read lock.
FindTypeId(t) ==
  /\ job[t].pc = "find" /\ writer[MyList(t)] = NoType
  /\ IF FindType(t) = {} THEN Goto(t, "create") ELSE \E id \in FindType(t) : Got(t, id)
  /\ UNCHANGED <<table, log, objects, next_addr>>

\* Mutant: no second look under the write lock.
CreateUnseen(t) ==
  /\ job[t].pc = "create" /\ writer[MyList(t)] = NoType
  /\ writer' = [writer EXCEPT ![MyList(t)] = t]
  /\ Goto(t, "fetch")
  /\ UNCHANGED <<gTypes, gNextTypeId, types, log, objects, next_addr>>

\* CreateType: the write lock, and another look.
CreateType(t) ==
  /\ job[t].pc = "create" /\ writer[MyList(t)] = NoType
  /\ IF FindType(t) = {}
     THEN writer' = [writer EXCEPT ![MyList(t)] = t] /\ Goto(t, "fetch")
     ELSE UNCHANGED writer /\ \E id \in FindType(t) : Got(t, id)
  /\ UNCHANGED <<gTypes, gNextTypeId, types, log, objects, next_addr>>

\* gNextTypeId is shared by all lists, and only ever grows.
FetchTypeId(t) ==
  /\ job[t].pc = "fetch"
  /\ gNextTypeId' = gNextTypeId + 1
  /\ IF kMaxWatchpointTypeId <= gNextTypeId
     THEN /\ Got(t, kMaxWatchpointTypeId)
          /\ writer' = [writer EXCEPT ![MyList(t)] = NoType]
     ELSE /\ job' = [job EXCEPT ![t].pc = "link", ![t].id = gNextTypeId]
          /\ UNCHANGED writer
  /\ UNCHANGED <<gTypes, types, log, objects, next_addr>>

LinkType(t) ==
  /\ job[t].pc = "link"
  /\ gTypes' = [gTypes EXCEPT ![job[t].id] = job[t].type]
  /\ types' = [types EXCEPT ![MyList(t)] = <<job[t].id>> \o @]
  /\ writer' = [writer EXCEPT ![MyList(t)] = NoType]
  /\ Goto(t, "got")
  /\ UNCHANGED <<gNextTypeId, log, objects, next_addr>>

\* RETURN_TAINTED_ADDRESS.
ReturnTainted(t) ==
  /\ job[t].pc = "got" /\ next_addr <= MaxObjects
  /\ objects' = objects \cup {[pointer |-> TaintAddress(next_addr, job[t].id), type |-> job[t].type]}
  /\ next_addr' = next_addr + 1
  /\ job' = [job EXCEPT ![t] = Idle]
  /\ UNCHANGED <<table, log>>

\* The wrapper of realloc: another address, for the same type.
Reallocate(t, o) ==
  /\ job[t].pc = "idle" /\ next_addr <= MaxObjects /\ IsTaintedAddress(o.pointer)
  /\ UntaintAddress(o.pointer) \in 1..(next_addr - 1)
  /\ objects' = (objects \ {o}) \cup {[pointer |-> TaintAddress(next_addr, ExtractTaint(o.pointer)),
                                       type |-> o.type]}
  /\ next_addr' = next_addr + 1
  /\ UNCHANGED <<table, log, job>>
-----------------------------------------------------------------------------
(* Instrumented code, and TaintBlock.                                      *)

Exists(b) == type_ids[b] # {NoType}

Accessed(b, type) == accessed' = [accessed EXCEPT ![b] = @ \cup {type}]

\* The watchpoint code calls TaintBlock only for a marked pointer.
Access(t, o, b) ==
  /\ job[t].pc = "idle" /\ Exists(b) /\ IsTaintedAddress(o.pointer)
  /\ job' = [job EXCEPT ![t] = [pc |-> "taint", type |-> o.type, id |-> 0, block |-> b,
                                 pointer |-> o.pointer]]
  /\ UNCHANGED <<table, log, objects, next_addr>>

TypeIdOf(t) == ExtractTaint(job[t].pointer) + 1

\* Under the read lock; and under the write lock, Add of the set.
CheckBlock(t) ==
  /\ job[t].pc = "taint"
  /\ IF TypeIdOf(t) \in type_ids[job[t].block]
     THEN Accessed(job[t].block, job[t].type) /\ job' = [job EXCEPT ![t] = Idle]
     ELSE Goto(t, "add") /\ UNCHANGED accessed
  /\ UNCHANGED <<table, type_ids, objects, next_addr>>
TaintBlock(t) ==
  /\ job[t].pc = "add"
  /\ type_ids' = [type_ids EXCEPT ![job[t].block] = @ \cup {TypeIdOf(t)}]
  /\ Accessed(job[t].block, job[t].type)
  /\ job' = [job EXCEPT ![t] = Idle]
  /\ UNCHANGED <<table, objects, next_addr>>

\* A block whose meta-data is a copy of another one's, while that one is in use.
CopyMetaData(b, c) ==
  /\ Exists(b) /\ ~Exists(c)
  /\ type_ids' = [type_ids EXCEPT ![c] = type_ids[b]]
  /\ accessed' = [accessed EXCEPT ![c] = accessed[b]]
  /\ UNCHANGED <<table, job, objects, next_addr>>

Next ==
  \/ \E t \in Thread :
       \/ Allocate(t) \/ FindTypeId(t) \/ CreateType(t) \/ FetchTypeId(t) \/ LinkType(t)
       \/ ReturnTainted(t) \/ CheckBlock(t) \/ TaintBlock(t)
       \/ \E o \in objects : Reallocate(t, o) \/ \E b \in Block : Access(t, o, b)
  \/ \E b, c \in Block : CopyMetaData(b, c)

Spec == Init /\ [][Next]_polyVars
-----------------------------------------------------------------------------
(* Properties.                                                             *)

IdOf(type) == IF \E i \in DOMAIN gTypes : gTypes[i] = type
              THEN Min({i \in DOMAIN gTypes : gTypes[i] = type}) ELSE kMaxWatchpointTypeId

\* What the log says at exit: the ids of a block are those of the types it has
\* accessed, each type having one id, or the last one, which stands for all types
\* that came when the ids had run out.
TypesRecorded ==
  \A b \in Block : Exists(b) => type_ids[b] = {IdOf(x) + 1 : x \in accessed[b]}
=============================================================================
