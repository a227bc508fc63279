# Granary: a TLA+ verification project

Granary is a dynamic binary translator: it takes over the threads of a program
(or of the Linux kernel), decodes the program's basic blocks, lets *tools*
instrument them, compiles the result into a *code cache*, and keeps the threads
inside that cache by sending every control transfer it has not seen yet through
an *edge*. This directory holds TLA+ models of the parts of Granary whose
correctness depends on state, on concurrency or on a tricky algorithm, the TLC
configurations that check them, and proofs that TLAPS checks. Paths below are
relative to `src/`. `PROJECT.json` maps every definition to the lines it models.

## 1. Inventory

| Part | Source | State | Operations | What makes it correct |
|---|---|---|---|---|
| Ticket lock | `granary/base/lock.*` | two ticket counters | Acquire, Release | mutual exclusion, FIFO, no starvation, also when tickets wrap |
| Reader/writer lock | `granary/base/lock.*` | one word: number of readers, writer's bit | (Try)ReadAcquire, (Try)WriteAcquire, releases | readers share, a writer is alone and is not overtaken while it drains |
| Futex lock | `os/linux/user/lock.*` | one word, the kernel's wait queue | Acquire, Release | mutual exclusion, no lost wake-up |
| Page allocators | `os/memory.*` | counter of fresh pages, bit set of freed ones | AllocatePages, FreePages, ExitHeap | no page is handed out twice |
| Slab allocators (`operator new`) | `granary/base/new.*` | slab list, free list, poison in freed objects | Allocate, Free, destructor | no object twice, none lost, the poison check never fails |
| Code cache | `granary/cache.*` | current slab and offset of each cache | AllocateCode, transactions, ExitCodeCache | pieces of code are disjoint and are never overwritten |
| Code cache index | `granary/index.*`, `translate.cc` | two-level table of meta-data lists, log | lookup, insert, log, exit | only encoded code is found, nothing is lost, one owner per object |
| Direct edges | `granary/entry.cc`, `code/edge.*`, `context.cc`, `arch/x86-64/edge.cc` | `entry_target_pc`, a union of meta-data and list link, lock, patched branch | enter, translate, publish, patch, exit | threads only run complete code of the right block; every edge is resolved |
| Indirect edges | same | map of out-edges, chain of compare-and-jump code | branch, walk, enter, prepend | walks end in complete code of the right target |
| Block factory, traces | `granary/cfg/{factory,trace,block}.cc`, `instrument.cc` | blocks of a trace, requests, generations | request, materialise, relink, remove, finalise | the trace stays closed, meta-data has one owner, compensation code ends |
| Assembler | `granary/code/assemble/*`, `arch/x86-64/assemble/*` | graph of fragments, partitions, flag zones, homes of virtual registers, slots | build, partition, analyse, save, schedule, order, connect | the code does what the trace does and hides instrumentation: flags, registers and stack are the application's |
| Compiler | `granary/code/compile.cc` | sizes, addresses | stage, relativise, encode | jumps reach their targets |
| Module ranges | `os/module.*` | list of address ranges | add, remove, look up | right offsets, nothing forgotten |
| Tool manager | `granary/tool.*`, `client.cc` | names, ids, dependencies, layout | register, request, activate, exit | tools run once, after what they depend on |
| Block meta-data | `granary/metadata.*`, `app.*` | registered parts, layout, objects | register, allocate, hand over, delete, exit | one layout for all objects, each part in its place, nothing deleted twice |
| Start and exit | `granary/init.cc`, `exit.cc`, `context.*` | exit lock, context | init, exit | exit waits for translators and keeps them out |
| Decoder, manglers | `arch/x86-64/{decode,early_mangle,instruction,builder}.*`, `assemble/1_late_mangle.cc`, `9_allocate_slots.cc` | the instruction, operand by operand | decode, mangle early and late, adjust to a frame | what comes of an instruction does what the instruction does |
| Register names and numbers | `arch/x86-64/register.cc`, `granary/code/register.*`, `cfg/trace.cc` | bytes of a register, three ranges of numbers | decode, widen, choose a home, encode; allocate, free | a register keeps its bytes; numbers in use are apart |
| Inline assembly | `0_compile_inline_assembly.cc`, `lir.cc`, `inline_assembly.*` | scopes with reference counts, variables, pieces of text | make, inline, unlink, compile | addresses are the text's; scopes live as long as needed; variables are shared |
| Calls of tools' functions | `arch/x86-64/{call,context}.cc`, `context.cc` | wrappers of functions, saved registers | inline call, context call | arguments arrive, everything else is kept |
| Recoverable exceptions | `arch/x86-64/exception.cc`, `os/linux/arch/x86-64/exception*` | emulation functions, recovery addresses | emulate, fault, recover | the emulation is the instruction; a fault reaches its fixup |
| Containers | `granary/base/{list,tiny_*,disjoint_set}.h` | links, chunks, parents | insert, remove, extend, add, union | they are sequences, sets, maps and partitions of sets |
| Options | `granary/base/option.*` | option string, tables that point into it, list of options | register, initialise, parse | the command line is obeyed |
| Kernel module | `os/linux/kernel/*` | commands seen, system call table | load, init, attach, detach, exit | no call into a code cache that is gone |
| Clients | `clients/*` | types of objects, shadow memory, wrappers, samples, hooks | per client | shared tables stay consistent while threads use them |
| Logging, strings, per-thread slots, third-party code | `os/linux/*/logging.cc`, ... | | | pure output, tables, or not Granary's own |

**How they interact.** A thread in the code cache takes a branch to an edge
without any lock. The edge's stub enters Granary (`entry.cc`) under the exit
lock (read side) and the edge's lock; Granary calls `Translate`, which looks the
target up in the index, otherwise lets the block factory and the tools build a
trace, the assembler turn it into fragments, the compiler place them in code
from the code cache, and inserts the meta-data into the index. The address is
then published in the edge, and the branch may be patched. All objects come from
slab allocators on top of the page allocators; the code cache takes its slabs
from a page allocator of its own. The tool manager's order of tools is the order
in which they see a trace; module ranges turn addresses into meta-data. Tools add
calls and inline assembly to a trace; these and the manglers use as many virtual
registers as they like, which the assembler maps to the processor's.

**What is hard.** Threads read the index, `entry_target_pc`, the chain of
out-edges and the code itself with no lock while another thread changes them.
Locks are used around parts of a structure only (the page allocator's counter,
the first level of the index, poisoning). Locks are hand-made and must survive
wrap-around, barging and lost wake-ups. Lists are relinked while they are walked
(relinking of blocks, the range zipper). The assembler is a pipeline of graph
algorithms whose stages rely on each other's invariants. A stack pointer that
Granary moves for its own slots must stay invisible to instructions that use it.
The kernel module starts and ends Granary repeatedly, and static data survives.
Clients keep tables that instrumented code changes in all threads at once, some
of them without any lock. `PROJECT.json` lists
the hazards one by one, at their lines, with the properties that cover them.

## 2. Modules

Every component is a module; an `MC` module gives constants their values and
composes what is run together. Components in one run that do not interact share
a specification with a frozen variable (`kind` or `part`) that selects one of
them, among those that the constant `Parts` names; each is explored separately,
the others stay in their initial state. None of these compositions claims anything about an interaction; interactions are
inside the component modules (the exit lock in both edges, index and translator
in `CodeCacheIndex`, edges and cache and index in `DirectEdge`, all stages in
`Assembler`, decoder, both manglers and the frame in `Mangler`, options and
commands in `KernelSessions`).

| Module | Models | State → code | Actions → code |
|---|---|---|---|
| `SpinLock` | ticket lock | `next_ticket`, `serving_ticket`; each thread's ticket | `TakeTicket` (fetch_add), `Spin` (the load that ends the loop), `Release` |
| `FifoLock` | abstract: a queue of threads | | |
| `FutexLock` | `os::Lock` | the word, threads in the kernel's queue by their `pc` | each CAS, exchange, store and futex call is one action; `SpuriousWake` is a signal |
| `ReaderWriterLock` | all six operations | the word; what each thread has loaded | `ReadLoad`/`ReadCAS`, `WriteLoad`/`WriteCAS`/`Drain`, `TryWriteAcquire`, releases |
| `SharedMutex` | abstract: readers or one writer; without readers, the mutex that `FutexLock` implements; also used as the exit lock by the edges | | |
| `PageAllocator` | `PageAllocator` | counter, bit set (slots of `SlotBits` bits) | `Bump` (atomic), `AllocatePagesSlow` (locked scan), `FreePages`, `ExitHeap` |
| `PageHeap` | abstract: owned, disjoint runs of pages | | |
| `SlabAllocator` | `operator new` | offsets, lists, contents of objects | take, unlink, poison and link are separate steps, as the locks are |
| `CodeCache` | code caches | slab and offset of each cache, contents | `AllocateInSlab`, `AllocateInNewSlab`, `BeginTransaction`/`EndTransaction`, `ExitCodeCache` |
| `CodeCacheIndex` | index and `Translate` | both levels, locks, log, encoded meta-data | lookup and its parts, `Compile`, `LockSecondLevel`, `Bind`, `Link`, `AddMetaDataToLog`, `ExitIndex` |
| `DirectEdge` | direct edges of a program | edges, their union, code, index, exit lock | stub jump, locks, lookup, assemble, encode, index, publish, patch, exit |
| `NativeExecution` | abstract: threads walk the program's control flow | | |
| `IndirectEdge` | one indirect edge | chain, map, code | walk, compare, enter, instantiate, encode, publish, exit |
| `BlockFactory` | one translation up to the assembler | blocks, their jumps, requests, generation | the entry points, `Request`, materialise step by step, relink, remove, finalise |
| `FragmentBuilder` | assembler stages 2 to 5 | fragments, work list, labels; kinds, live flags, zones, entry and exit fragments | one action per kind of instruction (`ProcessLabel`, `ProcessBranch`, `ProcessCFI`, ...), stragglers, partitioning; then one per pass, each sweep of the data-flow analysis being one |
| `RegisterScheduler` | stages 6, 8, 9 | live registers, homes, slots, frame offsets | one action per pass; each sweep of the data-flow analysis is one; scheduling one register at a time, instruction by instruction |
| `Assembler` | stages 10, 11, `compile.cc`, and a processor | order, jumps, code, `start_pc`; flags, registers, slots and stack of the processor, beside the trace's | ordering step by step, jumps, `EncodeAndFree`; the processor's steps |
| `Mangler` | decoder, early and late mangling, frames, and a processor (external: x86-64 as far as mangling is about it) | the instruction as a list; registers, memory of words, flags, control | decode, mangle late, put into a frame; steps run the result |
| `BlockMetaData` | registration, layout, life of objects | registered parts, layout, slab, holders | register, allocate, hand over, delete, exit |
| `ModuleRanges` | modules and ranges | list of ranges; what was mapped last | `AddRange`, `RemoveRange`, `RemoveRanges` |
| `ToolManager` | tools | tables, dependencies, layout | `AddInstrumentationTool`, `RequestTool`, `ActivateDependency`, `AppendActiveTool`, exit |
| `PolyCode` | types of heap objects in `poly_code` and `watchpoints` | lists of types, ids, blocks' records | allocate, find, create, link, taint, access |
| `ShadowMemory` | `shadow_memory` | structures, sizes, mapping, its lock | register, map once, compute an address |
| `FunctionWrappers` | `wrap_func` | sorted list of wrappers, ids | add, wrap a call, exit |
| `Malcontent` | `malcontent` | shadow words, trackers, samples, monitor | each load, store and exchange of instrumented code; each step of the monitor |
| `SystemCallHooks` | hooks of `user`, `closure.h` | two lists, their locks, translated blocks | add in two stores, walk, system call |
| `Collections` | abstract: sequences, sets, a map, a partition | | |
| `Containers` | lists, tiny vectors, sets and maps, disjoint sets | links; chunks; parents | one action per operation |
| `Registers` | names of registers; numbers of virtual registers | bytes, width, home; three counters | decode, visit, choose, replace, encode; what tools, traces, blocks and late mangling allocate |
| `Exceptions` | emulation of faulting instructions | registers, stack, bytes | one action per instruction of the stubs, `Completes`, `Faults` |
| `ClientCalls` | calls out of the code cache | wrappers, saved registers | one action per instruction kind of the wrapper |
| `InlineAssembly` | inline assembly | the parser's operand; scopes, counts, pieces | the parser's functions; make, inline, unlink, compile |
| `KernelSessions` | options; the kernel module's commands | buffer, tables, list, flags; table of system calls | read, parse, register; the four commands, entry by entry |
| `MCLocks`, `MCMemory`, `MCEdges`, `MCTranslation`, `MCClients`, `MCSupport` | instances; the conjunctions that runs check | | |
| `LockProofs`, `MemoryProofs`, `EdgeProofs`, `TranslationProofs`, `ClientProofs`, `SupportProofs`, `CallProofs` | inductive invariants and proofs about what the `MC` module of that name instantiates (`CallProofs`: `ClientCalls` in `MCSupport`) | | |

What is abstracted: addresses are model values or small numbers; a block is
where it leads, an instruction of the assembler is its position plus what it
does to flags, registers, the stack and control flow; meta-data is its unification
status in the index and a sequence of parts in `BlockMetaData`. The processor of
`Assembler` keeps, for every flag, register and word of the stack, whose value it
is; it runs the encoded code and the trace side by side. The processor of `Mangler`
computes with numbers instead, in a memory of sixteen words, because operands of
mangled instructions are sums. `Exceptions` and `ClientCalls` name every byte or value for
where it comes from.

## 3. Runs

Passing runs (distinct states as TLC counts them):

* **`locks`** (41,835 states, `MCLocks`). Ticket lock: three threads over four
  tickets, so that counters wrap while threads wait. Futex lock: four threads, a
  holder, one that barges in and two that sleep. Reader/writer lock: three
  threads that choose to read, write or try at each call; the count of readers
  uses every value below the writer's bit. Checks that the locks implement
  `FifoLock` and `SharedMutex` (the futex lock with writers only), `NoForgottenSleeper`,
  `NoReaderOvertakesWriter` (no reader gets in between a writer's CAS and its
  release), and `LocksProgress`: every thread gets its ticket's turn, sleepers and
  CAS loops always let someone in, and a writer's drain ends.
* **`memory`** (216,461, `MCMemory`). Two code caches that compete for three
  slabs (`CodeIntact`: pieces are disjoint and written code stays). Seven pages in
  slots of four, so that a run of pages crosses slots, the last slot is not full
  and requests fail (`ImplementsPageHeap`, which includes that the scan of the bit
  set is first fit). Two slabs of two objects and three threads
  (`ObjectsConserved`). The index: two threads and four meta-data objects, namely
  two versions of a block, a block in the same bucket, one in another first level
  (`IndexSound`: only encoded code is found and nothing is lost; `OwnedOnce`).
  Meta-data: three parts of Granary's own and two of tools that register late, which
  fill the table, two sessions (`PartsInPlace`).
* **`edges`** (99,061, `MCEdges`). Two threads and a program whose first block
  has two edges to the second, which loops: two edges are translated at once, by
  different threads, and one may exit meanwhile. One indirect branch with three
  targets: a thread can be anywhere in the chain while another prepends.
  `JumpsAreSafe`, `UnionConsistent`, `ChainSound`; `ImplementsNativeExecution` is
  refinement: whatever happens to edges, threads do what the program does;
  `BranchesResolve`: a branch of either kind gets to its target.
* **`translation`** (534,862, `MCTranslation`). *Blocks*: a program of four
  blocks with a branch whose sides meet, a loop and native code; three rounds and
  two requests, so that a block is requested, found in the index, adapted, found
  in its own trace, and cut off by the limit (`TraceSound`, `CompensationEnds`).
  *Code*: more than two thousand traces (two blocks in all loops; one block with
  branches, labels, system calls, calls, interrupt changes and cache changes in its
  instrumentation; four blocks whose paths part and join, one of them cold; code
  reached by its address only; all short mixtures of a virtual register with the
  application's accesses; pairs of virtual registers). Three general-purpose
  registers, one of which cannot stand beside a high byte, so that registers have to
  be taken from the application; two flags, the overflow flag, which is saved separately, and one
  other. `FollowsTrace`; `InstrumentationHidden`: flags, registers and stack
  pointer are the application's wherever it looks at them. *Instruction*: every
  form of each instruction that is rewritten, in 48 states of the processor, inside
  a frame and outside (`InstructionKept`, `ShiftsKnown`). *Ranges*: one module with
  five addresses: split, shorten, cover, extend (`OffsetsRight`). *Tools*: four
  tools, requirements, command lines of two names, two sessions (`ToolOrder`).
* **`clients`** (1,242,270, `MCClients`). `TypesRecorded`: two of three allocation
  sites share a list and ids run out. `ShadowShared`: two threads instrument the
  first traces at once; up to three structures; two sessions. `WrappersFound`: all
  orders of five wrappers, three of them of one function, over two sessions.
  `ContentionShared`: two threads and the monitor race for the shadow word of a line
  that two objects share. `HooksCalled`: three hooks are added while other threads walk the list.
* **`support`** (689,315, `MCSupport`). `ImplementsCollections`: three lists of four
  elements, two sets and a map over up to three chunks of two, four nodes of
  disjoint sets, compared with `Collections` step by step. `RegistersNamed`: two
  operands out of all rows of registers, high bytes and RSP included; a register that
  is chosen shares no byte with another operand and is none of R8 to R15 beside a high
  byte. `NumbersApart`: four blocks fill the numbers of a trace, with temporaries and
  tools around, and a fifth goes past their end, as in a release build, where
  assertions do not stop it: numbers are not shared unless an assertion has failed. `CallsTransparent`: functions of none, two and six arguments, whose
  operands are the argument registers in any arrangement, and functions that change
  the context. `AddressIsText`: every memory operand of two registers, five scales,
  literal and symbolic displacements. `ScopesSound`: two scopes with three pieces,
  placed, dropped and compiled in any order. `FaultsEmulated`: every shape and width
  of instruction, one that no function emulates included, on registers that the stubs
  use themselves, with a fault or without one, in all tables over four addresses: an
  instruction is emulated exactly if it has an entry and an emulating function, and of
  those with an entry only the others, and the PUSH that reads a segment register's
  source, can fault in the code cache. `GivenIsObeyed`,
  `SyscallsReachLiveCode`: two sessions with all command lines out of
  ten words, one or two at a time; loading, `init`, `attach`, `detach`, `exit` in any
  order, and system calls while the table is half written. An option that is named is
  obeyed in every session; a negation is, unless an entry that an earlier command line
  has left behind names the option; defaults are asked for in the first session.

Runs that show a disagreement between the code and what the repository says
(each is listed under `findings` with the quoted line):

| Run | What it shows |
|---|---|
| `code_cache_index_lost` | the lock of the second level does not cover the first: two threads create the same array and meta-data is lost (`index.cc:193`) |
| `module_ranges_lost` | splitting a range drops all ranges behind it (`module.cc:230`, `list.h:441`) |
| `flags_lost` | the flags analysis can stop one sweep early, since changes that pass through instrumentation are not reported (`4_add_entry_exit_fragments.cc:143-154`) |
| `registers_shared` | a virtual register that is kept in a slot borrows a register that is another one's home, and saves over the application's value in the one slot both have (`8_schedule_registers.cc:139`) |
| `options_stale` | a second `init` with fewer options finds those of the first command line that it did not overwrite, and a stale `--foo` beats a new `--no_foo` (`option.cc:58`) |
| `options_endless` | constructors that run again link the last option twice; the list becomes a circle and a third `init` never ends (`option.cc:247`, `init.cc:49-50`) |

The passing runs are configured around what is known to fail, here and below: in the
index a first-level array has one bucket; `NothingForgotten` is not asked of passing
runs; pairs of virtual registers either both have a home or both live in slots;
traces have neither the shape of `flags_lost` nor those listed below; a LOOP's
target is near; RSP is not pushed inside a frame; there are two sessions, because a
third one does not get past its options. Three properties except what is known to fail
instead: `NumbersApart` what happens behind a failed assertion, `GivenIsObeyed` what an
entry of an earlier command line names, and `FaultsEmulated` the rest of the
destination of a read of 8 or 16 bits, and the low halves of the registers of a faulting
REP MOVS.

### Disagreements without a run

*Index.* The unification status is computed for the list's head and used for another
entry (`index.cc:111`).

*Memory.* `~SlabAllocator` gives the newest slab back once per slab and leaks the
rest (`new.cc:48`).

*Traces and tools.* `factory.h:29-32` describes the smaller of two request
strategies as the one that wins, `RequestBlock` takes the larger. A `DecodeNow`
request for the entry block is dropped (`factory.cc:675`). Blocks of the last
materialisation are never shown to tools as new (`instrument.cc:110`).
`--tools=a,b,a` loses the tool that should come first. The virtual registers of a
trace run out with its fifteenth block and reach those of tools; the assertion at
`trace.cc:93` tells, and only in a debug build.

*Assembler.* `fragment.h:41` calls the fragment graph acyclic, which self-jumping
blocks are not. A tool's branch around a system call leads to two entries of one
partition (`2_build_fragment_list.cc:502`, `9_allocate_slots.cc:78`). A tool's
conditional branch that no flag-writing instruction of the tool precedes lets
`CombineFlagZones` merge application code into the instrumentation's zone (the
clients of the repository always test first, and so do the traces here); so does an
application fragment without flags that becomes instrumentation later. Where hot and
cold code join, live ranges are extended on one side only
(`6_track_virtual_regs.cc:191,209`). A copy between virtual registers inside a cold
fragment, and a push in an unconditional loop to itself, confuse slots and stack
offsets. `PropagateCodeCacheKinds` (`4_add_entry_exit_fragments.cc:427-436`) has no
effect, and stage 7 does nothing.

*Mangling.* A LOOP to a far native target falls into the trap behind it when it is
not taken (`1_late_mangle.cc:140`). PUSH RSP in a frame stores the shifted RSP
(`9_allocate_slots.cc:110`, against the comment at 321-323). A LOOP to the next
instruction is dropped and RCX is not decremented. A RIP-relative operand loses FS or
GS (`decode.cc:235-238`). `MangleTailCall` uses a sign-extended immediate for
addresses from 2^31 to 2^32 (`1_late_mangle.cc:200`). `AddrIsOffsetReachable` has
slack on one side only (`util.h:30-34`). `TryDecodeBytes` always allows the maximal
length (`decode.cc:66`).

*Meta-data.* `indirect_edge_list` is never freed, and the templates of its edges
leak. `os::InitThread` is never called.

*Registers and containers.* `BitSet` shifts `1U` by up to 63. Widening has no effect
on encodings of RSP and turns AH into AL. A one-byte virtual register may be homed in
RBP, RSI or RDI beside AH, where BPL, SIL and DIL cannot be encoded: only R8 to R15
are restricted (`register.cc:269-289`). `TinyMap::Remove` leaves a key uninitialised (nothing
calls it). Wrappers of inline callbacks are kept by function alone
(`context.cc:131`), whatever the number of arguments of a later call.

*Inline assembly.* `InlineBefore` reverses its lines (`lir.cc:85-94`). `[%0+8]` drops
the displacement, an input memory operand loses its segment, and a scope's label that
is inlined twice is defined twice.

*Exceptions.* Emulated reads of 8 and 16 bits, and MOVZX to 16 bits, overwrite the rest
of their destination (`exception_util.asm:186`, `exception.cc:314`). An instruction
that has an entry and no emulating function is executed in the code cache, where its
fault finds no entry (`os/linux/arch/x86-64/exception.cc:320`); so does the PUSH that
reads the operand of MOV to a segment register (`arch/x86-64/exception.cc:72`). After a fault in REP MOVS the low halves of its registers
are zero (`exception.cc:167`). AH is emulated on AL.

*Options and kernel.* An option without a value finds an empty string rather than none.
A string option points into a buffer that the next session overwrites
(`option.cc:253-259`). `exit`
frees the code cache while threads may sleep in translated system calls
(`syscall.c:53`), and `/dev/granary` assumes one writer. `module.c:36` assigns
`init_text_begin` twice.

*Clients.* Exit hooks added after a block's translation are never called behind its
system call (`user/client.cc:166`, against `client.h:58`). `AddShadowStructure`
computes its scale from a size that it decrements, and writes the distance to the next
structure as an 8-bit immediate (`shadow_memory/client.cc:258`). Wrapper ids are not
reset on detach, so that wrappers that are added in another order later can be found
under an id that is not theirs. In `malcontent`, type id 0 is used for "none" and for a type, sample points
are filled without their lock, and a shadow word may be armed late, by a thread of an
earlier round, when the next sample's id is in it already; `ContentionShared` therefore
speaks only of reports whose second access found another thread's mark in the word.
`gMonitorThread` is never assigned.

### Deadlock, bounds, fairness

**Deadlock** is checked in `locks`. The others may stop: the program exits, memory
or the bounded set of code pieces is used up, a translation is finished, a session
ends.

**Bounds.** `Code`, `Slab`, `Array`, `OutEdge` and meta-data objects bound the
number of allocations; `MaxIterations` is the code's own limit made small;
`MaxRequests`, `MaxSessions`, `MaxStarts`, `MaxFlags`, `MaxAddr`, `MaxOffset`,
`MaxAllocations`, `MaxRounds`, `MaxPieces`, `MaxBlocks`, `MaxLength` and
`MaxOptions` bound the environment or stand for the sizes of the code's tables. Each
is large enough for the case named in the comment beside it, and for every property
a mutant of the code violates it within the same bounds.

**Fairness.** Weak fairness on the steps of a thread inside Acquire and Release,
and inside Granary: the operating system schedules every runnable thread, and
nothing in these paths waits for input. The holder of a lock leaves it: critical
sections of Granary are finite. A command that was written to `/dev/granary` is
carried out, since `write` returns only then. No fairness on what the program does:
it need not branch, exit or ask for a lock. That someone enters, rather than freedom
from starvation, is claimed where CAS loops compete; only the ticket lock gives every
thread its turn.

## 4. Proofs

Checked by TLAPS for every value of the constants; the assumptions are also
evaluated by TLC in the runs. 29 of the 39 properties of the passing runs are stated
by a theorem.

| Module | Theorem | Of | From |
|---|---|---|---|
| `LockProofs` | `TicketInvHolds`, `MutualExclusionHolds`, `SpinLockImplementsFifo` | `SpinLock` | `TicketAssumption`: finitely many threads, at most as many as tickets |
| | `HolderInvHolds`, `NoForgottenSleeperHolds`, `FutexLockImplementsMutex` | `FutexLock` | none |
| | `WordInvHolds`, `LockImplementsSharedMutex`, `NoReaderOvertakesWriterHolds` | `ReaderWriterLock` | `LockAssumption`: fewer threads than the writer's bit |
| `MemoryProofs` | `InvHolds`, `CodeStaysIntact` | `CodeCache` | `CodeCacheAssumption`: code is smaller than a slab |
| | `ObjectsConservedHolds` | `SlabAllocator` | `SlabAssumption`: a slab holds an object |
| | `PageAllocatorImplementsPageHeap` | `PageAllocator` | `HeapAssumption`: a slot has bits, nobody asks for no pages |
| | `FoundIsEncodedHolds`, `IndexSoundHolds`, `OwnedOnceHolds`, `RaceNeedsTwoBucketsHolds` | `CodeCacheIndex` | `IndexAssumption`: values are apart; see below |
| | `PartsInPlaceHolds` | `BlockMetaData` | `MetaAssumption`: the table has room for all parts; of two alignments the smaller divides the larger |
| `EdgeProofs` | `JumpsAreSafeHolds`, `UnionConsistentHolds`, `DirectEdgesImplementNative` | `DirectEdge` | `EdgeAssumption`, `UnionAssumption`: any program; values are apart |
| | `ChainSoundHolds` | `IndirectEdge` | `IndirectAssumption`: values are apart |
| `TranslationProofs` | `FactoryHolds`, `TraceSoundHolds`, `CompensationEndsHolds` | `BlockFactory` | `ProgramAssumption`: any program |
| | `OffsetsRightHolds` | `ModuleRanges` | `RangesAssumption`: addresses and offsets are numbers |
| `ClientProofs` | `HooksCalledHolds` | `SystemCallHooks` | `HookAssumption`: values are apart |
| | `ContentionSharedHolds` | `Malcontent` | `SampleAssumption`: a thread's mark is no id of a sample |
| | `TypesRecordedHolds` | `PolyCode` | `TypesAssumption`: objects are at addresses of user space; one id is left for "too many types" |
| | `WrappersFoundHolds` | `FunctionWrappers` | `WrapAssumption`: finitely many wrappers; a function is a module and an offset |
| | `ShadowSharedHolds` | `ShadowMemory` | `ShadowAssumption`: alignments are powers of two, sizes are multiples of them and at most 64 |
| `SupportProofs` | `SyscallsReachLiveCodeHolds` | `KernelSessions` | `KernelAssumption`: none but a type |
| | `NumbersApartHolds` | `Registers` | `NumbersAssumption`: the three ranges are in order |
| | `ScopesSoundHolds` | `InlineAssembly` | `AssemblyAssumption`: variables are numbered; a tool passes finitely many; texts are of statements |
| | `AddressIsTextHolds` | `InlineAssembly` | `OperandAssumption`: no register is written like another token |
| | `RegistersNamedHolds` | `Registers` | `NamesAssumption`: names that are not of general-purpose registers are apart from those |
| `CallProofs` | `CallsTransparentHolds` | `ClientCalls` | `CallsAssumption`: a function has one number of arguments, six at most |

The invariant runs check is seldom inductive. What had to be added, and why:

* *Ticket lock.* Mutual exclusion says nothing against two waiters with one ticket.
  `TicketInv`: the tickets of the active threads are distinct and are exactly those
  from `serving_ticket` on, as many as there are active threads, modulo the width.
  It needs a count, hence the lemmas on cardinality; distances are modulo
  `TicketModulus`, so that the wrap-around is part of the theorem. For `FifoLock` the
  queue is the threads in the order of these distances (`QueueOK`).
* *Futex lock.* `HolderInv`: one holder at most, and the word is not free while
  there is one, including the moment between the two steps of a contended release.
  `NoForgottenSleeper` is inductive on top of types: it names every place where a
  thread on its way accounts for the sleepers. The abstract holder is the thread past
  its winning step.
* *Reader/writer lock.* `WordInv`: the word is the number of readers, plus the bit if
  a thread owns it; there is one owner; inside, it is alone. The action property and
  the refinement both follow.
* *Code cache.* `Inv`: besides `CodeDisjoint` and `CodeIntact`, code in a current slab
  lies below the offset of its cache and no two caches share a slab (`OffsetInv`).
  Disjointness alone does not say why the next piece is free.
* *Slab allocator.* `Places` says for every object of every slab where it is: not cut
  yet, on the free list, in one thread's hand on its way in or out, or given out; the
  free list has no object twice, and each place has its own contents.
* *Page allocator.* `HeapOK`: pages that are owned, free in the bit set or beyond the
  counter do not overlap. The refinement also says that the scan finds the first run
  that fits. The scan is a recursive function over bits; that it finds the first run
  is proved without induction over data, from the well-founded order of numbers: a
  first bit at which the two differ is a contradiction.
* *Index.* `EncodedInv` is enough for "whatever a lookup finds is encoded", with no
  condition. `IndexSound` and `OwnedOnce` are false of the code (`code_cache_index_lost`),
  so their theorems have the condition that no two threads create one first-level array
  at once, `[]NoArrayRace`. `RaceNeedsTwoBucketsHolds` says where the condition can
  fail, for any number of buckets and with no condition of its own: two threads about to
  create one array work on different buckets of it, since the lock of a bucket keeps
  all others of that bucket out. The code has 512 buckets to an array and nothing that
  keeps those apart. `ListInv` says which list an
  object is in, `OwnerInv` who owns it: a thread, a list, the log, or nobody after
  deletion.
* *Direct edges.* `DirectInv`: who holds which lock at which step (`LockInv`); the
  code a thread makes is for its edge's target and nobody else encodes it, and what the
  index has is encoded (`CodeInv`); edges of code that is not encoded lead nowhere
  (`StubInv`). `UnionInv` adds that an edge has its meta-data until it is patched or put
  on the list. The refinement of `NativeExecution` follows: a thread's
  abstract position changes only when it arrives in complete code of the branch's
  target.
* *Indirect edges.* `ChainInv`: from the head, and from wherever a thread walks, all
  that can be reached is encoded and ends in the miss; the chain has exactly the entries
  of the map, each of its own target. A thread that has been through Granary for a
  target has that target ahead (`EntryInv`), so that it enters once.
* *Block factory.* `FactoryInv`: blocks lead to blocks of the trace, and a direct block
  that has become another one leads to it until control flow is relinked (`EdgesInv`);
  outside that moment all are reachable from the first (`ReachInv`); what was decoded
  twice had to be (`DecodedInv`); each object of meta-data has one block (`MetaInv`);
  compensation code leads to older compensation code or to code that ends (`AdaptInv`),
  so that numbers decrease along it. Reachability is a recursive function over steps;
  that it is closed after as many steps as there are blocks is a pigeonhole argument.
* *Address ranges.* `RangesInv`: the list of a module is sorted, its ranges are apart,
  and each agrees with what was last mapped at its addresses. An insertion and a removal
  rebuild the list around a point; the lemmas follow each part of it.
* *Block meta-data.* `MetaDataInv`: the table has the descriptions that have an id, in the
  order of their ids and without a gap, and between sessions none (`TableInv`); once the
  layout is final it has all of them, and the slab is cut for its size (`LayoutInv`);
  objects are at multiples of that size (`ObjectsInv`); the parts that exist are, of this
  session, those of the objects (`SessionInv`), and of each session apart (`FitsInv`).
  That there is room for a new description is a pigeonhole argument. An object keeps the
  alignment of its parts because the largest alignment divides its size and all others
  divide that one. The theorem takes numbers to be unbounded: the code's unsigned
  difference in `InitAllocator` wraps around if one object is larger than a slab, where
  the model has no place for it.
* *Hooks.* `HookInv`: each list is a chain of the hooks added so far, in order, with
  the last one's second store perhaps to come; what a walker has called is a prefix of it,
  and what is due is called or ahead.
* *Contention.* `SampleInv`: a thread's mark in a word means that this thread has
  touched the line (`WordsInv`); an access on record that found a mark is one of two
  threads that have touched the line (`AccessesInv`). The attempt to prove an earlier
  statement of `ContentionShared` failed for a good reason: with three threads and
  three rounds it is false (a thread of an earlier round arms a word that already has
  the next sample's id). The property now says what the report itself can know.
* *Types.* `TypesInv`: a type has one id, and what has an id is in the list of its
  site (`TypeTable`); a thread between its fetch of an id and linking it has the
  list's lock, nobody else has that id, and the type has none yet (`Creating`);
  `Known(x, i)`, that `i` is the id of `x` for good, holds of what threads, pointers and
  records carry. The last id is for good too: once it has been given for a type, no
  thread is linking another id for it.
* *Function wrappers.* `WrapInv`: each wrapper is added once, and those to be added are
  the rest of the order (`OrderInv`); the list has those that were added, by offset within
  a module, those of a function together and in the order of their addition (`SortedInv`);
  the numbers they were given, also in an earlier session, are their places among those of
  their function (`NumbersInv`); a call site has the first (`SiteInv`).
* *Shadow memory.* `ShadowInv`: structures are aligned, apart and within the size so far
  (`PlacesInv`), and each step leads from one structure to the next (`StepsInv`); a line is
  a power of two with room for all of them, unless the assertion has failed (`LineInv`);
  whoever maps has the lock and found nothing mapped, and code is made after that
  (`MappedInv`). Shifts are a recursive function; the lemmas say that they add up and
  that the larger of two is a multiple of the smaller.
* *System call table.* `KernelInv`, `TableInv`: how far a command has rewritten the
  table, and that entries of a session exist only while it is attached.
* *Numbers.* `NumbersInv`: as long as no assertion has failed, numbers in use are in the
  range of their kind and below its counter. Nothing is assumed of the number of blocks:
  the code has 1024 numbers for a trace, takes 70 for each decoded block and goes on past
  the end where assertions are compiled out, so `asserted`, that all of them have held so
  far, is part of the state. The theorem is that the assertions are enough: they fail no
  later than with the first number that two holders share.
* *Inline assembly.* `AsmInv`: the count of a scope is twice the number of its pieces in
  the block (`CountInv`), text is compiled when the tools have gone and from the first
  piece on (`StageInv`), and what a variable is has been made once and is in all
  instructions that name it (`VarInv`). The lemmas are about positions in a list: an
  insertion or a removal shifts the others, and changes the number of pieces of one scope
  at most by one (`PositionsGrow`); an instruction put before the first piece leaves that
  piece the first (`FirstPieceStays`).
* *Memory operands.* `OperandInv`: for each state of the parser, what is left of the text,
  and that the operand has what the part before it says.
* *Names of registers.* `NamesInv`: operands are as they were decoded, the set of used
  registers covers all bytes of them, and the chosen home is outside of it; beside a high
  byte that set has R8 to R15. (One byte of RBP, RSI or RDI needs a REX prefix as well;
  neither the set nor the theorem excludes these.) The rest is about the bytes
  of each row of the table, one row at a time.
* *Calls.* `CallsInv`: for each position in the code of a call, what is left to be
  executed and where the application's values are: in front of the wrapper in slots and
  in the registers that have not been moved to (`StartStage`), in it on the stack, in the
  order of pushing (`PushStage`, `PopStage`), behind it in slots again (`EndStage`). All
  operands are copied before the first argument register changes, and the registers that
  the wrapper saves and those of arguments make up all of them (`CallIs`); the latter
  rests on `Saved` having each register it has to have once, which is proved by counting
  the smaller ones. A wrapper serves later calls too (`CallbacksInv`): this is where one
  number of arguments for all calls of a function is needed, which the code assumes.

Only model-checked, and why:

* *Liveness* (`LocksProgress`, `BranchesResolve`) is out of the prover's reach.
* *Translation.* `ToolOrder` is about a transitive closure and about folds over
  requests: what they are for lists of any length takes induction over data. `FollowsTrace`,
  `InstrumentationHidden`, `InstructionKept` and `ShiftsKnown` compare whole executions of
  small programs and single instructions, one by one.
* *Support.* `FaultsEmulated` compares executions, form by form, of a fixed list of
  instructions; `ImplementsCollections` and `GivenIsObeyed` are about recursive data
  (chunks, parents, strings).

## 5. Not modelled

* Third-party code (XED, Valgrind headers) makes up two fifths of the lines
  of the repository's implementation. Generated tables, logging, strings and
  formatting, per-thread slots and the tables of `arch/x86-64/init_exit.cc` have no
  behaviour beyond one call.
* *Kernel build*: interrupt delivery, the list of kernel modules (`module.cc` does
  not agree with `os/module.h` at this commit), slots, symbols.
* *Mangler*: string instructions with their sticky operands and REP, 16-bit stack
  accesses, flags of ADD and SUB on RSP that are
  turned into TEST, system calls.
* *Assembler*: indirect and exceptional control flow, calls of tools' functions (they
  are in `ClientCalls`), the debug trap fragment, per-CPU slots.
* *Inline assembly*: prefixes, opcodes, literal immediates and the selection of an
  encoding.
* *Block factory*: indirect and return blocks, blocks that tools make themselves. In
  `DirectEdge`, a lookup always finds indexed blocks; that a lookup may miss one is
  in `CodeCacheIndex`.
* *Options*: the parsers of `positive_int` and `uint`, which differ from modelled ones
  by a test or a type, and the truncation of numbers to 32 bits.
* *Registers and containers*: live register sets, which nothing uses, and
  `TinyMap::Remove`, which nothing calls.
* *Calls of tools' functions*: the kernel build, whose wrappers turn interrupts off and
  change to a private stack (`call.cc:61-64`, `context.cc:52-55`); and calls of one
  function with different numbers of arguments, which no client makes and the table of
  wrappers does not tell apart (`granary/context.cc:131`).
* *Clients*: those that only insert instructions or count (`count_bbs`, `strace`,
  `memop`, `gdb`, `find_write`), signals and the removal of hooks in `user`, the
  training file and statistics of `malcontent`.

Where a modelled part is narrower than the code: tokens of inline assembly are separated
by blanks, and a piece is unlinked after the handle of its scope is gone, since handles
are local variables of the function that inlines (`instruction.cc:69-89` has no such
test, and a scope whose last piece goes earlier is freed under the handle). An assertion
that fails in `AddShadowStructure` stops Granary, as in the debug build. Wrappers are
registered in the same order in every session, fewer than 256 for a function.
`malcontent` compares the low halves of two threads' bases (`client.cc:839`), which are
taken to differ. In the assembler no instruction computes an address below the stack
pointer (`9_allocate_slots.cc:116-120`). `DirectEdge` releases the edge's lock and the
exit lock in one step, between which the code does nothing else.

## 6. Plan

What is left to prove first are the disjoint sets of `Containers` against `Collections`
(parents form a forest, and the root of an element is its representative), then
`ToolOrder` with its closure as a recursive function.

Of the model, indirect and return blocks in `BlockFactory` could be added.
