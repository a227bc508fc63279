---------------------------- MODULE ShadowMemory ----------------------------
(***************************************************************************)
(* The shadow_memory client (clients/shadow_memory/client.cc): tools       *)
(* register structures, of which every line of memory then has one; the    *)
(* memory for them is mapped when the first trace is instrumented, by      *)
(* whichever thread comes first; and instrumented code computes the        *)
(* address of a line's structures.  An assertion that fails stops Granary. *)
(***************************************************************************)
EXTENDS Integers, Sequences

CONSTANTS
  Thread,
  Struct,           \* Structures: their size and alignment.
  MaxStructs,       \* Most structures: a bound of the model.
  gShiftAmount,     \* log2 of --shadow_granularity.
  OffsetBits,       \* Bits of a shadow offset before it is scaled: 32.
  Address,          \* Addresses of the application.
  MaxMaps,          \* Most mappings that a process makes: a bound of the model.
  MaxSessions,      \* How often Granary attaches: a bound of the model.
  NoThread

VARIABLES
  sessions, phase,
  gDescriptions,        \* The registered structures, with offset and step.
  gUnalignedSize, gAlignedSize, gScaleAmount, gPrevOffset, gShadowMemSize,
  gShadowMem,           \* Where shadow memory is mapped, 0 if it is not.
  gShadowMemLock,       \* Who holds the spin lock, or NoThread.
  maps,                 \* How many mappings were made.
  job,                  \* What a thread that translates is doing.
  code                  \* The instrumentation in the code cache.

shadowVars == <<sessions, phase, gDescriptions, gUnalignedSize, gAlignedSize, gScaleAmount,
                gPrevOffset, gShadowMemSize, gShadowMem, gShadowMemLock, maps, job, code>>
layout == <<gDescriptions, gUnalignedSize, gAlignedSize, gScaleAmount, gPrevOffset, gShadowMemSize>>

\* 1UL << n.
Shl(n) == LET power[i \in 0..n] == IF i = 0 THEN 1 ELSE 2 * power[i - 1] IN power[n]
Log2(n) == CHOOSE k \in 0..n : Shl(k) <= n /\ n < Shl(k + 1)
AlignTo(x, align) == x + (IF x % align = 0 THEN 0 ELSE align - (x % align))

\* The immediate of an ADD with an i8: one byte, with its sign.
Imm8(n) == IF n % 256 < 128 THEN n % 256 ELSE (n % 256) - 256

NoLayout ==
  /\ gDescriptions = << >> /\ gUnalignedSize = 0 /\ gAlignedSize = 1
  /\ gScaleAmount = 0 /\ gPrevOffset = 0 /\ gShadowMemSize = 0

Init ==
  /\ sessions = 1 /\ phase = "init"
  /\ NoLayout
  /\ gShadowMem = 0 /\ gShadowMemLock = NoThread /\ maps = 0
  /\ job = [t \in Thread |-> "idle"]
  /\ code = {}
-----------------------------------------------------------------------------
\* The scale for structures of a size: the logarithm, and less if that is not
\* enough, when the assertion fails.
ScaleFor(size) == IF size > Shl(Log2(size)) THEN Log2(size) - 1 ELSE Log2(size)

AddShadowStructure(s) ==
  /\ phase = "init" /\ Len(gDescriptions) < MaxStructs
  /\ LET offset == AlignTo(gUnalignedSize, s.align)
         scale == ScaleFor(offset + s.size)
     IN  /\ gDescriptions' = Append(gDescriptions, [size |-> s.size, align |-> s.align,
                                      offset |-> offset, step |-> Imm8(offset - gPrevOffset)])
         /\ gUnalignedSize' = offset + s.size
         /\ gPrevOffset' = offset
         /\ gScaleAmount' = scale
         /\ gAlignedSize' = Shl(scale)
         /\ gShadowMemSize' = Shl(OffsetBits) * Shl(scale)
         /\ phase' = IF Shl(scale) >= offset + s.size THEN "init" ELSE "stopped"
  /\ UNCHANGED <<sessions, gShadowMem, gShadowMemLock, maps, job, code>>

InitDone ==
  /\ phase = "init"
  /\ phase' = "running"
  /\ UNCHANGED <<sessions, layout, gShadowMem, gShadowMemLock, maps, job, code>>

\* InstrumentBlocks: the test without a lock.
InstrumentBlocks(t) ==
  /\ phase = "running" /\ job[t] = "idle"
  /\ job' = [job EXCEPT ![t] = IF gShadowMemSize # 0 /\ gDescriptions # << >> /\ gShadowMem = 0
                               THEN "lock" ELSE "instrument"]
  /\ UNCHANGED <<sessions, phase, layout, gShadowMem, gShadowMemLock, maps, code>>

\* Mutant: no second test.
LockAndMap(t) ==
  /\ job[t] = "lock" /\ gShadowMemLock = NoThread
  /\ gShadowMemLock' = t
  /\ job' = [job EXCEPT ![t] = "map"]
  /\ UNCHANGED <<sessions, phase, layout, gShadowMem, maps, code>>

\* InitShadowMemory: the test under the lock, and mmap.
LockShadowMem(t) ==
  /\ job[t] = "lock" /\ gShadowMemLock = NoThread
  /\ IF gShadowMem # 0
     THEN job' = [job EXCEPT ![t] = "instrument"] /\ UNCHANGED gShadowMemLock
     ELSE job' = [job EXCEPT ![t] = "map"] /\ gShadowMemLock' = t
  /\ UNCHANGED <<sessions, phase, layout, gShadowMem, maps, code>>
MapShadowMem(t) ==
  /\ job[t] = "map" /\ maps < MaxMaps
  /\ maps' = maps + 1
  /\ gShadowMem' = 1 + maps * gShadowMemSize
  /\ gShadowMemLock' = NoThread
  /\ job' = [job EXCEPT ![t] = "instrument"]
  /\ UNCHANGED <<sessions, phase, layout, code>>

\* InstrumentMemOp: the address of shadow memory is part of the code.
InstrumentMemOp(t) ==
  /\ job[t] = "instrument"
  /\ job' = [job EXCEPT ![t] = "idle"]
  /\ code' = IF gDescriptions = << >> THEN code
             ELSE code \cup {[base |-> gShadowMem, scale |-> gScaleAmount,
                              scaled |-> 1 < gAlignedSize,
                              steps |-> [i \in DOMAIN gDescriptions |-> gDescriptions[i].step]]}
  /\ UNCHANGED <<sessions, phase, layout, gShadowMem, gShadowMemLock, maps>>

\* Exit, on detach: no thread is in the code cache or in Granary.
Exit ==
  /\ phase = "running" /\ sessions < MaxSessions
  /\ \A t \in Thread : job[t] = "idle"
  /\ sessions' = sessions + 1 /\ phase' = "init"
  /\ gDescriptions' = << >> /\ gUnalignedSize' = 0 /\ gAlignedSize' = 1
  /\ gScaleAmount' = 0 /\ gPrevOffset' = 0 /\ gShadowMemSize' = 0
  /\ gShadowMem' = 0
  /\ code' = {} /\ maps' = 0
  /\ UNCHANGED <<gShadowMemLock, job>>

Next ==
  \/ \E s \in Struct : AddShadowStructure(s)
  \/ InitDone \/ Exit
  \/ \E t \in Thread : \/ InstrumentBlocks(t) \/ LockShadowMem(t) \/ MapShadowMem(t)
                       \/ InstrumentMemOp(t)

Spec == Init /\ [][Next]_shadowVars
-----------------------------------------------------------------------------
(* Properties.                                                             *)

\* What the code computes: the offset is cut off, scaled and added to the base;
\* then every structure is a step from the one before.
ShadowAddress(c, i, addr) ==
  LET offset == (addr \div Shl(gShiftAmount)) % Shl(OffsetBits)
      at[k \in 0..i] == IF k = 0 THEN c.base + (IF c.scaled THEN offset * Shl(c.scale) ELSE offset)
                        ELSE at[k - 1] + c.steps[k]
  IN  at[i]

\* ShadowOf, for tools that look at shadow memory themselves.
ShadowOf(i, addr) ==
  gShadowMem + (((addr \div Shl(gShiftAmount)) * Shl(gScaleAmount)) % Shl(OffsetBits)) + gDescriptions[i].offset

\* All code, whichever thread has made it, and ShadowOf (as long as nothing is cut
\* off) find one and the same structure for an address, in shadow memory, aligned
\* and apart from the other structures of its line and of all other lines.
ShadowShared ==
  \A c \in code : \A i \in DOMAIN gDescriptions : \A a \in Address :
    LET at == ShadowAddress(c, i, a) IN
    /\ gShadowMem <= at /\ at + gDescriptions[i].size <= gShadowMem + gShadowMemSize
    /\ (at - gShadowMem) % gDescriptions[i].align = 0
    /\ \A d \in code : ShadowAddress(d, i, a) = at
    /\ (a \div Shl(gShiftAmount)) * Shl(gScaleAmount) < Shl(OffsetBits) => ShadowOf(i, a) = at
    /\ \A j \in DOMAIN gDescriptions : \A b \in Address :
         LET other == ShadowAddress(c, j, b) IN
         \/ i = j /\ (a \div Shl(gShiftAmount) - b \div Shl(gShiftAmount)) % Shl(OffsetBits) = 0
         \/ at + gDescriptions[i].size <= other
         \/ other + gDescriptions[j].size <= at
=============================================================================
