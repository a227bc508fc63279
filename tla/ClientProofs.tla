---------------------------- MODULE ClientProofs ----------------------------
(***************************************************************************)
(* What holds of the clients for every set of threads, of function         *)
(* wrappers (FunctionWrappers) for every set of wrappers, and of shadow    *)
(* memory (ShadowMemory) for all structures and widths of its addresses.   *)
(***************************************************************************)
EXTENDS MCClients, FiniteSetTheorems, WellFoundedInduction, TLAPS

-----------------------------------------------------------------------------
(* Hooks on system calls.  Threads walk lists that others append to.       *)

USE DEF Hooks!List

Closure == Hook \cup {Hooks!First}

\* What a thread may be doing.
Adding == [op : {"new", "stored"}, list : Hooks!List, hook : Hook]
Walking == [op : {"walk"}, list : Hooks!List, block : Block, number : {"munmap", "mprotect", "exit", "other"},
            at : Hook \cup {None}, called : Seq(Hook), due : SUBSET Hook]
HookJob == {Hooks!Idle, [op |-> "gone"]} \cup Adding \cup Walking

HookTypes ==
  /\ link \in [Hooks!List -> [Closure -> Hook \cup {None}]]
  /\ next_ptr \in [Hooks!List -> Closure]
  /\ list_lock \in [Hooks!List -> Thread \cup {None}]
  /\ added \in [Hooks!List -> SUBSET Hook]
  /\ exit_hooked \in [Block -> {"untranslated", "hooked", "unhooked"}]
  /\ hook_job \in [Thread -> HookJob]

Stored(t, l) == hook_job[t].op = "stored" /\ hook_job[t].list = l
Walks(t, l) == hook_job[t].op = "walk" /\ hook_job[t].list = l

\* A thread between its two stores has the list's lock, and no hook is added twice.
AddingInv ==
  /\ \A t \in Thread, l \in Hooks!List : Stored(t, l) <=> list_lock[l] = t
  /\ \A t \in Thread : hook_job[t].op \in {"new", "stored"} =>
       /\ \A l \in Hooks!List : hook_job[t].hook \notin added[l]
       /\ \A u \in Thread : u # t /\ hook_job[u].op \in {"new", "stored"} => hook_job[u].hook # hook_job[t].hook

\* The closures of a list in their order, s[1] being the list itself: whoever follows
\* the links from first meets s[2], ..., s[n].
Chain(l, s, n) ==
  /\ s[1] = Hooks!First
  /\ \A i, j \in 1..n : i # j => s[i] # s[j]
  /\ \A i \in 1..(n - 1) : link[l][s[i]] = s[i + 1]
  /\ \A p \in Closure : (\A i \in 1..(n - 1) : p # s[i]) => link[l][p] = None

\* What is in the chain has been added, or is about to be by the one who has the lock.
Appended(l, s, n) ==
  /\ \A i \in 2..n : s[i] \in added[l] \/ \E t \in Thread : Stored(t, l) /\ hook_job[t].hook = s[i]
  /\ \A h \in added[l] : \E i \in 2..n : s[i] = h
  /\ list_lock[l] = None => next_ptr[l] = s[n]
  /\ \A t \in Thread : Stored(t, l) => n > 1 /\ s[n] = hook_job[t].hook /\ next_ptr[l] = s[n - 1]

\* A thread that walks has called a prefix of the chain and goes on behind it; what is
\* due is either called or ahead, unless the code does not call hooks.
Followed(t, s, n) ==
  LET k == Len(hook_job[t].called) IN
  /\ k < n
  /\ \A i \in 1..k : hook_job[t].called[i] = s[i + 1]
  /\ hook_job[t].at # None => k + 1 < n /\ hook_job[t].at = s[k + 2]
  /\ (hook_job[t].list = "exit" => exit_hooked[hook_job[t].block] = "hooked") =>
       \A h \in hook_job[t].due : \E i \in 2..n : s[i] = h /\ (i <= k + 1 \/ hook_job[t].at # None)

ListInv(l) ==
  \E n \in Nat \ {0} : \E s \in [1..n -> Closure] :
    /\ Chain(l, s, n) /\ Appended(l, s, n)
    /\ \A t \in Thread : Walks(t, l) => Followed(t, s, n)

HookInv ==
  /\ HookTypes /\ AddingInv
  /\ \A t \in Thread : hook_job[t].op = "walk" => exit_hooked[hook_job[t].block] # "untranslated"
  /\ \A l \in Hooks!List : ListInv(l)

LEMMA HookInit == Hooks!Init => HookInv
<1> SUFFICES ASSUME Hooks!Init PROVE HookInv
  OBVIOUS
<1>1. /\ link = [l \in Hooks!List |-> [p \in Closure |-> None]]
      /\ next_ptr = [l \in Hooks!List |-> Hooks!First] /\ list_lock = [l \in Hooks!List |-> None]
      /\ added = [l \in Hooks!List |-> {}]
      /\ exit_hooked = [b \in Block |-> "untranslated"]
      /\ hook_job = [t \in Thread |-> Hooks!Idle]
  BY DEF Hooks!Init, Closure
<1>2. HookTypes
  BY <1>1 DEF HookTypes, HookJob, Closure
<1>3. \A t \in Thread : hook_job[t].op = "idle"
  BY <1>1 DEF Hooks!Idle
<1>4. AddingInv
  BY <1>1, <1>3, HookAssumption DEF AddingInv, Stored
<1>5. ASSUME NEW l \in Hooks!List PROVE ListInv(l)
  <2> DEFINE s == [i \in 1..1 |-> Hooks!First]
  <2>1. s \in [1..1 -> Closure] /\ s[1] = Hooks!First
    BY DEF Closure
  <2> HIDE DEF s
  <2>2. Chain(l, s, 1)
    BY <1>1, <2>1 DEF Chain
  <2>3. Appended(l, s, 1)
    BY <1>1, <1>3, <2>1 DEF Appended, Stored
  <2>4. \A t \in Thread : Walks(t, l) => Followed(t, s, 1)
    BY <1>3 DEF Walks
  <2>5. 1 \in Nat \ {0}
    OBVIOUS
  <2> QED
    BY <2>1, <2>2, <2>3, <2>4, <2>5, Zenon DEF ListInv
<1> QED
  BY <1>2, <1>3, <1>4, <1>5 DEF HookInv

\* A step that leaves a list alone leaves its chain alone.
LEMMA SameChain ==
  ASSUME NEW l \in Hooks!List, NEW n \in Nat \ {0}, NEW s \in [1..n -> Closure],
         Chain(l, s, n), Appended(l, s, n),
         link'[l] = link[l], added'[l] = added[l], list_lock'[l] = list_lock[l], next_ptr'[l] = next_ptr[l],
         \A u \in Thread : Stored(u, l)' <=> Stored(u, l),
         \A u \in Thread : Stored(u, l) => hook_job'[u] = hook_job[u]
  PROVE  Chain(l, s, n)' /\ Appended(l, s, n)'
<1>1. Chain(l, s, n)'
  BY DEF Chain
<1>2. Appended(l, s, n)'
  BY DEF Appended
<1> QED
  BY <1>1, <1>2

\* A step of one thread that changes no list and no thread's place between its stores:
\* what is left to show is that the thread itself follows the chain.
LEMMA QuietStep ==
  ASSUME HookInv, NEW t \in Thread, HookTypes',
         UNCHANGED <<link, next_ptr, list_lock, added>>,
         \A u \in Thread \ {t} : hook_job'[u] = hook_job[u],
         hook_job[t].op # "stored", hook_job'[t].op # "stored",
         hook_job'[t].op # "new",
         \A b \in Block : exit_hooked[b] # "untranslated" => exit_hooked'[b] = exit_hooked[b],
         hook_job'[t].op = "walk" => exit_hooked'[hook_job'[t].block] # "untranslated",
         \A l \in Hooks!List, n \in Nat \ {0} : \A s \in [1..n -> Closure] :
           Walks(t, l)' /\ Chain(l, s, n) /\ Appended(l, s, n) /\ (Walks(t, l) => Followed(t, s, n))
             => Followed(t, s, n)'
  PROVE  HookInv'
<1>1. AddingInv'
  BY DEF HookInv, AddingInv, Stored
<1>2. \A u \in Thread : hook_job'[u].op = "walk" => exit_hooked'[hook_job'[u].block] # "untranslated"
  <2> SUFFICES ASSUME NEW u \in Thread, u # t, hook_job'[u].op = "walk"
               PROVE  exit_hooked'[hook_job'[u].block] # "untranslated"
    OBVIOUS
  <2>1. hook_job[u] \in Walking /\ hook_job'[u] = hook_job[u]
    BY DEF HookInv, HookTypes, HookJob, Hooks!Idle, Adding
  <2> QED
    BY <2>1 DEF HookInv, Walking
<1>3. ASSUME NEW l \in Hooks!List PROVE ListInv(l)'
  <2>1. PICK n \in Nat \ {0} : \E s \in [1..n -> Closure] :
          /\ Chain(l, s, n) /\ Appended(l, s, n)
          /\ \A u \in Thread : Walks(u, l) => Followed(u, s, n)
    BY DEF HookInv, ListInv
  <2>2. PICK s \in [1..n -> Closure] :
          /\ Chain(l, s, n) /\ Appended(l, s, n)
          /\ \A u \in Thread : Walks(u, l) => Followed(u, s, n)
    BY <2>1
  <2>3. Chain(l, s, n)' /\ Appended(l, s, n)'
    BY <2>2, SameChain DEF Stored
  <2>4. ASSUME NEW u \in Thread, Walks(u, l)' PROVE Followed(u, s, n)'
    <3>1. CASE u = t
      BY <2>2, <2>4, <3>1
    <3>2. CASE u # t
      <4>1. hook_job[u] \in Walking /\ hook_job'[u] = hook_job[u]
        BY <2>4, <3>2 DEF Walks, HookInv, HookTypes, HookJob, Hooks!Idle, Adding
      <4>2. exit_hooked'[hook_job[u].block] = exit_hooked[hook_job[u].block]
        BY <4>1 DEF HookInv, Walking
      <4>3. Followed(u, s, n)
        BY <2>2, <2>4, <4>1 DEF Walks
      <4> QED
        BY <4>1, <4>2, <4>3 DEF Followed
    <3> QED
      BY <3>1, <3>2
  <2> QED
    BY <2>3, <2>4 DEF ListInv
<1> QED
  BY <1>1, <1>2, <1>3 DEF HookInv

LEMMA JobKinds ==
  ASSUME HookTypes, NEW t \in Thread
  PROVE  /\ hook_job[t].op \in {"new", "stored"} => hook_job[t] \in Adding
         /\ hook_job[t].op = "walk" => hook_job[t] \in Walking
  BY DEF HookTypes, HookJob, Adding, Walking, Hooks!Idle

LEMMA AddKeeps == ASSUME HookInv, NEW t \in Thread, Hooks!Add(t) PROVE HookInv'
<1>1. PICK l \in Hooks!List, h \in Hook :
        /\ hook_job[t].op = "idle"
        /\ h \notin UNION {added[k] : k \in Hooks!List}
        /\ \A u \in Thread : hook_job[u].op \in {"new", "stored"} => hook_job[u].hook # h
        /\ hook_job' = [hook_job EXCEPT ![t] = [op |-> "new", list |-> l, hook |-> h]]
        /\ UNCHANGED <<link, next_ptr, list_lock, added, exit_hooked>>
  BY DEF Hooks!Add, Hooks!Does
<1>2. \A u \in Thread : hook_job'[u] = IF u = t THEN [op |-> "new", list |-> l, hook |-> h] ELSE hook_job[u]
  BY <1>1 DEF HookInv, HookTypes
<1>3. HookTypes'
  <2>1. [op |-> "new", list |-> l, hook |-> h] \in HookJob
    BY DEF HookJob, Adding
  <2> QED
    BY <1>1, <2>1 DEF HookInv, HookTypes
<1>4. AddingInv'
  BY <1>1, <1>2 DEF HookInv, AddingInv, Stored
<1>5. \A u \in Thread : hook_job'[u].op = "walk" => u # t /\ hook_job'[u] = hook_job[u]
  BY <1>2
<1>6. ASSUME NEW k \in Hooks!List PROVE ListInv(k)'
  <2>1. PICK n \in Nat \ {0} : \E s \in [1..n -> Closure] :
          /\ Chain(k, s, n) /\ Appended(k, s, n)
          /\ \A u \in Thread : Walks(u, k) => Followed(u, s, n)
    BY DEF HookInv, ListInv
  <2>2. PICK s \in [1..n -> Closure] :
          /\ Chain(k, s, n) /\ Appended(k, s, n)
          /\ \A u \in Thread : Walks(u, k) => Followed(u, s, n)
    BY <2>1
  <2>3. Chain(k, s, n)' /\ Appended(k, s, n)'
    BY <1>1, <1>2, <2>2, SameChain DEF Stored
  <2>4. \A u \in Thread : Walks(u, k)' => Followed(u, s, n)'
    BY <1>1, <1>5, <2>2 DEF Walks, Followed
  <2> QED
    BY <2>3, <2>4 DEF ListInv
<1> QED
  BY <1>1, <1>3, <1>4, <1>5, <1>6 DEF HookInv

LEMMA InstrumentSyscallKeeps == ASSUME HookInv, NEW t \in Thread, Hooks!InstrumentSyscall(t) PROVE HookInv'
<1>1. PICK b \in Block :
        /\ hook_job[t].op = "idle" /\ exit_hooked[b] = "untranslated"
        /\ exit_hooked' = [exit_hooked EXCEPT ![b] = IF link["exit"][Hooks!First] # None
                                                     THEN "hooked" ELSE "unhooked"]
        /\ UNCHANGED <<link, next_ptr, list_lock, added, hook_job>>
  BY DEF Hooks!InstrumentSyscall, Hooks!Does
<1>2. \A c \in Block : exit_hooked[c] # "untranslated" => exit_hooked'[c] = exit_hooked[c]
  BY <1>1 DEF HookInv, HookTypes
<1>3. HookTypes'
  BY <1>1 DEF HookInv, HookTypes
<1> QED
  BY <1>1, <1>2, <1>3, QuietStep DEF Walks

\* The first closure of a chain, and what is due there.
LEMMA WalkBegins ==
  ASSUME HookInv, HookTypes', NEW t \in Thread, NEW l \in Hooks!List, NEW b \in Block, NEW number,
         UNCHANGED <<link, next_ptr, list_lock, added, exit_hooked>>,
         exit_hooked[b] # "untranslated",
         hook_job[t].op # "stored",
         \A u \in Thread \ {t} : hook_job'[u] = hook_job[u],
         NEW first \in {link[l][Hooks!First], None},
         hook_job'[t] = Hooks!Walk(l, b, number, first),
         (l = "exit" => exit_hooked[b] = "hooked") => first = link[l][Hooks!First]
  PROVE  HookInv'
<1>1. /\ hook_job'[t].op = "walk" /\ hook_job'[t].list = l /\ hook_job'[t].block = b
      /\ hook_job'[t].at = first /\ hook_job'[t].called = << >> /\ hook_job'[t].due = added[l]
  BY DEF Hooks!Walk
<1>2. ASSUME NEW k \in Hooks!List, NEW n \in Nat \ {0}, NEW s \in [1..n -> Closure],
             Walks(t, k)', Chain(k, s, n), Appended(k, s, n)
      PROVE  Followed(t, s, n)'
  <2>1. k = l
    BY <1>1, <1>2 DEF Walks
  <2>2. Hooks!First \in Closure
    BY DEF Closure
  <2>3. n = 1 => link[l][Hooks!First] = None
    BY <1>2, <2>1, <2>2 DEF Chain
  <2>4. n > 1 => link[l][Hooks!First] = s[2] /\ s[2] \in Closure /\ s[2] # Hooks!First
    <3> SUFFICES ASSUME n > 1 PROVE link[l][Hooks!First] = s[2] /\ s[2] \in Closure /\ s[2] # Hooks!First
      OBVIOUS
    <3>1. 1 \in 1..(n - 1) /\ 1 \in 1..n /\ 2 \in 1..n /\ 1 + 1 = 2
      OBVIOUS
    <3> QED
      BY <1>2, <2>1, <3>1 DEF Chain
  <2>5. n > 1 => link[l][Hooks!First] # None
    BY <2>4, HookAssumption DEF Closure
  <2>6. \A h \in added[l] : \E i \in 2..n : s[i] = h
    BY <1>2, <2>1 DEF Appended
  <2>7. (l = "exit" => exit_hooked[b] = "hooked") =>
          \A h \in added[l] : \E i \in 2..n : s[i] = h /\ (i <= 1 \/ first # None)
    BY <2>3, <2>5, <2>6
  <2>8. Len(<< >>) = 0 /\ DOMAIN << >> = {}
    OBVIOUS
  <2>9. first # None => 1 < n /\ first = s[2]
    BY <2>3, <2>4
  <2> QED
    BY <1>1, <2>7, <2>8, <2>9 DEF Followed
<1> QED
  BY <1>1, <1>2, QuietStep

LEMMA HookSystemCallEntryKeeps == ASSUME HookInv, NEW t \in Thread, Hooks!HookSystemCallEntry(t) PROVE HookInv'
<1>1. PICK b \in Block, number \in {"munmap", "exit", "other"} :
        /\ hook_job[t].op = "idle" /\ exit_hooked[b] # "untranslated"
        /\ hook_job' = [hook_job EXCEPT ![t] = Hooks!Walk("entry", b, number, link["entry"][Hooks!First])]
        /\ UNCHANGED <<link, next_ptr, list_lock, added, exit_hooked>>
  BY DEF Hooks!HookSystemCallEntry, Hooks!Does
<1> DEFINE first == link["entry"][Hooks!First]
           w == Hooks!Walk("entry", b, number, first)
<1>2. first \in Hook \cup {None}
  BY DEF HookInv, HookTypes, Closure
<1>3. w \in HookJob
  BY <1>2 DEF Hooks!Walk, HookInv, HookTypes, HookJob, Walking
<1>4. hook_job' = [hook_job EXCEPT ![t] = w]
  BY <1>1
<1> HIDE DEF w
<1>5. HookTypes' /\ hook_job'[t] = w /\ \A u \in Thread \ {t} : hook_job'[u] = hook_job[u]
  BY <1>1, <1>3, <1>4 DEF HookInv, HookTypes
<1> QED
  BY <1>1, <1>5, WalkBegins DEF w

LEMMA SystemCallKeeps == ASSUME HookInv, NEW t \in Thread, Hooks!SystemCall(t) PROVE HookInv'
<1> DEFINE b == hook_job[t].block
           number == IF hook_job[t].number = "munmap" THEN "mprotect" ELSE hook_job[t].number
           first == IF exit_hooked[b] = "hooked" THEN link["exit"][Hooks!First] ELSE None
           w == IF number = "exit" THEN [op |-> "gone"] ELSE Hooks!Walk("exit", b, number, first)
<1>1. /\ hook_job[t].op = "walk"
      /\ hook_job' = [hook_job EXCEPT ![t] = w]
      /\ UNCHANGED <<link, next_ptr, list_lock, added, exit_hooked>>
  BY DEF Hooks!SystemCall, Hooks!Does
<1>2. hook_job[t] \in Walking
  BY <1>1, JobKinds DEF HookInv
<1>3. b \in Block /\ number \in {"munmap", "mprotect", "exit", "other"} /\ exit_hooked[b] # "untranslated"
  BY <1>1, <1>2 DEF Walking, HookInv
<1>4. first \in Hook \cup {None}
  BY DEF HookInv, HookTypes, Closure
<1> HIDE DEF number, first
<1>5. w \in HookJob
  BY <1>3, <1>4 DEF Hooks!Walk, HookInv, HookTypes, HookJob, Walking
<1> HIDE DEF w, b
<1>6. HookTypes' /\ hook_job'[t] = w /\ \A u \in Thread \ {t} : hook_job'[u] = hook_job[u]
  BY <1>1, <1>5 DEF HookInv, HookTypes
<1>7. CASE number = "exit"
  <2>1. hook_job'[t].op = "gone"
    BY <1>6, <1>7 DEF w
  <2> QED
    BY <1>1, <1>6, <2>1, QuietStep DEF Walks
<1>8. CASE number # "exit"
  <2>1. w = Hooks!Walk("exit", b, number, first)
    BY <1>8 DEF w
  <2>2. first \in {link["exit"][Hooks!First], None} /\ (exit_hooked[b] = "hooked" => first = link["exit"][Hooks!First])
    BY DEF first
  <2> QED
    BY <1>1, <1>3, <1>6, <2>1, <2>2, WalkBegins
<1> QED
  BY <1>7, <1>8

LEMMA ReturnKeeps == ASSUME HookInv, NEW t \in Thread, Hooks!Return(t) PROVE HookInv'
<1>1. /\ hook_job[t].op = "walk"
      /\ hook_job' = [hook_job EXCEPT ![t] = Hooks!Idle]
      /\ UNCHANGED <<link, next_ptr, list_lock, added, exit_hooked>>
  BY DEF Hooks!Return, Hooks!Does
<1>2. HookTypes' /\ hook_job'[t] = Hooks!Idle /\ \A u \in Thread \ {t} : hook_job'[u] = hook_job[u]
  BY <1>1 DEF HookInv, HookTypes, HookJob
<1>3. hook_job'[t].op = "idle"
  BY <1>2 DEF Hooks!Idle
<1> QED
  BY <1>1, <1>2, <1>3, QuietStep DEF Walks

\* A thread that has called a closure goes on with the next one, or has met the end.
LEMMA CallHookKeeps == ASSUME HookInv, NEW t \in Thread, Hooks!CallHook(t) PROVE HookInv'
<1> DEFINE j == hook_job[t]
           p == link[j.list][j.at]
<1>1. /\ j.op = "walk" /\ j.at # None
      /\ hook_job' = [hook_job EXCEPT ![t].called = Append(@, j.at), ![t].at = p]
      /\ UNCHANGED <<link, next_ptr, list_lock, added, exit_hooked>>
  BY DEF Hooks!CallHook, Hooks!Does
<1>2. j \in Walking
  BY <1>1, JobKinds DEF HookInv
<1>3. j.at \in Hook /\ j.called \in Seq(Hook) /\ j.list \in Hooks!List /\ p \in Hook \cup {None}
  BY <1>1, <1>2 DEF Walking, HookInv, HookTypes, Closure
<1> HIDE DEF p
<1>4. hook_job'[t] = [j EXCEPT !.called = Append(j.called, j.at), !.at = p]
  BY <1>1 DEF HookInv, HookTypes
<1>5. /\ hook_job'[t] \in Walking /\ hook_job'[t].op = "walk" /\ hook_job'[t].list = j.list
      /\ hook_job'[t].block = j.block /\ hook_job'[t].due = j.due
      /\ hook_job'[t].called = Append(j.called, j.at) /\ hook_job'[t].at = p
  <2>1. Append(j.called, j.at) \in Seq(Hook)
    BY <1>3
  <2> HIDE DEF j
  <2>2. PICK c \in Seq(Hook), q \in Hook \cup {None}, w \in {hook_job'[t]} :
          c = Append(j.called, j.at) /\ q = p /\ w = [j EXCEPT !.called = c, !.at = q]
    BY <1>3, <1>4, <2>1
  <2>3. w.op = "walk" /\ w.list = j.list /\ w.block = j.block /\ w.due = j.due /\ w.called = c /\ w.at = q
    BY <1>2, <2>2 DEF Walking
  <2>4. w \in Walking
    BY <1>2, <2>2 DEF Walking
  <2> QED
    BY <2>2, <2>3, <2>4
<1>6. HookTypes' /\ \A u \in Thread \ {t} : hook_job'[u] = hook_job[u]
  <2>1. hook_job' = [hook_job EXCEPT ![t] = hook_job'[t]]
    BY <1>1 DEF HookInv, HookTypes
  <2> QED
    BY <1>1, <1>5, <2>1 DEF HookInv, HookTypes, HookJob
<1>7. ASSUME NEW l \in Hooks!List, NEW n \in Nat \ {0}, NEW s \in [1..n -> Closure],
             Walks(t, l)', Chain(l, s, n), Appended(l, s, n), Walks(t, l) => Followed(t, s, n)
      PROVE  Followed(t, s, n)'
  <2>1. l = j.list /\ Followed(t, s, n)
    BY <1>1, <1>5, <1>7 DEF Walks
  <2> DEFINE k == Len(j.called)
             c == Append(j.called, j.at)
  <2>2. k \in Nat /\ Len(c) = k + 1 /\ c[k + 1] = j.at /\ \A i \in 1..k : c[i] = j.called[i]
    BY <1>3
  <2>3. /\ k + 1 < n /\ j.at = s[k + 2] /\ \A i \in 1..k : j.called[i] = s[i + 1]
        /\ (j.list = "exit" => exit_hooked[j.block] = "hooked") => \A h \in j.due : \E i \in 2..n : s[i] = h
    BY <1>1, <2>1 DEF Followed
  <2> HIDE DEF k, c
  <2>4. k + 2 < n => p = s[k + 3]
    <3> SUFFICES ASSUME k + 2 < n PROVE p = s[k + 3]
      OBVIOUS
    <3>1. k + 2 \in 1..(n - 1) /\ (k + 2) + 1 = k + 3
      BY <2>2
    <3> QED
      BY <1>7, <2>1, <2>3, <3>1 DEF Chain, p
  <2>5. k + 2 = n => p = None
    <3> SUFFICES ASSUME k + 2 = n PROVE p = None
      OBVIOUS
    <3>1. \A i \in 1..(n - 1) : i \in 1..n /\ n \in 1..n /\ i # n
      OBVIOUS
    <3>2. \A i \in 1..(n - 1) : s[n] # s[i]
      BY <1>7, <3>1 DEF Chain
    <3>3. s[n] \in Closure
      OBVIOUS
    <3> QED
      BY <1>7, <2>1, <2>3, <3>2, <3>3 DEF Chain, p
  <2>6. k + 2 < n => p # None
    <3> SUFFICES ASSUME k + 2 < n PROVE p # None
      OBVIOUS
    <3>1. k + 3 \in 1..n
      BY <2>2
    <3> QED
      BY <2>4, <3>1, HookAssumption DEF Closure
  <2>7. /\ k + 1 < n
        /\ \A i \in 1..(k + 1) : c[i] = s[i + 1]
        /\ p # None => (k + 1) + 1 < n /\ p = s[(k + 1) + 2]
    BY <2>2, <2>3, <2>4, <2>5
  <2>8. (j.list = "exit" => exit_hooked[j.block] = "hooked") =>
          \A h \in j.due : \E i \in 2..n : s[i] = h /\ (i <= (k + 1) + 1 \/ p # None)
    BY <2>2, <2>3, <2>6
  <2> QED
    BY <1>1, <1>5, <2>2, <2>7, <2>8 DEF Followed, c
<1>8. exit_hooked[j.block] # "untranslated"
  BY <1>1 DEF HookInv
<1> QED
  BY <1>1, <1>5, <1>6, <1>7, <1>8, QuietStep

\* The first store appends to the chain; nobody who walks notices.
LEMMA StoreKeeps == ASSUME HookInv, NEW t \in Thread, Hooks!Store(t) PROVE HookInv'
<1>0. hook_job[t] \in Adding
  BY JobKinds DEF HookInv, Hooks!Store, Hooks!Does
<1>l. PICK l \in Hooks!List, h \in Hook : l = hook_job[t].list /\ h = hook_job[t].hook
  BY <1>0 DEF Adding
<1>1. /\ hook_job[t].op = "new" /\ list_lock[l] = None
      /\ list_lock' = [list_lock EXCEPT ![l] = t]
      /\ link' = [link EXCEPT ![l][next_ptr[l]] = h]
      /\ hook_job' = [hook_job EXCEPT ![t].op = "stored"]
      /\ UNCHANGED <<next_ptr, added, exit_hooked>>
  BY <1>l DEF Hooks!Store, Hooks!Does, Hooks!MayStore
<1>4. hook_job'[t] \in Adding /\ hook_job'[t].op = "stored" /\ hook_job'[t].list = l /\ hook_job'[t].hook = h
  <2>1. hook_job'[t] = [hook_job[t] EXCEPT !.op = "stored"]
    BY <1>1 DEF HookInv, HookTypes
  <2> QED
    BY <1>0, <1>l, <2>1 DEF Adding
<1>5. \A u \in Thread \ {t} : hook_job'[u] = hook_job[u]
  BY <1>1 DEF HookInv, HookTypes
<1>6. /\ \A k \in Hooks!List : list_lock'[k] = IF k = l THEN t ELSE list_lock[k]
      /\ \A k \in Hooks!List : k # l => link'[k] = link[k]
      /\ \A p \in Closure : link'[l][p] = IF p = next_ptr[l] THEN h ELSE link[l][p]
  BY <1>1 DEF HookInv, HookTypes
<1>7. HookTypes'
  <2>1. hook_job' = [hook_job EXCEPT ![t] = hook_job'[t]]
    BY <1>1 DEF HookInv, HookTypes
  <2>2. hook_job' \in [Thread -> HookJob]
    BY <1>4, <2>1 DEF HookInv, HookTypes, HookJob
  <2>3. link' \in [Hooks!List -> [Closure -> Hook \cup {None}]]
    BY <1>1 DEF HookInv, HookTypes
  <2> QED
    BY <1>1, <2>2, <2>3 DEF HookInv, HookTypes
<1>8. \A u \in Thread, k \in Hooks!List : Stored(u, k)' <=> (IF u = t THEN k = l ELSE Stored(u, k))
  BY <1>4, <1>5 DEF Stored
<1>9. \A u \in Thread : ~Stored(u, l)
  BY <1>1, HookAssumption DEF HookInv, AddingInv
<1>10. AddingInv'
  <2>1. \A u \in Thread, k \in Hooks!List : Stored(u, k)' <=> list_lock'[k] = u
    <3> SUFFICES ASSUME NEW u \in Thread, NEW k \in Hooks!List PROVE Stored(u, k)' <=> list_lock'[k] = u
      OBVIOUS
    <3>1. Stored(u, k) <=> list_lock[k] = u
      BY DEF HookInv, AddingInv
    <3>2. ~Stored(t, k)
      BY <1>1 DEF Stored
    <3> QED
      BY <1>6, <1>8, <1>9, <3>1, <3>2
  <2>2. \A u \in Thread : hook_job'[u].op \in {"new", "stored"} <=> hook_job[u].op \in {"new", "stored"}
    BY <1>1, <1>4, <1>5
  <2>3. \A u \in Thread : hook_job'[u].hook = hook_job[u].hook
    BY <1>l, <1>4, <1>5
  <2> QED
    BY <1>1, <2>1, <2>2, <2>3 DEF HookInv, AddingInv
<1>11. \A u \in Thread : hook_job'[u].op = "walk" => u # t /\ hook_job'[u] = hook_job[u]
  BY <1>4, <1>5
<1>12. ASSUME NEW k \in Hooks!List PROVE ListInv(k)'
  <2>1. PICK n \in Nat \ {0} : \E s \in [1..n -> Closure] :
          /\ Chain(k, s, n) /\ Appended(k, s, n)
          /\ \A u \in Thread : Walks(u, k) => Followed(u, s, n)
    BY DEF HookInv, ListInv
  <2>2. PICK s \in [1..n -> Closure] :
          /\ Chain(k, s, n) /\ Appended(k, s, n)
          /\ \A u \in Thread : Walks(u, k) => Followed(u, s, n)
    BY <2>1
  <2>3. CASE k # l
    <3>1. Chain(k, s, n)' /\ Appended(k, s, n)'
      <4>1. \A u \in Thread : Stored(u, k)' <=> Stored(u, k)
        BY <1>1, <1>8, <2>3 DEF Stored
      <4>2. \A u \in Thread : Stored(u, k) => hook_job'[u] = hook_job[u]
        BY <1>1, <1>5 DEF Stored
      <4> QED
        BY <1>1, <1>6, <2>2, <2>3, <4>1, <4>2, SameChain
    <3>2. \A u \in Thread : Walks(u, k)' => Followed(u, s, n)'
      BY <1>1, <1>11, <2>2 DEF Walks, Followed
    <3> QED
      BY <3>1, <3>2 DEF ListInv
  <2>4. CASE k = l
    <3> DEFINE m == n + 1
               r == [i \in 1..m |-> IF i = m THEN h ELSE s[i]]
    <3>1. m \in Nat \ {0} /\ r \in [1..m -> Closure]
      BY DEF Closure
    <3>2. r[m] = h /\ \A i \in 1..n : i \in 1..m /\ r[i] = s[i]
      OBVIOUS
    <3>3. n + 1 = m /\ m - 1 = n /\ m > n /\ \A i \in 1..m : i = m \/ i \in 1..n
      OBVIOUS
    <3> HIDE DEF m, r
    <3>4. next_ptr[l] = s[n]
      BY <1>1, <2>2, <2>4 DEF Appended
    <3>5. \A i \in 1..n : s[i] # h
      <4> SUFFICES ASSUME NEW i \in 1..n PROVE s[i] # h
        OBVIOUS
      <4>1. CASE i = 1
        BY <2>2, <4>1, HookAssumption DEF Chain
      <4>2. CASE i \in 2..n
        <5>1. s[i] \in added[l]
          BY <1>9, <2>2, <2>4, <4>2 DEF Appended
        <5>2. h \notin added[l]
          BY <1>l, <1>1 DEF HookInv, AddingInv
        <5> QED
          BY <5>1, <5>2
      <4> QED
        BY <4>1, <4>2
    <3>6. \A i \in 1..(n - 1) : i \in 1..n /\ i # n /\ n \in 1..n /\ i + 1 \in 1..n
      OBVIOUS
    <3>7. Chain(l, r, m)'
      <4>1. r[1] = Hooks!First
        BY <2>2, <3>2 DEF Chain
      <4>2. \A i, j \in 1..m : i # j => r[i] # r[j]
        BY <2>2, <3>2, <3>3, <3>5 DEF Chain
      <4>3. \A i \in 1..(m - 1) : link'[l][r[i]] = r[i + 1]
        <5> SUFFICES ASSUME NEW i \in 1..n PROVE link'[l][r[i]] = r[i + 1]
          BY <3>3
        <5>1. CASE i = n
          BY <1>6, <3>2, <3>3, <3>4, <5>1
        <5>2. CASE i # n
          <6>1. i \in 1..(n - 1)
            BY <5>2
          <6>2. s[i] # s[n] /\ link[l][s[i]] = s[i + 1]
            BY <2>2, <2>4, <3>6, <6>1 DEF Chain
          <6>3. link'[l][s[i]] = s[i + 1]
            BY <1>6, <3>4, <6>2
          <6> QED
            BY <3>2, <3>6, <6>1, <6>3
        <5> QED
          BY <5>1, <5>2
      <4>4. ASSUME NEW p \in Closure, \A i \in 1..(m - 1) : p # r[i]
            PROVE  link'[l][p] = None
        <5>1. \A i \in 1..n : p # s[i]
          BY <3>2, <3>3, <4>4
        <5>2. link[l][p] = None /\ p # s[n]
          BY <2>2, <2>4, <3>6, <5>1 DEF Chain
        <5> QED
          BY <1>6, <3>4, <5>2
      <4> QED
        BY <4>1, <4>2, <4>3, <4>4 DEF Chain
    <3>8. Appended(l, r, m)'
      <4>1. Stored(t, l)' /\ \A u \in Thread : Stored(u, l)' => u = t
        BY <1>8, <1>9
      <4>2. ASSUME NEW i \in 2..m
            PROVE  r[i] \in added[l] \/ \E u \in Thread : Stored(u, l)' /\ hook_job'[u].hook = r[i]
        <5>1. CASE i = m
          BY <1>4, <3>2, <4>1, <5>1
        <5>2. CASE i # m
          <6>1. i \in 2..n /\ i \in 1..n
            BY <3>3, <5>2
          <6>2. s[i] \in added[l]
            BY <1>9, <2>2, <2>4, <6>1 DEF Appended
          <6> QED
            BY <3>2, <6>1, <6>2
        <5> QED
          BY <5>1, <5>2
      <4>3. \A x \in added[l] : \E i \in 2..m : r[i] = x
        <5> SUFFICES ASSUME NEW x \in added[l] PROVE \E i \in 2..m : r[i] = x
          OBVIOUS
        <5>1. PICK i \in 2..n : s[i] = x
          BY <2>2, <2>4 DEF Appended
        <5> QED
          BY <3>2, <3>3, <5>1
      <4>4. list_lock'[l] # None
        BY <1>6, HookAssumption
      <4>5. m > 1 /\ r[m] = h /\ next_ptr[l] = r[m - 1]
        BY <3>2, <3>3, <3>4
      <4> QED
        BY <1>1, <1>4, <4>1, <4>2, <4>3, <4>4, <4>5 DEF Appended
    <3>9. ASSUME NEW u \in Thread, Walks(u, l)' PROVE Followed(u, r, m)'
      <4>1. u # t /\ hook_job'[u] = hook_job[u] /\ Walks(u, l)
        BY <1>11, <3>9 DEF Walks
      <4>2. Followed(u, s, n)
        BY <2>2, <2>4, <4>1
      <4>3. hook_job[u] \in Walking
        BY <4>1, JobKinds DEF HookInv, Walks
      <4>4. Len(hook_job[u].called) \in Nat
        BY <4>3 DEF Walking
      <4>5. (hook_job[u].list = "exit" => exit_hooked[hook_job[u].block] = "hooked") =>
              \A x \in hook_job[u].due : \E i \in 2..m :
                r[i] = x /\ (i <= Len(hook_job[u].called) + 1 \/ hook_job[u].at # None)
        <5> SUFFICES ASSUME hook_job[u].list = "exit" => exit_hooked[hook_job[u].block] = "hooked",
                            NEW x \in hook_job[u].due
                     PROVE  \E i \in 2..m :
                              r[i] = x /\ (i <= Len(hook_job[u].called) + 1 \/ hook_job[u].at # None)
          OBVIOUS
        <5>1. PICK i \in 2..n : s[i] = x /\ (i <= Len(hook_job[u].called) + 1 \/ hook_job[u].at # None)
          BY <4>2 DEF Followed
        <5> QED
          BY <3>2, <3>3, <5>1
      <4> QED
        BY <1>1, <3>2, <3>3, <4>1, <4>2, <4>4, <4>5 DEF Followed
    <3> QED
      BY <2>4, <3>1, <3>7, <3>8, <3>9 DEF ListInv
  <2> QED
    BY <2>3, <2>4
<1> QED
  BY <1>1, <1>7, <1>10, <1>11, <1>12 DEF HookInv

\* The second store, and the end of the addition.
LEMMA AdvanceKeeps == ASSUME HookInv, NEW t \in Thread, Hooks!Advance(t) PROVE HookInv'
<1>0. hook_job[t] \in Adding
  BY JobKinds DEF HookInv, Hooks!Advance, Hooks!Does
<1>l. PICK l \in Hooks!List, h \in Hook : l = hook_job[t].list /\ h = hook_job[t].hook
  BY <1>0 DEF Adding
<1>1. /\ hook_job[t].op = "stored"
      /\ next_ptr' = [next_ptr EXCEPT ![l] = h]
      /\ list_lock' = [list_lock EXCEPT ![l] = None]
      /\ added' = [added EXCEPT ![l] = @ \cup {h}]
      /\ hook_job' = [hook_job EXCEPT ![t] = Hooks!Idle]
      /\ UNCHANGED <<link, exit_hooked>>
  BY <1>l DEF Hooks!Advance, Hooks!Does
<1>3. l \in Hooks!List /\ h \in Hook /\ Stored(t, l)
  BY <1>l, <1>1 DEF Stored
<1>4. hook_job'[t] = Hooks!Idle /\ hook_job'[t].op = "idle" /\ \A u \in Thread \ {t} : hook_job'[u] = hook_job[u]
  BY <1>1 DEF HookInv, HookTypes, Hooks!Idle
<1>5. /\ \A k \in Hooks!List : list_lock'[k] = IF k = l THEN None ELSE list_lock[k]
      /\ \A k \in Hooks!List : next_ptr'[k] = IF k = l THEN h ELSE next_ptr[k]
      /\ \A k \in Hooks!List : added'[k] = IF k = l THEN added[k] \cup {h} ELSE added[k]
  BY <1>1, <1>3 DEF HookInv, HookTypes
<1>6. HookTypes'
  <2>1. Hooks!Idle \in HookJob
    BY DEF HookJob
  <2> QED
    BY <1>1, <1>3, <2>1 DEF HookInv, HookTypes, Closure
<1>7. \A u \in Thread, k \in Hooks!List : Stored(u, k)' <=> u # t /\ Stored(u, k)
  BY <1>4 DEF Stored
<1>8. \A u \in Thread : Stored(u, l) => u = t
  BY <1>3 DEF HookInv, AddingInv
<1>9. AddingInv'
  <2>1. \A u \in Thread, k \in Hooks!List : Stored(u, k)' <=> list_lock'[k] = u
    <3> SUFFICES ASSUME NEW u \in Thread, NEW k \in Hooks!List PROVE Stored(u, k)' <=> list_lock'[k] = u
      OBVIOUS
    <3>1. Stored(u, k) <=> list_lock[k] = u
      BY DEF HookInv, AddingInv
    <3>2. Stored(t, k) => k = l
      BY <1>l DEF Stored
    <3> QED
      BY <1>5, <1>7, <1>8, <3>1, <3>2, HookAssumption
  <2>2. \A u \in Thread : hook_job'[u].op \in {"new", "stored"} => u # t /\ hook_job'[u] = hook_job[u]
    BY <1>4
  <2>3. \A u \in Thread : u # t /\ hook_job[u].op \in {"new", "stored"} => hook_job[u].hook # h
    BY <1>l, <1>1 DEF HookInv, AddingInv
  <2>4. ASSUME NEW u \in Thread, hook_job'[u].op \in {"new", "stored"}
        PROVE  /\ \A k \in Hooks!List : hook_job'[u].hook \notin added'[k]
               /\ \A v \in Thread : v # u /\ hook_job'[v].op \in {"new", "stored"} =>
                                       hook_job'[v].hook # hook_job'[u].hook
    <3>1. u # t /\ hook_job'[u] = hook_job[u]
      BY <2>2, <2>4
    <3>2. \A k \in Hooks!List : hook_job[u].hook \notin added[k]
      BY <2>4, <3>1 DEF HookInv, AddingInv
    <3>3. \A v \in Thread : v # u /\ hook_job[v].op \in {"new", "stored"} => hook_job[v].hook # hook_job[u].hook
      BY <2>4, <3>1 DEF HookInv, AddingInv
    <3> QED
      BY <1>5, <2>2, <2>3, <2>4, <3>1, <3>2, <3>3
  <2> QED
    BY <2>1, <2>4 DEF AddingInv
<1>10. \A u \in Thread : hook_job'[u].op = "walk" => u # t /\ hook_job'[u] = hook_job[u]
  BY <1>4
<1>11. ASSUME NEW k \in Hooks!List PROVE ListInv(k)'
  <2>1. PICK n \in Nat \ {0} : \E s \in [1..n -> Closure] :
          /\ Chain(k, s, n) /\ Appended(k, s, n)
          /\ \A u \in Thread : Walks(u, k) => Followed(u, s, n)
    BY DEF HookInv, ListInv
  <2>2. PICK s \in [1..n -> Closure] :
          /\ Chain(k, s, n) /\ Appended(k, s, n)
          /\ \A u \in Thread : Walks(u, k) => Followed(u, s, n)
    BY <2>1
  <2>3. \A u \in Thread : Walks(u, k)' => Followed(u, s, n)'
    BY <1>1, <1>10, <2>2 DEF Walks, Followed
  <2>4. CASE k # l
    <3>1. \A u \in Thread : Stored(u, k)' <=> Stored(u, k)
      BY <1>l, <1>7, <2>4 DEF Stored
    <3>2. \A u \in Thread : Stored(u, k) => hook_job'[u] = hook_job[u]
      BY <1>l, <1>4, <2>4 DEF Stored
    <3>3. Chain(k, s, n)' /\ Appended(k, s, n)'
      BY <1>1, <1>5, <2>2, <2>4, <3>1, <3>2, SameChain
    <3> QED
      BY <2>3, <3>3 DEF ListInv
  <2>5. CASE k = l
    <3>1. Chain(k, s, n)'
      BY <1>1, <2>2 DEF Chain
    <3>2. n > 1 /\ s[n] = h
      BY <1>l, <1>3, <2>2, <2>5 DEF Appended
    <3>3. \A u \in Thread : ~Stored(u, l)'
      BY <1>3, <1>7, <1>8
    <3>4. \A i \in 2..n : s[i] \in added'[l]
      BY <1>l, <1>3, <1>5, <1>8, <2>2, <2>5 DEF Appended
    <3>5. \A x \in added'[l] : \E i \in 2..n : s[i] = x
      <4> SUFFICES ASSUME NEW x \in added'[l] PROVE \E i \in 2..n : s[i] = x
        OBVIOUS
      <4>1. CASE x = h
        BY <3>2, <4>1
      <4>2. CASE x \in added[l]
        BY <2>2, <2>5, <4>2 DEF Appended
      <4> QED
        BY <1>3, <1>5, <4>1, <4>2
    <3>6. Appended(k, s, n)'
      BY <1>3, <1>5, <2>5, <3>2, <3>3, <3>4, <3>5 DEF Appended
    <3> QED
      BY <2>3, <3>1, <3>6 DEF ListInv
  <2> QED
    BY <2>4, <2>5
<1> QED
  BY <1>1, <1>6, <1>9, <1>10, <1>11 DEF HookInv

LEMMA HookStep == HookInv /\ [Hooks!Next]_(Hooks!hookVars) => HookInv'
<1> SUFFICES ASSUME HookInv, [Hooks!Next]_(Hooks!hookVars) PROVE HookInv'
  OBVIOUS
<1>1. CASE UNCHANGED Hooks!hookVars
  <2>1. UNCHANGED <<link, next_ptr, list_lock, added, exit_hooked, hook_job>>
    BY <1>1 DEF Hooks!hookVars
  <2>2. HookTypes' /\ AddingInv'
    BY <2>1 DEF HookInv, HookTypes, AddingInv, Stored
  <2>3. \A l \in Hooks!List, n \in Nat \ {0} : \A s \in [1..n -> Closure] :
          /\ Chain(l, s, n)' <=> Chain(l, s, n)
          /\ Appended(l, s, n)' <=> Appended(l, s, n)
          /\ \A t \in Thread : (Followed(t, s, n)' <=> Followed(t, s, n)) /\ (Walks(t, l)' <=> Walks(t, l))
    BY <2>1 DEF Chain, Appended, Stored, Followed, Walks
  <2>4. \A l \in Hooks!List : ListInv(l)'
    BY <2>3 DEF HookInv, ListInv
  <2> QED
    BY <2>1, <2>2, <2>4 DEF HookInv
<1>2. CASE Hooks!Next
  BY <1>2, AddKeeps, StoreKeeps, AdvanceKeeps, InstrumentSyscallKeeps, HookSystemCallEntryKeeps,
     CallHookKeeps, SystemCallKeeps, ReturnKeeps DEF Hooks!Next
<1> QED
  BY <1>1, <1>2

\* However many threads add hooks while others walk the lists without a lock, around a
\* system call every hook is called once that had been added when the walk began
\* (util/closure.h, user/client.cc).
THEOREM HooksCalledHolds == Hooks!Spec => []HooksCalled
<1>1. HookInv => HooksCalled
  <2> SUFFICES ASSUME HookInv, NEW t \in Thread, hook_job[t].op = "walk", hook_job[t].at = None,
                      hook_job[t].list = "exit" => exit_hooked[hook_job[t].block] = "hooked"
               PROVE  Hooks!CalledAll(t)
    BY DEF HooksCalled, Hooks!HooksCalled, Hooks!Walked, Hooks!Does
  <2> DEFINE l == hook_job[t].list
             c == hook_job[t].called
  <2>1. hook_job[t] \in Walking
    BY JobKinds DEF HookInv
  <2>2. l \in Hooks!List /\ c \in Seq(Hook) /\ Walks(t, l)
    BY <2>1 DEF Walking, Walks
  <2>3. PICK n \in Nat \ {0} : \E s \in [1..n -> Closure] : Chain(l, s, n) /\ Followed(t, s, n)
    BY <2>2 DEF HookInv, ListInv
  <2>4. PICK s \in [1..n -> Closure] : Chain(l, s, n) /\ Followed(t, s, n)
    BY <2>3
  <2>5. Len(c) \in Nat /\ DOMAIN c = 1..Len(c) /\ Len(c) < n /\ \A i \in 1..Len(c) : c[i] = s[i + 1]
    BY <2>2, <2>4 DEF Followed
  <2>6. \A h \in hook_job[t].due : \E i \in 2..n : s[i] = h /\ i <= Len(c) + 1
    BY <2>4 DEF Followed
  <2> HIDE DEF c, l
  <2>7. \A h \in hook_job[t].due : \E i \in DOMAIN c : c[i] = h
    <3> SUFFICES ASSUME NEW h \in hook_job[t].due PROVE \E i \in DOMAIN c : c[i] = h
      OBVIOUS
    <3>1. PICK i \in 2..n : s[i] = h /\ i <= Len(c) + 1
      BY <2>6
    <3>2. i - 1 \in DOMAIN c /\ (i - 1) + 1 = i
      BY <2>5, <3>1
    <3> QED
      BY <2>5, <3>1, <3>2
  <2>8. \A i, j \in DOMAIN c : i # j => c[i] # c[j]
    <3> SUFFICES ASSUME NEW i \in DOMAIN c, NEW j \in DOMAIN c, i # j PROVE c[i] # c[j]
      OBVIOUS
    <3>1. i + 1 \in 1..n /\ j + 1 \in 1..n /\ i + 1 # j + 1
      BY <2>5
    <3> QED
      BY <2>4, <2>5, <3>1 DEF Chain
  <2> QED
    BY <2>7, <2>8 DEF Hooks!CalledAll, Hooks!ToSet, c
<1> QED
  BY <1>1, HookInit, HookStep, PTL DEF Hooks!Spec
-----------------------------------------------------------------------------
(* Samples of contention.  Threads and the monitor write the words of      *)
(* lines without a lock.                                                   *)

SampleAccess == [line : Nat, kind : Kind \cup {"read"}, thread : Thread \cup {None}, base : Thread \cup Nat]
SamplePoint == [type : Nat, line : Nat, accesses : [1..2 -> SampleAccess]]
Allocation == [line : Nat, type : Nat]
SampleJob == [pc : {"idle", "store", "owner", "exchange", "contention", "sample", "fault", "pause", "record"},
              line : Nat, kind : Kind \cup {"read"}, base : Thread \cup Nat, id : Nat]
MonitorState == [pc : {"sleep", "log", "choose", "fill", "test", "reset", "arm"}, slot : Nat,
                 left : Seq(Allocation), samples : Nat]

SampleTypes ==
  /\ tracker \in [Line -> [base : Thread \cup Nat, id : Nat]]
  /\ gSamplePoints \in [0..NumSamples -> SamplePoint]
  /\ gRecentAllocations \in [0..(NumSamples - 1) -> Allocation]
  /\ gNextAllocationIndex \in Nat
  /\ job \in [Thread -> SampleJob]
  /\ touched \in [Line -> SUBSET Thread]
  /\ monitor \in MonitorState

\* Allocations have a type, and the monitor fills samples from lines that are left.
AllocationsInv ==
  /\ \A i \in 0..(NumSamples - 1) :
       gRecentAllocations[i].line # 0 => gRecentAllocations[i].type \in DOMAIN LinesOf
  /\ \A t \in Thread : job[t].pc = "store" => job[t].id \in DOMAIN LinesOf
  /\ monitor.pc = "fill" => monitor.left # << >>

\* Two threads have accessed a line.
Both(l, t, u) == l \in Line /\ t \in touched[l] /\ u \in touched[l] /\ t # u

\* Who has found that a line is not its own will not meet its own base there, and what
\* it finds is the base of another one.
Owner(t) ==
  /\ job[t].pc \in {"owner", "exchange", "contention", "sample", "pause", "record"} =>
       job[t].line \in Line /\ t \in touched[job[t].line]
  /\ job[t].pc = "exchange" => tracker[job[t].line].base # t
  /\ job[t].pc \in {"contention", "sample", "pause", "record"} /\ job[t].base \in Thread =>
       Both(job[t].line, t, job[t].base)

\* A base in a word is that of a thread that has accessed the line.
WordsInv ==
  /\ \A l \in Line : tracker[l].base \in Thread => tracker[l].base \in touched[l]
  /\ \A t \in Thread : Owner(t)

Recorded(a) == a.base \in Thread => Both(a.line, a.thread, a.base)
AccessesInv == \A k \in 0..NumSamples, i \in 1..2 : Recorded(gSamplePoints[k].accesses[i])

SampleInv == SampleTypes /\ AllocationsInv /\ WordsInv /\ AccessesInv

\* What one thread, or the monitor, does to words and jobs.
LEMMA WordsKept ==
  ASSUME SampleTypes, SampleTypes', WordsInv, NEW t,
         \A l \in Line : touched[l] \subseteq touched'[l],
         \A l \in Line : \/ tracker'[l].base = tracker[l].base
                         \/ tracker'[l].base \in Nat
                         \/ tracker'[l].base = t /\ t \in touched'[l],
         \A u \in Thread : u # t => job'[u] = job[u],
         t \in Thread => Owner(t)'
  PROVE  WordsInv'
<1>1. ASSUME NEW l \in Line, tracker'[l].base \in Thread PROVE tracker'[l].base \in touched'[l]
  BY <1>1, SampleAssumption DEF WordsInv
<1>2. ASSUME NEW u \in Thread, u # t PROVE Owner(u)'
  <2>1. job'[u] = job[u] /\ Owner(u)
    BY <1>2 DEF WordsInv
  <2>2. ASSUME job[u].pc \in {"owner", "exchange", "contention", "sample", "pause", "record"}
        PROVE  job[u].line \in Line /\ u \in touched'[job[u].line]
    BY <2>1, <2>2 DEF Owner
  <2>3. ASSUME job[u].pc = "exchange" PROVE tracker'[job[u].line].base # u
    BY <1>2, <2>1, <2>3, SampleAssumption DEF Owner
  <2>4. ASSUME job[u].pc \in {"contention", "sample", "pause", "record"}, job[u].base \in Thread
        PROVE  Both(job[u].line, u, job[u].base)'
    BY <2>1, <2>4 DEF Owner, Both
  <2> QED
    BY <2>1, <2>2, <2>3, <2>4 DEF Owner
<1> QED
  BY <1>1, <1>2 DEF WordsInv

LEMMA AccessesKept ==
  ASSUME AccessesInv,
         \A l \in Line : touched[l] \subseteq touched'[l],
         \A k \in 0..NumSamples, i \in 1..2 :
           gSamplePoints'[k].accesses[i] = gSamplePoints[k].accesses[i] \/ Recorded(gSamplePoints[k].accesses[i])'
  PROVE  AccessesInv'
<1> SUFFICES ASSUME NEW k \in 0..NumSamples, NEW i \in 1..2,
                    gSamplePoints'[k].accesses[i] = gSamplePoints[k].accesses[i]
             PROVE  Recorded(gSamplePoints[k].accesses[i])'
  BY DEF AccessesInv
<1>1. PICK a : a = gSamplePoints[k].accesses[i]
  OBVIOUS
<1>2. a.base \in Thread => Both(a.line, a.thread, a.base)
  BY <1>1 DEF AccessesInv, Recorded
<1>3. a.base \in Thread => Both(a.line, a.thread, a.base)'
  BY <1>2 DEF Both
<1> QED
  BY <1>1, <1>3 DEF Recorded, Both

LEMMA IdleSample == Samples!Idle \in SampleJob /\ Samples!Idle.pc = "idle"
  BY DEF Samples!Idle, SampleJob

LEMMA SampleInitial == Samples!Init => SampleInv
<1> SUFFICES ASSUME Samples!Init PROVE SampleInv
  OBVIOUS
<1>1. Samples!NoAccess \in SampleAccess /\ Samples!NoAccess.base = 0
  BY DEF Samples!NoAccess, SampleAccess
<1>2. Samples!NoSample \in SamplePoint /\ \A i \in 1..2 : Samples!NoSample.accesses[i].base = 0
  BY <1>1 DEF Samples!NoSample, SamplePoint
<1>3. << >> \in Seq(Allocation)
  OBVIOUS
<1>4. SampleTypes
  BY <1>2, <1>3, IdleSample DEF Samples!Init, SampleTypes, Samples!Word, Allocation, MonitorState
<1>5. AllocationsInv
  BY IdleSample DEF Samples!Init, AllocationsInv
<1>6. WordsInv
  BY SampleAssumption, IdleSample DEF Samples!Init, WordsInv, Owner, Samples!Word
<1>7. AccessesInv
  BY <1>2, SampleAssumption DEF Samples!Init, AccessesInv, Recorded
<1> QED
  BY <1>4, <1>5, <1>6, <1>7 DEF SampleInv

\* A thread goes on: its job becomes j, and nobody else's changes.
LEMMA JobTypes ==
  ASSUME SampleInv, NEW t \in Thread, NEW j \in SampleJob, job' = [job EXCEPT ![t] = j]
  PROVE  /\ job' \in [Thread -> SampleJob]
         /\ job'[t] = j
         /\ \A u \in Thread : u # t => job'[u] = job[u]
  BY DEF SampleInv, SampleTypes

LEMMA FetchIndexKeeps ==
  ASSUME SampleInv, NEW t \in Thread, NEW l \in Line, NEW type \in Samples!Type, Samples!FetchIndex(t, l, type)
  PROVE  SampleInv'
<1>1. PICK i \in Nat : i = gNextAllocationIndex % NumSamples
  <2>1. gNextAllocationIndex \in Nat /\ NumSamples \in Nat /\ NumSamples > 0
    BY SampleAssumption DEF SampleInv, SampleTypes
  <2>2. gNextAllocationIndex % NumSamples \in 0..(NumSamples - 1)
    BY <2>1
  <2> QED
    BY <2>1, <2>2
<1>2. PICK j : j = [Samples!Idle EXCEPT !.pc = "store", !.line = l, !.id = type, !.base = i]
  OBVIOUS
<1>3. type \in DOMAIN LinesOf /\ type \in Nat /\ l \in Nat
  BY SampleAssumption DEF Samples!Type
<1>4. j \in SampleJob /\ j.pc = "store" /\ j.id = type
  BY <1>2, <1>3 DEF Samples!Idle, SampleJob
<1>5. /\ job' = [job EXCEPT ![t] = j] /\ gNextAllocationIndex' = gNextAllocationIndex + 1
      /\ UNCHANGED <<gRecentAllocations, tracker, gSamplePoints, monitor, touched>>
  BY <1>1, <1>2 DEF Samples!FetchIndex
<1>6. /\ job' \in [Thread -> SampleJob] /\ job'[t] = j /\ \A u \in Thread : u # t => job'[u] = job[u]
  BY <1>4, <1>5, JobTypes
<1>7. SampleTypes'
  BY <1>5, <1>6 DEF SampleInv, SampleTypes
<1>8. AllocationsInv'
  BY <1>3, <1>4, <1>5, <1>6 DEF SampleInv, AllocationsInv
<1>9. Owner(t)'
  BY <1>4, <1>6 DEF Owner
<1>10. WordsInv'
  BY <1>5, <1>6, <1>7, <1>9, WordsKept DEF SampleInv
<1>11. AccessesInv'
  BY <1>5, AccessesKept DEF SampleInv
<1> QED
  BY <1>7, <1>8, <1>10, <1>11 DEF SampleInv

LEMMA StoreAllocationKeeps ==
  ASSUME SampleInv, NEW t \in Thread, Samples!StoreAllocation(t) PROVE SampleInv'
<1>1. PICK a : a = [line |-> job[t].line, type |-> job[t].id]
  OBVIOUS
<1>2. a \in Allocation /\ a.type \in DOMAIN LinesOf
  BY <1>1 DEF Samples!StoreAllocation, SampleInv, SampleTypes, AllocationsInv, Allocation, SampleJob
<1>3. /\ job' = [job EXCEPT ![t] = Samples!Idle]
      /\ gRecentAllocations' = [gRecentAllocations EXCEPT ![job[t].base] = a]
      /\ UNCHANGED <<gNextAllocationIndex, tracker, gSamplePoints, monitor, touched>>
  BY <1>1 DEF Samples!StoreAllocation
<1>4. /\ job' \in [Thread -> SampleJob] /\ job'[t] = Samples!Idle /\ \A u \in Thread : u # t => job'[u] = job[u]
  BY <1>3, IdleSample, JobTypes
<1>5. /\ gRecentAllocations' \in [0..(NumSamples - 1) -> Allocation]
      /\ \A i \in 0..(NumSamples - 1) : gRecentAllocations'[i] \in {gRecentAllocations[i], a}
  BY <1>2, <1>3 DEF SampleInv, SampleTypes
<1>7. SampleTypes'
  BY <1>3, <1>4, <1>5 DEF SampleInv, SampleTypes
<1>8. AllocationsInv'
  BY <1>2, <1>3, <1>4, <1>5, IdleSample DEF SampleInv, AllocationsInv
<1>9. Owner(t)'
  BY <1>4, IdleSample DEF Owner
<1>10. WordsInv'
  BY <1>3, <1>4, <1>7, <1>9, WordsKept DEF SampleInv
<1>11. AccessesInv'
  BY <1>3, AccessesKept DEF SampleInv
<1> QED
  BY <1>7, <1>8, <1>10, <1>11 DEF SampleInv

\* What a thread does in front of an access leaves allocations and the monitor alone.
LEMMA AccessStep ==
  ASSUME SampleInv, NEW t \in Thread, NEW j \in SampleJob, j.pc # "store",
         job' = [job EXCEPT ![t] = j], UNCHANGED <<gNextAllocationIndex, gRecentAllocations, monitor>>,
         touched' \in [Line -> SUBSET Thread], \A l \in Line : touched[l] \subseteq touched'[l],
         tracker' \in [Line -> [base : Thread \cup Nat, id : Nat]],
         \A l \in Line : \/ tracker'[l].base = tracker[l].base
                         \/ tracker'[l].base \in Nat
                         \/ tracker'[l].base = t /\ t \in touched'[l],
         gSamplePoints' \in [0..NumSamples -> SamplePoint],
         \A k \in 0..NumSamples, i \in 1..2 :
           gSamplePoints'[k].accesses[i] = gSamplePoints[k].accesses[i] \/ Recorded(gSamplePoints[k].accesses[i])',
         Owner(t)'
  PROVE  SampleInv'
<1>1. /\ job' \in [Thread -> SampleJob] /\ job'[t] = j /\ \A u \in Thread : u # t => job'[u] = job[u]
  BY JobTypes
<1>2. SampleTypes'
  BY <1>1 DEF SampleInv, SampleTypes
<1>3. AllocationsInv'
  BY <1>1 DEF SampleInv, AllocationsInv
<1>4. WordsInv'
  BY <1>1, <1>2, WordsKept DEF SampleInv
<1>5. AccessesInv'
  BY AccessesKept DEF SampleInv
<1> QED
  BY <1>2, <1>3, <1>4, <1>5 DEF SampleInv

LEMMA CheckSampleKeeps ==
  ASSUME SampleInv, NEW t \in Thread, NEW l \in Line, NEW kind \in Kind, Samples!CheckSample(t, l, kind)
  PROVE  SampleInv'
<1>1. PICK j : j = IF tracker[l].id = 0 THEN Samples!Idle
                   ELSE [Samples!Idle EXCEPT !.pc = "owner", !.line = l, !.kind = kind]
  OBVIOUS
<1>2. j \in SampleJob /\ j.pc \in {"idle", "owner"} /\ (j.pc = "owner" => j.line = l)
  BY <1>1, SampleAssumption DEF Samples!Idle, SampleJob
<1>3. /\ job' = [job EXCEPT ![t] = j] /\ touched' = [touched EXCEPT ![l] = @ \cup {t}]
      /\ UNCHANGED <<gNextAllocationIndex, gRecentAllocations, tracker, gSamplePoints, monitor>>
  BY <1>1 DEF Samples!CheckSample, Samples!Accessed, Samples!pool
<1>4. touched' \in [Line -> SUBSET Thread] /\ t \in touched'[l] /\ \A x \in Line : touched[x] \subseteq touched'[x]
  BY <1>3 DEF SampleInv, SampleTypes
<1>5. job'[t] = j
  BY <1>2, <1>3, JobTypes
<1>6. Owner(t)'
  BY <1>2, <1>4, <1>5 DEF Owner
<1>7. tracker \in [Line -> [base : Thread \cup Nat, id : Nat]] /\ gSamplePoints \in [0..NumSamples -> SamplePoint]
  BY DEF SampleInv, SampleTypes
<1> QED
  BY <1>2, <1>3, <1>4, <1>6, <1>7, AccessStep

LEMMA CheckOwnerKeeps ==
  ASSUME SampleInv, NEW t \in Thread, Samples!CheckOwner(t) PROVE SampleInv'
<1>1. PICK j : j = IF tracker[job[t].line].base = t THEN Samples!Idle ELSE [job[t] EXCEPT !.pc = "exchange"]
  OBVIOUS
<1>2. j \in SampleJob /\ j.pc \in {"idle", "exchange"}
      /\ (j.pc = "exchange" => j.line = job[t].line /\ tracker[job[t].line].base # t)
  BY <1>1 DEF Samples!Idle, SampleJob, SampleInv, SampleTypes
<1>3. /\ job' = [job EXCEPT ![t] = j] /\ job[t].pc = "owner"
      /\ UNCHANGED <<gNextAllocationIndex, gRecentAllocations, tracker, gSamplePoints, monitor, touched>>
  BY <1>1 DEF Samples!CheckOwner, Samples!pool
<1>4. job[t].line \in Line /\ t \in touched[job[t].line]
  BY <1>3 DEF SampleInv, WordsInv, Owner
<1>5. job'[t] = j
  BY <1>2, <1>3, JobTypes
<1>6. Owner(t)'
  BY <1>2, <1>3, <1>4, <1>5 DEF Owner
<1>7. /\ tracker \in [Line -> [base : Thread \cup Nat, id : Nat]] /\ gSamplePoints \in [0..NumSamples -> SamplePoint]
      /\ touched \in [Line -> SUBSET Thread]
  BY DEF SampleInv, SampleTypes
<1> QED
  BY <1>2, <1>3, <1>6, <1>7, AccessStep

LEMMA ExchangeKeeps ==
  ASSUME SampleInv, NEW t \in Thread, Samples!Exchange(t) PROVE SampleInv'
<1>1. PICK l \in Line : l = job[t].line /\ t \in touched[l] /\ tracker[l].base # t
  BY DEF Samples!Exchange, SampleInv, WordsInv, Owner
<1>0. /\ tracker \in [Line -> [base : Thread \cup Nat, id : Nat]] /\ gSamplePoints \in [0..NumSamples -> SamplePoint]
      /\ touched \in [Line -> SUBSET Thread] /\ job \in [Thread -> SampleJob]
  BY DEF SampleInv, SampleTypes
<1>2. PICK j : j = [job[t] EXCEPT !.pc = "contention", !.base = tracker[l].base, !.id = tracker[l].id]
  OBVIOUS
<1>3. j \in SampleJob /\ j.pc = "contention" /\ j.line = l /\ j.base = tracker[l].base
  BY <1>0, <1>1, <1>2 DEF SampleJob
<1>4. /\ job' = [job EXCEPT ![t] = j] /\ tracker' = [tracker EXCEPT ![l] = Samples!Word(t, 0)]
      /\ UNCHANGED <<gNextAllocationIndex, gRecentAllocations, gSamplePoints, monitor, touched>>
  BY <1>0, <1>1, <1>2 DEF Samples!Exchange, Samples!pool
<1>5. job'[t] = j
  BY <1>3, <1>4, JobTypes
<1>6. /\ tracker' \in [Line -> [base : Thread \cup Nat, id : Nat]]
      /\ tracker'[l].base = t /\ \A x \in Line : x # l => tracker'[x] = tracker[x]
  BY <1>0, <1>4 DEF Samples!Word
<1>7. j.base \in Thread => Both(l, t, j.base)'
  BY <1>1, <1>3, <1>4 DEF SampleInv, WordsInv, Both
<1>8. Owner(t)'
  BY <1>1, <1>3, <1>4, <1>5, <1>7 DEF Owner
<1> QED
  BY <1>0, <1>1, <1>3, <1>4, <1>6, <1>8, AccessStep

LEMMA LockSamplePointsKeeps ==
  ASSUME SampleInv, NEW t \in Thread, Samples!LockSamplePoints(t) PROVE SampleInv'
<1>0. /\ tracker \in [Line -> [base : Thread \cup Nat, id : Nat]] /\ gSamplePoints \in [0..NumSamples -> SamplePoint]
      /\ touched \in [Line -> SUBSET Thread] /\ job \in [Thread -> SampleJob]
  BY DEF SampleInv, SampleTypes
<1>1. PICK j : j = IF job[t].id = 0 THEN Samples!Idle ELSE [job[t] EXCEPT !.pc = "sample"]
  OBVIOUS
<1>2. j \in SampleJob /\ j.pc \in {"idle", "sample"} /\ (j.pc = "sample" => j.line = job[t].line /\ j.base = job[t].base)
  BY <1>0, <1>1 DEF Samples!Idle, SampleJob
<1>3. /\ job' = [job EXCEPT ![t] = j] /\ job[t].pc = "contention"
      /\ UNCHANGED <<gNextAllocationIndex, gRecentAllocations, tracker, gSamplePoints, monitor, touched>>
  BY <1>0, <1>1 DEF Samples!LockSamplePoints, Samples!pool, Samples!Goto
<1>4. job'[t] = j
  BY <1>2, <1>3, JobTypes
<1>5. Owner(t)'
  BY <1>2, <1>3, <1>4 DEF Owner, SampleInv, WordsInv, Both
<1> QED
  BY <1>0, <1>2, <1>3, <1>5, AccessStep

\* A thread that has gone on with what it found.
LEMMA MarkLineKeeps ==
  ASSUME SampleInv, NEW t \in Thread, Samples!MarkLine(t) PROVE SampleInv'
<1>0. /\ tracker \in [Line -> [base : Thread \cup Nat, id : Nat]] /\ gSamplePoints \in [0..NumSamples -> SamplePoint]
      /\ touched \in [Line -> SUBSET Thread] /\ job \in [Thread -> SampleJob]
  BY DEF SampleInv, SampleTypes
<1>1. PICK j \in {Samples!Idle} \cup {[job[t] EXCEPT !.pc = p] : p \in {"fault", "pause", "record"}} :
        job' = [job EXCEPT ![t] = j]
  BY <1>0 DEF Samples!MarkLine, Samples!Release, Samples!Goto
<1>2. /\ j \in SampleJob /\ j.pc \in {"idle", "fault", "pause", "record"}
      /\ (j.pc \in {"pause", "record"} => j.line = job[t].line /\ j.base = job[t].base)
  BY <1>0, <1>1, IdleSample DEF SampleJob
<1>3. /\ job[t].pc = "sample"
      /\ UNCHANGED <<gNextAllocationIndex, gRecentAllocations, gSamplePoints, monitor, touched>>
  BY DEF Samples!MarkLine, Samples!pool
<1>4. PICK l, n : \/ tracker' = tracker
                  \/ n = job[t].id /\ tracker' = [tracker EXCEPT ![l].id = n]
                  \/ tracker' = [tracker EXCEPT ![l] = Samples!Word(0, 0)]
  BY DEF Samples!MarkLine
<1>5. job[t].id \in Nat
  BY <1>0 DEF SampleJob
<1>6. /\ tracker' \in [Line -> [base : Thread \cup Nat, id : Nat]]
      /\ \A x \in Line : tracker'[x].base \in {tracker[x].base, 0}
  <2>1. CASE tracker' = tracker
    BY <1>0, <2>1
  <2>2. CASE n = job[t].id /\ tracker' = [tracker EXCEPT ![l].id = n]
    <3>1. ASSUME NEW x \in Line
          PROVE  tracker'[x] \in [base : Thread \cup Nat, id : Nat] /\ tracker'[x].base = tracker[x].base
      BY <1>0, <1>5, <2>2
    <3> QED
      BY <1>0, <2>2, <3>1
  <2>3. CASE tracker' = [tracker EXCEPT ![l] = Samples!Word(0, 0)]
    BY <1>0, <2>3 DEF Samples!Word
  <2> QED
    BY <1>4, <2>1, <2>2, <2>3
<1>7. job'[t] = j
  BY <1>1, <1>2, JobTypes
<1>61. \A x \in Line : tracker'[x].base = tracker[x].base \/ tracker'[x].base \in Nat
  BY <1>6
<1>8. Owner(t)'
  BY <1>2, <1>3, <1>7 DEF Owner, SampleInv, WordsInv, Both
<1> QED
  BY <1>0, <1>1, <1>2, <1>3, <1>6, <1>61, <1>8, AccessStep

LEMMA PauseKeeps ==
  ASSUME SampleInv, NEW t \in Thread, Samples!Pause(t) PROVE SampleInv'
<1>0. /\ tracker \in [Line -> [base : Thread \cup Nat, id : Nat]] /\ gSamplePoints \in [0..NumSamples -> SamplePoint]
      /\ touched \in [Line -> SUBSET Thread] /\ job \in [Thread -> SampleJob]
  BY DEF SampleInv, SampleTypes
<1>1. PICK j \in {Samples!Idle, [job[t] EXCEPT !.pc = "record"]} : job' = [job EXCEPT ![t] = j]
  BY <1>0 DEF Samples!Pause, Samples!Release, Samples!Goto
<1>2. /\ j \in SampleJob /\ j.pc \in {"idle", "record"}
      /\ (j.pc = "record" => j.line = job[t].line /\ j.base = job[t].base)
  BY <1>0, <1>1, IdleSample DEF SampleJob
<1>3. /\ job[t].pc = "pause"
      /\ UNCHANGED <<gNextAllocationIndex, gRecentAllocations, tracker, gSamplePoints, monitor, touched>>
  BY DEF Samples!Pause, Samples!pool
<1>4. job'[t] = j
  BY <1>1, <1>2, JobTypes
<1>5. Owner(t)'
  BY <1>2, <1>3, <1>4 DEF Owner, SampleInv, WordsInv, Both
<1> QED
  BY <1>0, <1>1, <1>2, <1>3, <1>5, AccessStep

LEMMA RecordAccessKeeps ==
  ASSUME SampleInv, NEW t \in Thread, Samples!RecordAccess(t) PROVE SampleInv'
<1>0. /\ tracker \in [Line -> [base : Thread \cup Nat, id : Nat]] /\ gSamplePoints \in [0..NumSamples -> SamplePoint]
      /\ touched \in [Line -> SUBSET Thread] /\ job \in [Thread -> SampleJob]
  BY DEF SampleInv, SampleTypes
<1>1. PICK a : a = [line |-> job[t].line, kind |-> job[t].kind, thread |-> t, base |-> job[t].base]
  OBVIOUS
<1>2. a \in SampleAccess
  BY <1>0, <1>1 DEF SampleAccess, SampleJob
<1>3. /\ job' = [job EXCEPT ![t] = Samples!Idle] /\ job[t].pc = "record"
      /\ gSamplePoints' = [gSamplePoints EXCEPT ![job[t].id].accesses[Samples!Trace(t)] = a]
      /\ UNCHANGED <<gNextAllocationIndex, gRecentAllocations, tracker, monitor, touched>>
  BY <1>1 DEF Samples!RecordAccess, Samples!Release, Samples!pool
<1>4. PICK n, b : n = job[t].id /\ b = Samples!Trace(t)
  OBVIOUS
<1>5. ASSUME NEW k \in 0..NumSamples
      PROVE  /\ gSamplePoints'[k] \in SamplePoint
             /\ \A i \in 1..2 : gSamplePoints'[k].accesses[i] \in {gSamplePoints[k].accesses[i], a}
  BY <1>0, <1>2, <1>3, <1>4 DEF SamplePoint
<1>6. gSamplePoints' \in [0..NumSamples -> SamplePoint]
  BY <1>0, <1>3, <1>5
<1>7. a.base \in Thread => Both(a.line, a.thread, a.base)'
  BY <1>1, <1>3 DEF SampleInv, WordsInv, Owner, Both
<1>8. \A k \in 0..NumSamples, i \in 1..2 :
        gSamplePoints'[k].accesses[i] = gSamplePoints[k].accesses[i] \/ Recorded(gSamplePoints[k].accesses[i])'
  BY <1>5, <1>7 DEF Recorded, Both
<1>9. job'[t] = Samples!Idle
  BY <1>3, IdleSample, JobTypes
<1>10. Owner(t)'
  BY <1>9, IdleSample DEF Owner
<1> QED
  BY <1>0, <1>3, <1>6, <1>8, <1>10, IdleSample, AccessStep

\* The monitor leaves jobs, allocations and accesses alone, except that it clears these.
LEMMA MonitorStep ==
  ASSUME SampleInv, UNCHANGED <<gNextAllocationIndex, gRecentAllocations, job, touched>>,
         monitor' \in MonitorState,
         monitor'.pc = "fill" => monitor'.left # << >>,
         tracker' \in [Line -> [base : Thread \cup Nat, id : Nat]],
         \A l \in Line : tracker'[l].base = tracker[l].base \/ tracker'[l].base \in Nat,
         gSamplePoints' \in [0..NumSamples -> SamplePoint],
         \A k \in 0..NumSamples, i \in 1..2 :
           \/ gSamplePoints'[k].accesses[i] = gSamplePoints[k].accesses[i]
           \/ gSamplePoints'[k].accesses[i].base = 0
  PROVE  SampleInv'
<1>1. SampleTypes'
  BY DEF SampleInv, SampleTypes
<1>2. AllocationsInv'
  BY DEF SampleInv, AllocationsInv
<1>3. 0 \notin Thread
  BY SampleAssumption
<1>4. WordsInv'
  <2> DEFINE z == 0
  <2>1. z \notin Thread
    BY <1>3
  <2> HIDE DEF z
  <2> QED
    BY <1>1, <2>1, WordsKept DEF SampleInv
<1>5. AccessesInv'
  BY <1>3, AccessesKept DEF SampleInv, Recorded
<1> QED
  BY <1>1, <1>2, <1>4, <1>5 DEF SampleInv

LEMMA MonitorMoves ==
  ASSUME NEW m \in MonitorState, NEW s \in Seq(Allocation)
  PROVE  /\ [m EXCEPT !.slot = @ + 1, !.left = s] \in MonitorState
         /\ [m EXCEPT !.pc = "choose", !.samples = @ + 1, !.left = s] \in MonitorState
         /\ [m EXCEPT !.pc = "test", !.slot = @ + 1] \in MonitorState
         /\ [m EXCEPT !.left = s] \in MonitorState
         /\ \A p \in {"log", "fill", "reset", "arm"} : [m EXCEPT !.pc = p] \in MonitorState
         /\ [m EXCEPT !.pc = "test", !.slot = 1] \in MonitorState
         /\ [pc |-> "sleep", slot |-> 0, left |-> << >>, samples |-> 1] \in MonitorState
         /\ s # << >> => Head(s) \in Allocation /\ Tail(s) \in Seq(Allocation)
<1>1. m.slot \in Nat /\ m.samples \in Nat /\ m.slot + 1 \in Nat /\ m.samples + 1 \in Nat /\ << >> \in Seq(Allocation)
  BY DEF MonitorState
<1>2. [m EXCEPT !.slot = @ + 1, !.left = s] \in MonitorState
  BY <1>1 DEF MonitorState
<1>3. [m EXCEPT !.pc = "choose", !.samples = @ + 1, !.left = s] \in MonitorState
  BY <1>1 DEF MonitorState
<1>4. [m EXCEPT !.pc = "test", !.slot = @ + 1] \in MonitorState
  BY <1>1 DEF MonitorState
<1>5. [m EXCEPT !.left = s] \in MonitorState
  BY <1>1 DEF MonitorState
<1>6. \A p \in {"log", "fill", "reset", "arm"} : [m EXCEPT !.pc = p] \in MonitorState
  BY <1>1 DEF MonitorState
<1>7. [m EXCEPT !.pc = "test", !.slot = 1] \in MonitorState
  BY <1>1 DEF MonitorState
<1>8. [pc |-> "sleep", slot |-> 0, left |-> << >>, samples |-> 1] \in MonitorState
  BY <1>1 DEF MonitorState
<1>9. s # << >> => Head(s) \in Allocation /\ Tail(s) \in Seq(Allocation)
  OBVIOUS
<1> QED
  BY <1>1, <1>2, <1>3, <1>4, <1>5, <1>6, <1>7, <1>8, <1>9

LEMMA MonitorKeeps ==
  ASSUME SampleInv,
         \/ Samples!WriteAcquire \/ Samples!LogAndClear \/ Samples!ChooseAllocation \/ Samples!AddSampleType
         \/ Samples!FillSample \/ Samples!TestSample \/ Samples!ResetTracker \/ Samples!ArmTracker
  PROVE  SampleInv'
<1>0. /\ tracker \in [Line -> [base : Thread \cup Nat, id : Nat]] /\ gSamplePoints \in [0..NumSamples -> SamplePoint]
      /\ monitor \in MonitorState
      /\ gRecentAllocations \in [0..(NumSamples - 1) -> Allocation]
      /\ monitor.pc = "fill" => monitor.left # << >>
  BY DEF SampleInv, SampleTypes, AllocationsInv
<1> USE DEF Samples!monitorOnly, Samples!pool, Samples!MonitorAt
<1>1. CASE Samples!WriteAcquire
  BY <1>0, <1>1, MonitorStep DEF Samples!WriteAcquire, MonitorState
<1>2. CASE Samples!LogAndClear
  <2>1. Samples!NoAccess \in SampleAccess /\ Samples!NoAccess.base = 0
    BY DEF Samples!NoAccess, SampleAccess
  <2>2. Samples!NoSample \in SamplePoint /\ \A i \in 1..2 : Samples!NoSample.accesses[i].base = 0
    BY <2>1 DEF Samples!NoSample, SamplePoint
  <2>3. << >> \in Seq(Allocation)
    OBVIOUS
  <2> QED
    BY <1>0, <1>2, <2>2, <2>3, MonitorStep DEF Samples!LogAndClear, MonitorState
<1>3. CASE Samples!ChooseAllocation
  <2>1. CASE monitor.slot < NumSamples /\ monitor.samples <= NumSamples
    <3>1. PICK a \in Allocation : a = gRecentAllocations[monitor.slot] /\ (a.line # 0 => a.type \in DOMAIN LinesOf)
      <4>1. monitor.slot \in 0..(NumSamples - 1)
        BY <1>0, <2>1, SampleAssumption DEF MonitorState
      <4> QED
        BY <1>0, <4>1 DEF SampleInv, AllocationsInv
    <3>2. Samples!LinesFrom(a) \in Seq(Allocation)
      <4>1. CASE a.line = 0
        BY <4>1 DEF Samples!LinesFrom
      <4>2. CASE a.line # 0
        <5>1. PICK n \in Nat : n = LinesOf[a.type]
          BY <3>1, <4>2, SampleAssumption
        <5>2. \A i \in 1..n : [line |-> a.line + i - 1, type |-> a.type] \in Allocation
          BY DEF Allocation
        <5>3. [i \in 1..n |-> [line |-> a.line + i - 1, type |-> a.type]] \in Seq(Allocation)
          BY <5>2
        <5> QED
          BY <4>2, <5>1, <5>3 DEF Samples!LinesFrom
      <4> QED
        BY <4>1, <4>2
    <3>3. monitor' = [monitor EXCEPT !.slot = @ + 1, !.left = Samples!LinesFrom(a)]
      BY <1>3, <2>1, <3>1 DEF Samples!ChooseAllocation
    <3>31. monitor' \in MonitorState
      BY <1>0, <3>2, <3>3, MonitorMoves
    <3>32. monitor'.pc = monitor.pc
      BY <1>0, <3>3 DEF MonitorState
    <3>4. monitor.pc = "choose" /\ UNCHANGED <<Samples!monitorOnly, tracker, gSamplePoints>>
      BY <1>3 DEF Samples!ChooseAllocation
    <3> QED
      BY <1>0, <3>31, <3>32, <3>4, MonitorStep
  <2>2. CASE ~(monitor.slot < NumSamples /\ monitor.samples <= NumSamples)
    BY <1>0, <1>3, <2>2, MonitorStep DEF Samples!ChooseAllocation, MonitorState
  <2> QED
    BY <2>1, <2>2
<1>4. CASE Samples!AddSampleType
  <2>1. CASE monitor.samples < NumSamples
    <3>1. PICK n \in Nat : n = Head(monitor.left).type
      <4>1. monitor.left \in Seq(Allocation) /\ monitor.left # << >>
        BY <1>0, <1>4 DEF Samples!AddSampleType, MonitorState
      <4>2. Head(monitor.left) \in Allocation
        BY <1>0, <4>1, MonitorMoves
      <4> QED
        BY <4>2 DEF Allocation
    <3>2. /\ gSamplePoints' = [gSamplePoints EXCEPT ![monitor.samples].type = n]
          /\ monitor' = [monitor EXCEPT !.pc = "fill"] /\ monitor.left # << >>
          /\ UNCHANGED <<Samples!monitorOnly, tracker>>
      BY <1>4, <2>1, <3>1 DEF Samples!AddSampleType
    <3>3. ASSUME NEW k \in 0..NumSamples
          PROVE  gSamplePoints'[k] \in SamplePoint /\ gSamplePoints'[k].accesses = gSamplePoints[k].accesses
      BY <1>0, <3>2 DEF SamplePoint
    <3>4. gSamplePoints' \in [0..NumSamples -> SamplePoint]
      BY <1>0, <3>2, <3>3
    <3> QED
      BY <1>0, <3>2, <3>3, <3>4, MonitorStep DEF MonitorState
  <2>2. CASE ~(monitor.samples < NumSamples)
    <3>1. << >> \in Seq(Allocation)
      OBVIOUS
    <3>2. /\ monitor' = [monitor EXCEPT !.left = << >>] /\ monitor.pc = "choose"
          /\ UNCHANGED <<Samples!monitorOnly, tracker, gSamplePoints>>
      BY <1>4, <2>2 DEF Samples!AddSampleType
    <3> QED
      BY <1>0, <3>1, <3>2, MonitorStep DEF MonitorState
  <2> QED
    BY <2>1, <2>2
<1>5. CASE Samples!FillSample
  <2>0. /\ monitor.left \in Seq(Allocation) /\ monitor.samples \in Nat
        /\ Head(monitor.left) \in Allocation /\ Tail(monitor.left) \in Seq(Allocation)
    <3>1. monitor.left \in Seq(Allocation) /\ monitor.left # << >> /\ monitor.samples \in Nat
      BY <1>0, <1>5 DEF Samples!FillSample, MonitorState
    <3> QED
      BY <1>0, <3>1, MonitorMoves
  <2>1. PICK l \in Nat, n \in Nat : l = Head(monitor.left).line /\ n = monitor.samples
    BY <2>0 DEF Allocation
  <2>2. /\ gSamplePoints' = [gSamplePoints EXCEPT ![n].line = l]
        /\ tracker' = [tracker EXCEPT ![l] = Samples!Word(n, 0)]
        /\ monitor' = [monitor EXCEPT !.pc = "choose", !.samples = @ + 1, !.left = Tail(@)]
        /\ UNCHANGED Samples!monitorOnly
    BY <1>5, <2>1 DEF Samples!FillSample
  <2>3. ASSUME NEW k \in 0..NumSamples
        PROVE  gSamplePoints'[k] \in SamplePoint /\ gSamplePoints'[k].accesses = gSamplePoints[k].accesses
    BY <1>0, <2>1, <2>2 DEF SamplePoint
  <2>4. gSamplePoints' \in [0..NumSamples -> SamplePoint]
    BY <1>0, <2>2, <2>3
  <2>5. /\ tracker' \in [Line -> [base : Thread \cup Nat, id : Nat]]
        /\ \A x \in Line : tracker'[x].base = tracker[x].base \/ tracker'[x].base \in Nat
    BY <1>0, <2>1, <2>2 DEF Samples!Word
  <2>6. monitor' \in MonitorState
    BY <1>0, <2>0, <2>2, MonitorMoves
  <2>7. monitor'.pc = "choose"
    BY <1>0, <2>2 DEF MonitorState
  <2> QED
    BY <2>2, <2>3, <2>4, <2>5, <2>6, <2>7, MonitorStep
<1>6. CASE Samples!TestSample
  <2>1. << >> \in Seq(Allocation)
    OBVIOUS
  <2>2. PICK m : /\ m = monitor'
                 /\ \/ m = [pc |-> "sleep", slot |-> 0, left |-> << >>, samples |-> 1]
                    \/ m = [monitor EXCEPT !.pc = "reset"]
                    \/ m = [monitor EXCEPT !.pc = "test", !.slot = @ + 1]
    BY <1>6 DEF Samples!TestSample, Samples!NextSample
  <2>3. m \in MonitorState
    BY <1>0, <2>1, <2>2, MonitorMoves
  <2>4. m.pc # "fill"
    <3>1. CASE m = [pc |-> "sleep", slot |-> 0, left |-> << >>, samples |-> 1]
      BY <3>1
    <3>2. CASE m = [monitor EXCEPT !.pc = "reset"]
      BY <1>0, <3>2 DEF MonitorState
    <3>3. CASE m = [monitor EXCEPT !.pc = "test", !.slot = @ + 1]
      BY <1>0, <3>3 DEF MonitorState
    <3> QED
      BY <2>2, <3>1, <3>2, <3>3
  <2> QED
    BY <1>0, <1>6, <2>2, <2>3, <2>4, MonitorStep DEF Samples!TestSample
<1>7. CASE Samples!ResetTracker
  <2>1. PICK l : l = gSamplePoints[monitor.slot].line
    OBVIOUS
  <2>2. /\ tracker' = [tracker EXCEPT ![l] = Samples!Word(0, 0)] /\ monitor' = [monitor EXCEPT !.pc = "arm"]
        /\ UNCHANGED <<Samples!monitorOnly, gSamplePoints>>
    BY <1>7, <2>1 DEF Samples!ResetTracker
  <2>3. /\ tracker' \in [Line -> [base : Thread \cup Nat, id : Nat]]
        /\ \A x \in Line : tracker'[x].base = tracker[x].base \/ tracker'[x].base \in Nat
    BY <1>0, <2>2 DEF Samples!Word
  <2> QED
    BY <1>0, <2>2, <2>3, MonitorStep DEF MonitorState
<1>8. CASE Samples!ArmTracker
  <2>1. PICK l : l = gSamplePoints[monitor.slot].line
    OBVIOUS
  <2>2. /\ tracker' = [tracker EXCEPT ![l].id = monitor.slot]
        /\ monitor' = [monitor EXCEPT !.pc = "test", !.slot = @ + 1]
        /\ UNCHANGED <<Samples!monitorOnly, gSamplePoints>>
    BY <1>8, <2>1 DEF Samples!ArmTracker, Samples!NextSample
  <2>3. ASSUME NEW x \in Line
        PROVE  tracker'[x] \in [base : Thread \cup Nat, id : Nat] /\ tracker'[x].base = tracker[x].base
    BY <1>0, <2>2 DEF MonitorState
  <2>4. tracker' \in [Line -> [base : Thread \cup Nat, id : Nat]]
    BY <1>0, <2>2, <2>3
  <2>5. monitor' \in MonitorState /\ monitor'.pc = "test"
    <3>1. << >> \in Seq(Allocation)
      OBVIOUS
    <3>2. monitor' \in MonitorState
      BY <1>0, <2>2, <3>1, MonitorMoves
    <3> QED
      BY <1>0, <2>2, <3>2 DEF MonitorState
  <2> QED
    BY <1>0, <2>2, <2>3, <2>4, <2>5, MonitorStep
<1> QED
  BY <1>1, <1>2, <1>3, <1>4, <1>5, <1>6, <1>7, <1>8

LEMMA SampleStep == SampleInv /\ [Samples!Next]_(Samples!samplerVars) => SampleInv'
<1> SUFFICES ASSUME SampleInv, [Samples!Next]_(Samples!samplerVars) PROVE SampleInv'
  OBVIOUS
<1>1. CASE UNCHANGED Samples!samplerVars
  BY <1>1 DEF Samples!samplerVars, SampleInv, SampleTypes, AllocationsInv, WordsInv, Owner, Both, AccessesInv, Recorded
<1> QED
  BY <1>1, FetchIndexKeeps, StoreAllocationKeeps, CheckSampleKeeps, CheckOwnerKeeps, ExchangeKeeps,
     LockSamplePointsKeeps, MarkLineKeeps, PauseKeeps, RecordAccessKeeps, MonitorKeeps DEF Samples!Next

\* For every set of threads, lines, types and samples, and any number of rounds of the
\* monitor: a report whose second access took the line from a thread is about a line
\* that two threads have accessed (malcontent/client.cc).
THEOREM ContentionSharedHolds == Samples!Spec => []ContentionShared
<1>1. SampleInv => ContentionShared
  <2> SUFFICES ASSUME SampleInv, NEW k \in Samples!Ids, Samples!Reported(k), gSamplePoints[k].accesses[2].base \in Thread
               PROVE  \E u, v \in touched[gSamplePoints[k].accesses[1].line] : u # v
    BY DEF ContentionShared, Samples!ContentionShared
  <2>1. k \in 0..NumSamples
    BY SampleAssumption DEF Samples!Ids
  <2>2. PICK a : a = gSamplePoints[k].accesses[2]
    OBVIOUS
  <2>3. Both(a.line, a.thread, a.base)
    BY <2>1, <2>2 DEF SampleInv, AccessesInv, Recorded
  <2>4. gSamplePoints[k].accesses[1].line = a.line
    BY <2>2 DEF Samples!Reported
  <2> QED
    BY <2>3, <2>4 DEF Both
<1> QED
  BY <1>1, SampleInitial, SampleStep, PTL DEF Samples!Spec
-----------------------------------------------------------------------------
(* Types of heap objects.  Threads give ids to types, list by list, and    *)
(* count the ids for all lists together.                                   *)

TypeId == 0..(NumTaints - 1)
Orders == {0} \cup {Types!SizeOrder(n) : n \in NumBytes}
SiteType == [ret_address : Site, size_order : Orders]
OldType == [ret_address : 0..NumTaints, size_order : Orders]
TypeJob == [pc : {"idle", "find", "create", "fetch", "link", "got", "taint", "add"}, type : SiteType \cup {None},
            id : Nat, block : Block, pointer : Nat]
Object == [pointer : Nat, type : SiteType]

TypesTypes ==
  /\ gTypes \in [TypeId -> SiteType \cup OldType \cup {None}]
  /\ gNextTypeId \in Nat
  /\ types \in [Types!List -> Seq(TypeId)]
  /\ writer \in [Types!List -> Thread \cup {None}]
  /\ type_job \in [Thread -> TypeJob]
  /\ objects \in SUBSET Object
  /\ next_addr \in Nat
  /\ type_ids \in [Block -> SUBSET (Nat \cup {None})]
  /\ accessed \in [Block -> SUBSET SiteType]

\* A type has one id, ids are below the next one, and what has an id is in its list.
TypeTable ==
  /\ \A i, j \in TypeId : gTypes[i] = gTypes[j] /\ gTypes[i] # None => i = j
  /\ \A i \in TypeId : gTypes[i] # None => i < gNextTypeId
  /\ \A i \in TypeId : gTypes[i] \in SiteType =>
       \E j \in DOMAIN types[ListOf[gTypes[i].ret_address]] : types[ListOf[gTypes[i].ret_address]][j] = i

\* A thread that makes a type has the lock of its list, and the type has no id; the id
\* that it has fetched is nobody else's.
Creating(t) ==
  /\ type_job[t].pc # "idle" => type_job[t].type \in SiteType
  /\ type_job[t].pc \in {"fetch", "link"} =>
       /\ writer[ListOf[type_job[t].type.ret_address]] = t
       /\ \A i \in TypeId : gTypes[i] # type_job[t].type
  /\ type_job[t].pc = "link" =>
       /\ type_job[t].id \in TypeId /\ type_job[t].id < Types!kMaxWatchpointTypeId
       /\ type_job[t].id < gNextTypeId /\ gTypes[type_job[t].id] = None
       /\ \A u \in Thread : u # t /\ type_job[u].pc = "link" => type_job[u].id # type_job[t].id

\* The id of a type for good: that in the table, or the last one if there are no more
\* ids, nobody having one for this type.
Known(x, i) ==
  \/ i \in TypeId /\ gTypes[i] = x
  \/ /\ i = Types!kMaxWatchpointTypeId /\ i <= gNextTypeId
     /\ \A j \in TypeId : gTypes[j] # x
     /\ \A t \in Thread : type_job[t].pc = "link" => type_job[t].type # x

\* What threads have in hand.
Holding(t) ==
  /\ type_job[t].pc = "got" => Known(type_job[t].type, type_job[t].id)
  /\ type_job[t].pc \in {"taint", "add"} =>
       /\ Known(type_job[t].type, Types!ExtractTaint(type_job[t].pointer))
       /\ Types!Exists(type_job[t].block)

ObjectsInv == \A o \in objects : Known(o.type, Types!ExtractTaint(o.pointer))

Logged(b) ==
  /\ \A x \in accessed[b] : \E i \in TypeId : Known(x, i) /\ i + 1 \in type_ids[b]
  /\ \A n \in type_ids[b] : \E x \in accessed[b], i \in TypeId : Known(x, i) /\ n = i + 1

TypesInv ==
  /\ TypesTypes /\ TypeTable /\ ObjectsInv
  /\ \A t \in Thread : Creating(t) /\ Holding(t)
  /\ \A b \in Block : Types!Exists(b) => Logged(b)

LEMMA TypesFacts ==
  /\ NumTaints \in Nat \ {0} /\ HalfAddrs \in Nat \ {0} /\ None \notin Nat
  /\ Types!kMaxWatchpointTypeId \in TypeId /\ Types!kMaxWatchpointTypeId = NumTaints - 1
  /\ TypeId \subseteq Nat
  /\ Taken \in 0..(NumTaints - 1) /\ MaxObjects \in 0..(HalfAddrs - 1) /\ FirstBlock \in Block
  /\ \A x \in SiteType : x # None
  /\ \A x \in SiteType : x.ret_address \in Site /\ x.ret_address \notin Nat /\ ListOf[x.ret_address] \in Types!List
  /\ \A i \in TypeId : Types!OtherType(i) \in OldType /\ Types!OtherType(i) # None /\ Types!OtherType(i) \notin SiteType
<1>1. \A x \in SiteType : x # None
  BY TypesAssumption DEF SiteType, Orders
<1>2. \A x \in SiteType : x.ret_address \in Site /\ x.ret_address \notin Nat /\ ListOf[x.ret_address] \in Types!List
  BY TypesAssumption DEF SiteType, Types!List
<1>3. \A i \in TypeId : Types!OtherType(i) \in OldType /\ Types!OtherType(i) # None /\ Types!OtherType(i) \notin SiteType
  BY <1>2, TypesAssumption DEF OldType, Orders, TypeId, Types!OtherType
<1> QED
  BY <1>1, <1>2, <1>3, TypesAssumption DEF TypeId, Types!kMaxWatchpointTypeId

\* A pointer keeps the id that has been put into it.
LEMMA TaintKept ==
  ASSUME NEW a \in Nat, a < Types!NumAddrs, NEW i \in TypeId
  PROVE  /\ Types!TaintAddress(a, i) \in Nat
         /\ Types!ExtractTaint(Types!TaintAddress(a, i)) = i
<1>1. PICK n \in Nat : n = Types!NumAddrs /\ n > 0
  BY TypesFacts DEF Types!NumAddrs
<1>2. (2 * i) % (2 * NumTaints) = 2 * i /\ i \in Nat
  BY TypesFacts DEF TypeId
<1>3. a % n = a
  BY <1>1
<1>4. PICK p \in Nat : p = i * n
  BY <1>1, <1>2
<1>5. Types!TaintAddress(a, i) = 2 * p + n + a
  <2>1. (2 * i + 1) * n = 2 * p + n
    BY <1>1, <1>2, <1>4
  <2> QED
    BY <1>1, <1>2, <1>3, <2>1 DEF Types!TaintAddress
<1>6. ASSUME NEW x \in Nat, x = 2 * p + n + a
      PROVE  x \div (2 * n) = i
  <2>1. PICK q \in Nat : q = 2 * n /\ q > 0
    BY <1>1
  <2>2. PICK d \in Nat, r \in 0..(q - 1) : d = x \div q /\ x = q * d + r
    BY <2>1
  <2>3. x = q * i + (n + a) /\ n + a < q
    BY <1>1, <1>2, <1>4, <1>6, <2>1
  <2>4. q * i < q * (d + 1) /\ q * d < q * (i + 1)
    BY <1>1, <1>2, <2>1, <2>2, <2>3
  <2>5. i < d + 1 /\ d < i + 1
    BY <1>2, <2>1, <2>2, <2>4
  <2> QED
    BY <1>2, <2>1, <2>2, <2>5
<1> QED
  BY <1>1, <1>4, <1>5, <1>6 DEF Types!ExtractTaint

LEMMA KnownFacts ==
  ASSUME TypesInv, NEW x \in SiteType
  PROVE  /\ \A i : Known(x, i) => i \in TypeId
         /\ \A i, j : Known(x, i) /\ Known(x, j) => i = j
         /\ \A i : Known(x, i) => Types!IdOf(x) = i
<1>1. \A i : Known(x, i) => i \in TypeId
  BY TypesFacts DEF Known
<1>2. \A i, j : Known(x, i) /\ Known(x, j) => i = j
  BY <1>1, TypesFacts DEF Known, TypesInv, TypeTable
<1>3. ASSUME NEW i, Known(x, i)
      PROVE  Types!IdOf(x) = i
  <2>0. DOMAIN gTypes = TypeId
    BY DEF TypesInv, TypesTypes
  <2>1. CASE i \in TypeId /\ gTypes[i] = x
    <3>1. {j \in DOMAIN gTypes : gTypes[j] = x} = {i}
      BY <2>0, <2>1, TypesFacts DEF TypesInv, TypeTable
    <3>2. Types!Min({i}) = i
      BY <2>1, TypesFacts DEF Types!Min
    <3> QED
      BY <2>0, <2>1, <3>1, <3>2 DEF Types!IdOf
  <2>2. CASE i = Types!kMaxWatchpointTypeId /\ \A j \in TypeId : gTypes[j] # x
    BY <2>0, <2>2 DEF Types!IdOf
  <2> QED
    BY <1>3, <2>1, <2>2 DEF Known
<1> QED
  BY <1>1, <1>2, <1>3

LEMMA TypesInitial == Types!Init => TypesInv
<1> SUFFICES ASSUME Types!Init PROVE TypesInv
  OBVIOUS
<1>1. gTypes \in [TypeId -> SiteType \cup OldType \cup {None}]
  BY TypesFacts DEF Types!Init, TypeId, Types!kMaxWatchpointTypeId
<1>2. \A i \in TypeId : gTypes[i] \notin SiteType /\ (gTypes[i] # None => gTypes[i] = Types!OtherType(i) /\ i < Taken)
  BY TypesFacts DEF Types!Init, TypeId, Types!kMaxWatchpointTypeId
<1>3. \A i, j \in TypeId : Types!OtherType(i) = Types!OtherType(j) => i = j
  BY DEF Types!OtherType
<1>4. TypeTable
  BY <1>2, <1>3 DEF TypeTable, Types!Init
<1>5. type_job \in [Thread -> TypeJob] /\ \A t \in Thread : type_job[t].pc = "idle"
  BY TypesFacts DEF Types!Init, Types!Idle, TypeJob
<1>6. TypesTypes
  <2>1. types \in [Types!List -> Seq(TypeId)] /\ writer \in [Types!List -> Thread \cup {None}]
    BY DEF Types!Init
  <2>2. type_ids \in [Block -> SUBSET (Nat \cup {None})] /\ accessed \in [Block -> SUBSET SiteType]
    BY DEF Types!Init
  <2> QED
    BY <1>1, <1>5, <2>1, <2>2, TypesFacts DEF TypesTypes, Types!Init
<1>7. \A t \in Thread : Creating(t) /\ Holding(t)
  BY <1>5 DEF Creating, Holding
<1>8. \A b \in Block : Types!Exists(b) => Logged(b)
  BY DEF Logged, Types!Exists, Types!Init
<1> QED
  BY <1>4, <1>6, <1>7, <1>8 DEF TypesInv, ObjectsInv, Types!Init

\* A type's id is for good if the table stays, ids are only used up, and nobody else
\* starts to link one.
LEMMA KnownKept ==
  ASSUME TypesInv, gTypes' = gTypes, gNextTypeId' \in Nat, gNextTypeId <= gNextTypeId',
         \A u \in Thread : type_job'[u].pc = "link" =>
            type_job[u].pc = "link" /\ type_job'[u].type = type_job[u].type
  PROVE  \A x \in SiteType, i \in TypeId : Known(x, i) => Known(x, i)'
<1> SUFFICES ASSUME NEW x \in SiteType, NEW i \in TypeId, Known(x, i)
             PROVE  Known(x, i)'
  OBVIOUS
<1>1. CASE gTypes[i] = x
  BY <1>1 DEF Known
<1>2. CASE /\ i = Types!kMaxWatchpointTypeId /\ i <= gNextTypeId
           /\ \A j \in TypeId : gTypes[j] # x
           /\ \A t \in Thread : type_job[t].pc = "link" => type_job[t].type # x
  <2>1. i <= gNextTypeId'
    BY <1>2, TypesFacts DEF TypesInv, TypesTypes
  <2> QED
    BY <1>2, <2>1, TypesFacts DEF Known, Types!kMaxWatchpointTypeId
<1> QED
  BY <1>1, <1>2 DEF Known

\* Then what others have in hand stays right, and so do objects and the log.
LEMMA HeldKept ==
  ASSUME TypesInv, NEW u \in Thread, type_job'[u] = type_job[u],
         \A b \in Block : Types!Exists(b) => Types!Exists(b)',
         \A x \in SiteType, i \in TypeId : Known(x, i) => Known(x, i)'
  PROVE  Holding(u)'
<1>1. PICK j \in TypeJob : j = type_job[u] /\ j = type_job'[u]
  BY DEF TypesInv, TypesTypes
<1>2. j.block \in Block /\ (j.pc # "idle" => j.type \in SiteType)
  BY <1>1 DEF TypesInv, Creating, TypeJob
<1>3. ASSUME j.pc = "got" PROVE Known(j.type, j.id)'
  <2>1. Known(j.type, j.id)
    BY <1>1, <1>3 DEF TypesInv, Holding
  <2> QED
    BY <1>2, <1>3, <2>1, KnownFacts
<1>4. ASSUME j.pc \in {"taint", "add"}
      PROVE  Known(j.type, Types!ExtractTaint(j.pointer))' /\ Types!Exists(j.block)'
  <2>1. Known(j.type, Types!ExtractTaint(j.pointer)) /\ Types!Exists(j.block)
    BY <1>1, <1>4 DEF TypesInv, Holding
  <2>2. PICK e : e = Types!ExtractTaint(j.pointer)
    OBVIOUS
  <2>3. Known(j.type, e)'
    BY <1>2, <1>4, <2>1, <2>2, KnownFacts
  <2> QED
    BY <1>2, <2>1, <2>2, <2>3
<1> QED
  BY <1>1, <1>3, <1>4 DEF Holding

LEMMA ObjectKept ==
  ASSUME TypesInv, NEW o \in objects,
         \A x \in SiteType, i \in TypeId : Known(x, i) => Known(x, i)'
  PROVE  /\ o \in Object /\ Types!ExtractTaint(o.pointer) \in TypeId
         /\ Known(o.type, Types!ExtractTaint(o.pointer))'
<1>1. o \in Object /\ o.type \in SiteType
  BY DEF TypesInv, TypesTypes, Object
<1>2. PICK e : e = Types!ExtractTaint(o.pointer)
  OBVIOUS
<1>3. Known(o.type, e)
  BY <1>2 DEF TypesInv, ObjectsInv
<1> QED
  BY <1>1, <1>2, <1>3, KnownFacts

LEMMA LoggedKept ==
  ASSUME TypesInv, NEW b \in Block, Logged(b),
         type_ids'[b] = type_ids[b], accessed'[b] = accessed[b],
         \A x \in SiteType, i \in TypeId : Known(x, i) => Known(x, i)'
  PROVE  Logged(b)'
<1>1. \A x \in accessed[b] : x \in SiteType
  BY DEF TypesInv, TypesTypes
<1>2. \A x \in accessed[b] : \E i \in TypeId : Known(x, i)' /\ i + 1 \in type_ids[b]
  BY <1>1 DEF Logged
<1>3. \A n \in type_ids[b] : \E x \in accessed[b], i \in TypeId : Known(x, i)' /\ n = i + 1
  BY <1>1 DEF Logged
<1> QED
  BY <1>2, <1>3 DEF Logged

\* The lock and the id of a thread that makes a type.
LEMMA CreatingKept ==
  ASSUME TypesInv, NEW u \in Thread, type_job'[u] = type_job[u], gTypes' = gTypes,
         gNextTypeId' \in Nat, gNextTypeId <= gNextTypeId',
         \A l \in Types!List : writer[l] = u => writer'[l] = u,
         \A v \in Thread : v # u /\ type_job[u].pc = "link" /\ type_job'[v].pc = "link" =>
            type_job'[v].id # type_job[u].id
  PROVE  Creating(u)'
<1>1. PICK j \in TypeJob : j = type_job[u] /\ j = type_job'[u]
  BY DEF TypesInv, TypesTypes
<1>2. j.pc # "idle" => j.type \in SiteType
  BY <1>1 DEF TypesInv, Creating
<1>3. ASSUME j.pc \in {"fetch", "link"}
      PROVE  writer'[ListOf[j.type.ret_address]] = u /\ \A i \in TypeId : gTypes'[i] # j.type
  BY <1>1, <1>2, <1>3, TypesFacts DEF TypesInv, Creating
<1>4. ASSUME j.pc = "link"
      PROVE  /\ j.id \in TypeId /\ j.id < Types!kMaxWatchpointTypeId
             /\ j.id < gNextTypeId' /\ gTypes'[j.id] = None
             /\ \A v \in Thread : v # u /\ type_job'[v].pc = "link" => type_job'[v].id # j.id
  <2>1. /\ j.id \in TypeId /\ j.id < Types!kMaxWatchpointTypeId
        /\ j.id < gNextTypeId /\ gTypes[j.id] = None
    BY <1>1, <1>4 DEF TypesInv, Creating
  <2>2. j.id < gNextTypeId'
    <3>1. j.id \in Nat /\ gNextTypeId \in Nat
      BY <2>1, TypesFacts DEF TypesInv, TypesTypes
    <3> QED
      BY <2>1, <3>1
  <2> QED
    BY <1>1, <1>4, <2>1, <2>2
<1> QED
  BY <1>1, <1>2, <1>3, <1>4 DEF Creating, Types!kMaxWatchpointTypeId

\* What a thread may turn to while the table stays as it is.
Fresh(j) ==
  /\ j.pc \notin {"fetch", "link"} /\ (j.pc # "idle" => j.type \in SiteType)
  /\ j.pc = "got" => Known(j.type, j.id)
  /\ j.pc \in {"taint", "add"} =>
       Known(j.type, Types!ExtractTaint(j.pointer)) /\ Types!Exists(j.block)

\* A step that leaves the table as it is.
LEMMA TableStep ==
  ASSUME TypesInv, UNCHANGED Types!table,
         type_job' \in [Thread -> TypeJob], \A u \in Thread : type_job'[u] = type_job[u] \/ Fresh(type_job'[u]),
         objects' \in SUBSET Object, next_addr' \in Nat,
         \A o \in objects' : Known(o.type, Types!ExtractTaint(o.pointer)),
         type_ids' \in [Block -> SUBSET (Nat \cup {None})], accessed' \in [Block -> SUBSET SiteType],
         \A b \in Block : Types!Exists(b) => Types!Exists(b)',
         \A b \in Block : Types!Exists(b)' =>
           /\ \A x \in accessed'[b] : \E i \in TypeId : Known(x, i) /\ i + 1 \in type_ids'[b]
           /\ \A n \in type_ids'[b] : \E x \in accessed'[b], i \in TypeId : Known(x, i) /\ n = i + 1
  PROVE  TypesInv'
<1>0. /\ gTypes' = gTypes /\ gNextTypeId' = gNextTypeId /\ types' = types /\ writer' = writer
      /\ gNextTypeId' \in Nat /\ gNextTypeId <= gNextTypeId'
  BY DEF Types!table, TypesInv, TypesTypes
<1>1. TypesTypes'
  BY <1>0 DEF TypesInv, TypesTypes
<1>2. TypeTable'
  BY <1>0 DEF TypesInv, TypeTable
<1>3. \A x \in SiteType, i \in TypeId : Known(x, i) => Known(x, i)'
  <2>1. \A u \in Thread : type_job'[u].pc = "link" =>
          type_job[u].pc = "link" /\ type_job'[u].type = type_job[u].type
    BY DEF Fresh
  <2> QED
    BY <1>0, <2>1, KnownKept
<1>4. ASSUME NEW u \in Thread
      PROVE  Creating(u)' /\ Holding(u)'
  <2>1. CASE type_job'[u] = type_job[u]
    <3>1. Holding(u)'
      BY <1>3, <2>1, HeldKept
    <3>2. ASSUME NEW v \in Thread, v # u, type_job[u].pc = "link", type_job'[v].pc = "link"
          PROVE  type_job'[v].id # type_job[u].id
      <4>1. type_job'[v] = type_job[v]
        BY <3>2 DEF Fresh
      <4>2. Creating(u)
        BY DEF TypesInv
      <4> QED
        BY <3>2, <4>1, <4>2 DEF Creating
    <3>3. Creating(u)'
      BY <1>0, <2>1, <3>2, CreatingKept
    <3> QED
      BY <3>1, <3>3
  <2>2. CASE Fresh(type_job'[u])
    <3>1. PICK j \in TypeJob : j = type_job'[u]
      OBVIOUS
    <3>2. Fresh(j) /\ j.block \in Block
      BY <2>2, <3>1 DEF TypeJob
    <3>3. ASSUME j.pc = "got" PROVE Known(j.type, j.id)'
      <4>1. Known(j.type, j.id) /\ j.type \in SiteType
        BY <3>2, <3>3 DEF Fresh
      <4> QED
        BY <1>3, <4>1, KnownFacts
    <3>4. ASSUME j.pc \in {"taint", "add"}
          PROVE  Known(j.type, Types!ExtractTaint(j.pointer))' /\ Types!Exists(j.block)'
      <4>1. PICK e : e = Types!ExtractTaint(j.pointer)
        OBVIOUS
      <4>2. Known(j.type, e) /\ j.type \in SiteType /\ Types!Exists(j.block)
        BY <3>2, <3>4, <4>1 DEF Fresh
      <4>3. Known(j.type, e)'
        BY <1>3, <4>2, KnownFacts
      <4> QED
        BY <3>2, <4>1, <4>2, <4>3
    <3>5. Holding(u)'
      BY <3>1, <3>3, <3>4 DEF Holding
    <3>6. Creating(u)'
      BY <3>1, <3>2 DEF Creating, Fresh
    <3> QED
      BY <3>5, <3>6
  <2> QED
    BY <2>1, <2>2
<1>5. ObjectsInv'
  <2>1. ASSUME NEW o \in objects'
        PROVE  Known(o.type, Types!ExtractTaint(o.pointer))'
    <3>1. PICK e : e = Types!ExtractTaint(o.pointer)
      OBVIOUS
    <3>2. PICK x \in SiteType : x = o.type
      BY DEF Object
    <3>3. Known(x, e)'
      BY <1>3, <3>1, <3>2, KnownFacts
    <3> QED
      BY <3>1, <3>2, <3>3
  <2> QED
    BY <2>1 DEF ObjectsInv
<1>6. ASSUME NEW b \in Block, Types!Exists(b)'
      PROVE  Logged(b)'
  <2>1. accessed'[b] \subseteq SiteType
    OBVIOUS
  <2>2. \A x \in accessed'[b] : \E i \in TypeId : Known(x, i)' /\ i + 1 \in type_ids'[b]
    BY <1>3, <1>6, <2>1
  <2>3. \A n \in type_ids'[b] : \E x \in accessed'[b], i \in TypeId : Known(x, i)' /\ n = i + 1
    BY <1>3, <1>6, <2>1
  <2> QED
    BY <2>2, <2>3 DEF Logged
<1> QED
  BY <1>1, <1>2, <1>4, <1>5, <1>6 DEF TypesInv

\* A step of one thread that leaves the log and the objects as they are, too.
LEMMA JobStep ==
  ASSUME TypesInv, NEW t \in Thread, NEW j \in TypeJob, Fresh(j),
         type_job' = [type_job EXCEPT ![t] = j], UNCHANGED <<Types!table, Types!log, objects, next_addr>>
  PROVE  TypesInv'
<1>1. type_job' \in [Thread -> TypeJob] /\ \A u \in Thread : type_job'[u] = type_job[u] \/ Fresh(type_job'[u])
  BY DEF TypesInv, TypesTypes
<1>2. objects' = objects /\ next_addr' = next_addr /\ type_ids' = type_ids /\ accessed' = accessed
  BY DEF Types!log
<1>3. \A o \in objects' : Known(o.type, Types!ExtractTaint(o.pointer))
  BY <1>2 DEF TypesInv, ObjectsInv
<1>4. \A b \in Block : Types!Exists(b) <=> Types!Exists(b)'
  BY <1>2 DEF Types!Exists
<1>5. \A b \in Block : Types!Exists(b)' =>
           /\ \A x \in accessed'[b] : \E i \in TypeId : Known(x, i) /\ i + 1 \in type_ids'[b]
           /\ \A n \in type_ids'[b] : \E x \in accessed'[b], i \in TypeId : Known(x, i) /\ n = i + 1
  BY <1>2, <1>4 DEF TypesInv, Logged
<1>6. /\ objects' \in SUBSET Object /\ next_addr' \in Nat
      /\ type_ids' \in [Block -> SUBSET (Nat \cup {None})] /\ accessed' \in [Block -> SUBSET SiteType]
  BY <1>2 DEF TypesInv, TypesTypes
<1> QED
  BY <1>1, <1>3, <1>4, <1>5, <1>6, TableStep

LEMMA AllocateKeeps ==
  ASSUME TypesInv, NEW t \in Thread, Types!Allocate(t) PROVE TypesInv'
<1>1. PICK r \in Site, n \in NumBytes :
        type_job' = [type_job EXCEPT ![t] = [Types!Idle EXCEPT !.pc = "find",
                       !.type = [ret_address |-> r, size_order |-> Types!SizeOrder(n)]]]
  BY DEF Types!Allocate
<1>2. PICK x \in SiteType : x = [ret_address |-> r, size_order |-> Types!SizeOrder(n)]
  BY DEF SiteType, Orders
<1>3. PICK j \in TypeJob :
        type_job' = [type_job EXCEPT ![t] = j] /\ j.pc = "find" /\ j.type = x
  <2>1. PICK j : j = [Types!Idle EXCEPT !.pc = "find", !.type = x]
    OBVIOUS
  <2>2. j \in TypeJob /\ j.pc = "find" /\ j.type = x
    BY <2>1, TypesFacts DEF Types!Idle, TypeJob
  <2> QED
    BY <1>1, <1>2, <2>1, <2>2
<1> QED
  BY <1>3, JobStep DEF Types!Allocate, Fresh

\* What a lookup finds is the id of the type; what it does not find has none.
LEMMA Lookup ==
  ASSUME TypesInv, NEW t \in Thread, type_job[t].pc \in {"find", "create"}
  PROVE  /\ \A i \in Types!FindType(t) : i \in TypeId /\ Known(type_job[t].type, i)
         /\ Types!FindType(t) = {} => \A i \in TypeId : gTypes[i] # type_job[t].type
<1>1. PICK x \in SiteType : x = type_job[t].type
  BY DEF TypesInv, Creating
<1>2. Types!MyList(t) = ListOf[x.ret_address] /\ Types!MyList(t) \in Types!List
  BY <1>1, TypesFacts DEF Types!MyList
<1>3. \A k \in DOMAIN types[Types!MyList(t)] : types[Types!MyList(t)][k] \in TypeId
  BY <1>2 DEF TypesInv, TypesTypes
<1>4. \A i \in Types!FindType(t) : i \in TypeId /\ gTypes[i] = x
  BY <1>1, <1>3 DEF Types!FindType
<1>5. ASSUME Types!FindType(t) = {}, NEW i \in TypeId, gTypes[i] = x
      PROVE  FALSE
  <2>1. PICK k \in DOMAIN types[Types!MyList(t)] : types[Types!MyList(t)][k] = i
    BY <1>2, <1>5 DEF TypesInv, TypeTable
  <2> QED
    BY <1>1, <1>5, <2>1 DEF Types!FindType
<1> QED
  BY <1>1, <1>4, <1>5 DEF Known

LEMMA FindTypeIdKeeps ==
  ASSUME TypesInv, NEW t \in Thread, Types!FindTypeId(t) PROVE TypesInv'
<1>1. PICK k \in TypeJob : k = type_job[t] /\ k.pc = "find" /\ k.type \in SiteType
  BY DEF TypesInv, TypesTypes, Creating, Types!FindTypeId
<1>2. CASE Types!FindType(t) = {}
  <2>1. PICK j \in TypeJob : /\ type_job' = [type_job EXCEPT ![t] = j]
                             /\ j.pc = "create" /\ j.type = k.type
    <3>1. type_job' = [type_job EXCEPT ![t] = [k EXCEPT !.pc = "create"]]
      BY <1>1, <1>2 DEF Types!FindTypeId, Types!Goto, TypesInv, TypesTypes
    <3>2. PICK j : j = [k EXCEPT !.pc = "create"]
      OBVIOUS
    <3>3. j \in TypeJob /\ j.pc = "create" /\ j.type = k.type
      BY <3>2 DEF TypeJob
    <3> QED
      BY <3>1, <3>2, <3>3
  <2> QED
    BY <1>1, <2>1, JobStep DEF Types!FindTypeId, Fresh
<1>3. CASE Types!FindType(t) # {}
  <2>1. PICK i \in Types!FindType(t) : Types!Got(t, i)
    BY <1>3 DEF Types!FindTypeId
  <2>2. i \in TypeId /\ Known(k.type, i)
    BY <1>1, Lookup
  <2>3. PICK j \in TypeJob : /\ type_job' = [type_job EXCEPT ![t] = j]
                             /\ j.pc = "got" /\ j.type = k.type /\ j.id = i
    <3>1. type_job' = [type_job EXCEPT ![t] = [k EXCEPT !.pc = "got", !.id = i]]
      BY <1>1, <2>1 DEF Types!Got, TypesInv, TypesTypes
    <3>2. i \in Nat
      BY <2>2, TypesFacts
    <3>3. PICK j : j = [k EXCEPT !.pc = "got", !.id = i]
      OBVIOUS
    <3>4. j \in TypeJob /\ j.pc = "got" /\ j.type = k.type /\ j.id = i
      BY <3>2, <3>3 DEF TypeJob
    <3> QED
      BY <3>1, <3>3, <3>4
  <2> QED
    BY <1>1, <2>2, <2>3, JobStep DEF Types!FindTypeId, Fresh
<1> QED
  BY <1>2, <1>3

LEMMA AccessKeeps ==
  ASSUME TypesInv, NEW t \in Thread, NEW o \in objects, NEW b \in Block, Types!Access(t, o, b)
  PROVE  TypesInv'
<1>1. o.type \in SiteType /\ o.pointer \in Nat
  BY DEF TypesInv, TypesTypes, Object
<1>2. Known(o.type, Types!ExtractTaint(o.pointer)) /\ Types!Exists(b)
  BY DEF TypesInv, ObjectsInv, Types!Access
<1>3. PICK j \in TypeJob : /\ type_job' = [type_job EXCEPT ![t] = j] /\ j.pc = "taint"
                           /\ j.type = o.type /\ j.block = b /\ j.pointer = o.pointer
  <2>1. PICK j : j = [pc |-> "taint", type |-> o.type, id |-> 0, block |-> b, pointer |-> o.pointer]
    OBVIOUS
  <2>2. j \in TypeJob /\ j.pc = "taint" /\ j.type = o.type /\ j.block = b /\ j.pointer = o.pointer
    BY <1>1, <2>1 DEF TypeJob
  <2> QED
    BY <2>1, <2>2 DEF Types!Access
<1> QED
  BY <1>1, <1>2, <1>3, JobStep DEF Types!Access, Fresh

LEMMA CreateTypeKeeps ==
  ASSUME TypesInv, NEW t \in Thread, Types!CreateType(t) PROVE TypesInv'
<1>1. PICK k \in TypeJob : k = type_job[t] /\ k.pc = "create" /\ k.type \in SiteType
  BY DEF TypesInv, TypesTypes, Creating, Types!CreateType
<1>2. CASE Types!FindType(t) # {}
  <2>1. PICK i \in Types!FindType(t) : Types!Got(t, i)
    BY <1>2 DEF Types!CreateType
  <2>2. i \in TypeId /\ Known(k.type, i)
    BY <1>1, Lookup
  <2>3. PICK j \in TypeJob : /\ type_job' = [type_job EXCEPT ![t] = j]
                             /\ j.pc = "got" /\ j.type = k.type /\ j.id = i
    <3>1. type_job' = [type_job EXCEPT ![t] = [k EXCEPT !.pc = "got", !.id = i]]
      BY <1>1, <2>1 DEF Types!Got, TypesInv, TypesTypes
    <3>2. i \in Nat
      BY <2>2, TypesFacts
    <3>3. PICK j : j = [k EXCEPT !.pc = "got", !.id = i]
      OBVIOUS
    <3>4. j \in TypeJob /\ j.pc = "got" /\ j.type = k.type /\ j.id = i
      BY <3>2, <3>3 DEF TypeJob
    <3> QED
      BY <3>1, <3>3, <3>4
  <2>4. UNCHANGED <<Types!table, Types!log, objects, next_addr>>
    BY <1>2 DEF Types!CreateType, Types!table
  <2> QED
    BY <1>1, <2>2, <2>3, <2>4, JobStep DEF Fresh
<1>3. CASE Types!FindType(t) = {}
  <2>1. PICK j \in TypeJob : /\ type_job' = [type_job EXCEPT ![t] = j]
                             /\ j.pc = "fetch" /\ j.type = k.type
    <3>1. type_job' = [type_job EXCEPT ![t] = [k EXCEPT !.pc = "fetch"]]
      BY <1>1, <1>3 DEF Types!CreateType, Types!Goto, TypesInv, TypesTypes
    <3>2. PICK j : j = [k EXCEPT !.pc = "fetch"]
      OBVIOUS
    <3>3. j \in TypeJob /\ j.pc = "fetch" /\ j.type = k.type
      BY <3>2 DEF TypeJob
    <3> QED
      BY <3>1, <3>2, <3>3
  <2>2. PICK l \in Types!List : /\ l = Types!MyList(t) /\ l = ListOf[k.type.ret_address]
                                /\ writer[l] = None /\ writer' = [writer EXCEPT ![l] = t]
    BY <1>1, <1>3, TypesFacts DEF Types!MyList, Types!CreateType
  <2>3. /\ gTypes' = gTypes /\ gNextTypeId' = gNextTypeId /\ types' = types
        /\ type_ids' = type_ids /\ accessed' = accessed /\ objects' = objects /\ next_addr' = next_addr
        /\ type_job'[t] = j /\ \A u \in Thread : u # t => type_job'[u] = type_job[u]
        /\ writer'[l] = t /\ \A m \in Types!List : m # l => writer'[m] = writer[m]
    BY <2>1, <2>2 DEF Types!CreateType, Types!log, TypesInv, TypesTypes
  <2>4. TypesTypes'
    BY <2>1, <2>2, <2>3 DEF TypesInv, TypesTypes
  <2>5. TypeTable'
    BY <2>3 DEF TypesInv, TypeTable
  <2>6. gNextTypeId' \in Nat /\ gNextTypeId <= gNextTypeId'
    BY <2>3 DEF TypesInv, TypesTypes
  <2>7. \A x \in SiteType, i \in TypeId : Known(x, i) => Known(x, i)'
    BY <2>1, <2>3, <2>6, KnownKept
  <2>8. \A b \in Block : Types!Exists(b) <=> Types!Exists(b)'
    BY <2>3 DEF Types!Exists
  <2>9. ASSUME NEW u \in Thread, u # t
        PROVE  Creating(u)' /\ Holding(u)'
    <3>1. Holding(u)'
      BY <2>3, <2>7, <2>8, <2>9, HeldKept
    <3>2. \A v \in Thread : v # u /\ type_job[u].pc = "link" /\ type_job'[v].pc = "link" =>
            type_job'[v].id # type_job[u].id
      BY <2>1, <2>3, <2>9 DEF TypesInv, Creating
    <3>3. \A m \in Types!List : writer[m] = u => writer'[m] = u
      <4>1. u # None
        BY TypesAssumption
      <4> QED
        BY <2>2, <2>3, <4>1
    <3>4. Creating(u)'
      BY <2>3, <2>6, <2>9, <3>2, <3>3, CreatingKept
    <3> QED
      BY <3>1, <3>4
  <2>10. Creating(t)'
    BY <1>1, <1>3, <2>1, <2>2, <2>3, Lookup DEF Creating
  <2>11. Holding(t)'
    BY <2>1, <2>3 DEF Holding
  <2>12. ObjectsInv'
    BY <2>3, <2>7, ObjectKept DEF ObjectsInv
  <2>13. \A b \in Block : Types!Exists(b)' => Logged(b)'
    BY <2>3, <2>7, <2>8, LoggedKept DEF TypesInv
  <2> QED
    BY <2>4, <2>5, <2>9, <2>10, <2>11, <2>12, <2>13 DEF TypesInv
<1> QED
  BY <1>2, <1>3

LEMMA FetchTypeIdKeeps ==
  ASSUME TypesInv, NEW t \in Thread, Types!FetchTypeId(t) PROVE TypesInv'
<1>1. PICK k \in TypeJob : k = type_job[t] /\ k.pc = "fetch" /\ k.type \in SiteType
  BY DEF TypesInv, TypesTypes, Creating, Types!FetchTypeId
<1>2. PICK l \in Types!List : /\ l = Types!MyList(t) /\ l = ListOf[k.type.ret_address]
                              /\ writer[l] = t
  BY <1>1, TypesFacts DEF Types!MyList, TypesInv, Creating
<1>3. /\ gTypes' = gTypes /\ types' = types
      /\ type_ids' = type_ids /\ accessed' = accessed /\ objects' = objects /\ next_addr' = next_addr
      /\ gNextTypeId \in Nat /\ gNextTypeId' = gNextTypeId + 1
  BY DEF Types!FetchTypeId, Types!log, TypesInv, TypesTypes
<1>4. TypeTable'
  <2>1. ASSUME NEW i \in TypeId, gTypes[i] # None PROVE i < gNextTypeId'
    <3>1. i < gNextTypeId /\ i \in Nat
      BY <2>1, TypesFacts DEF TypesInv, TypeTable
    <3> QED
      BY <1>3, <3>1
  <2> QED
    BY <1>3, <2>1 DEF TypesInv, TypeTable
<1>5. gNextTypeId' \in Nat /\ gNextTypeId <= gNextTypeId'
  BY <1>3
<1>6. \A b \in Block : Types!Exists(b) <=> Types!Exists(b)'
  BY <1>3 DEF Types!Exists
<1>7. CASE Types!kMaxWatchpointTypeId <= gNextTypeId
  <2>1. PICK j \in TypeJob : /\ type_job' = [type_job EXCEPT ![t] = j] /\ j.pc = "got"
                             /\ j.type = k.type /\ j.id = Types!kMaxWatchpointTypeId
    <3>1. type_job' = [type_job EXCEPT ![t] = [k EXCEPT !.pc = "got", !.id = Types!kMaxWatchpointTypeId]]
      BY <1>1, <1>7 DEF Types!FetchTypeId, Types!Got, TypesInv, TypesTypes
    <3>2. Types!kMaxWatchpointTypeId \in Nat
      BY TypesFacts
    <3>3. PICK j : j = [k EXCEPT !.pc = "got", !.id = Types!kMaxWatchpointTypeId]
      OBVIOUS
    <3>4. j \in TypeJob /\ j.pc = "got" /\ j.type = k.type /\ j.id = Types!kMaxWatchpointTypeId
      BY <3>2, <3>3 DEF TypeJob
    <3> QED
      BY <3>1, <3>3, <3>4
  <2>2. writer' = [writer EXCEPT ![l] = None]
    BY <1>2, <1>7 DEF Types!FetchTypeId
  <2>3. /\ type_job'[t] = j /\ \A u \in Thread : u # t => type_job'[u] = type_job[u]
        /\ \A m \in Types!List : m # l => writer'[m] = writer[m]
    BY <2>1, <2>2 DEF TypesInv, TypesTypes
  <2>4. TypesTypes'
    BY <1>3, <1>5, <2>1, <2>2 DEF TypesInv, TypesTypes
  <2>5. \A x \in SiteType, i \in TypeId : Known(x, i) => Known(x, i)'
    BY <1>3, <1>5, <2>1, <2>3, KnownKept
  <2>6. ASSUME NEW u \in Thread, u # t
        PROVE  Creating(u)' /\ Holding(u)'
    <3>1. Holding(u)'
      BY <1>6, <2>3, <2>5, <2>6, HeldKept
    <3>2. \A v \in Thread : v # u /\ type_job[u].pc = "link" /\ type_job'[v].pc = "link" =>
            type_job'[v].id # type_job[u].id
      BY <2>1, <2>3, <2>6 DEF TypesInv, Creating
    <3>3. \A m \in Types!List : writer[m] = u => writer'[m] = u
      BY <1>2, <2>3, <2>6
    <3>4. Creating(u)'
      BY <1>3, <1>5, <2>3, <2>6, <3>2, <3>3, CreatingKept
    <3> QED
      BY <3>1, <3>4
  <2>7. Creating(t)'
    BY <1>1, <2>1, <2>3 DEF Creating
  <2>8. Known(k.type, Types!kMaxWatchpointTypeId)'
    <3>1. Types!kMaxWatchpointTypeId <= gNextTypeId'
      BY <1>3, <1>7, TypesFacts
    <3>2. \A i \in TypeId : gTypes[i] # k.type
      BY <1>1 DEF TypesInv, Creating
    <3>3. ASSUME NEW u \in Thread, type_job'[u].pc = "link", type_job'[u].type = k.type
          PROVE  FALSE
      <4>1. u # t /\ type_job[u].pc = "link" /\ type_job[u].type = k.type
        BY <2>1, <2>3, <3>3
      <4>2. writer[l] = u
        BY <1>2, <4>1 DEF TypesInv, Creating
      <4> QED
        BY <1>2, <4>1, <4>2
    <3> QED
      BY <1>3, <3>1, <3>2, <3>3 DEF Known, Types!kMaxWatchpointTypeId
  <2>9. Holding(t)'
    BY <2>1, <2>3, <2>8 DEF Holding, Types!kMaxWatchpointTypeId
  <2>10. ObjectsInv'
    BY <1>3, <2>5, ObjectKept DEF ObjectsInv
  <2>11. \A b \in Block : Types!Exists(b)' => Logged(b)'
    BY <1>3, <1>6, <2>5, LoggedKept DEF TypesInv
  <2> QED
    BY <1>4, <2>4, <2>6, <2>7, <2>9, <2>10, <2>11 DEF TypesInv
<1>8. CASE ~(Types!kMaxWatchpointTypeId <= gNextTypeId)
  <2>0. gNextTypeId \in TypeId /\ gNextTypeId < Types!kMaxWatchpointTypeId
    BY <1>3, <1>8, TypesFacts DEF TypeId
  <2>1. PICK j \in TypeJob : /\ type_job' = [type_job EXCEPT ![t] = j] /\ j.pc = "link"
                             /\ j.type = k.type /\ j.id = gNextTypeId
    <3>1. type_job' = [type_job EXCEPT ![t] = [k EXCEPT !.pc = "link", !.id = gNextTypeId]]
      BY <1>1, <1>8 DEF Types!FetchTypeId, TypesInv, TypesTypes
    <3>2. PICK j : j = [k EXCEPT !.pc = "link", !.id = gNextTypeId]
      OBVIOUS
    <3>3. j \in TypeJob /\ j.pc = "link" /\ j.type = k.type /\ j.id = gNextTypeId
      BY <1>3, <3>2 DEF TypeJob
    <3> QED
      BY <3>1, <3>2, <3>3
  <2>2. /\ type_job'[t] = j /\ \A u \in Thread : u # t => type_job'[u] = type_job[u]
        /\ writer' = writer
    BY <1>8, <2>1 DEF Types!FetchTypeId, TypesInv, TypesTypes
  <2>3. TypesTypes'
    BY <1>3, <1>5, <2>1, <2>2 DEF TypesInv, TypesTypes
  <2>4. \A x \in SiteType, i \in TypeId : Known(x, i) => Known(x, i)'
    BY <1>3, <1>8 DEF Known
  <2>5. ASSUME NEW u \in Thread, u # t, type_job[u].pc = "link"
        PROVE  type_job[u].id # gNextTypeId
    <3>1. type_job[u].id < gNextTypeId
      BY <2>5 DEF TypesInv, Creating
    <3> QED
      BY <1>3, <3>1
  <2>6. ASSUME NEW u \in Thread, u # t
        PROVE  Creating(u)' /\ Holding(u)'
    <3>1. Holding(u)'
      BY <1>6, <2>2, <2>4, <2>6, HeldKept
    <3>2. \A v \in Thread : v # u /\ type_job[u].pc = "link" /\ type_job'[v].pc = "link" =>
            type_job'[v].id # type_job[u].id
      BY <2>1, <2>2, <2>5, <2>6 DEF TypesInv, Creating
    <3>3. Creating(u)'
      BY <1>3, <1>5, <2>2, <2>6, <3>2, CreatingKept
    <3> QED
      BY <3>1, <3>3
  <2>7. Creating(t)'
    <3>1. writer'[ListOf[j.type.ret_address]] = t /\ \A i \in TypeId : gTypes'[i] # j.type
      BY <1>1, <1>2, <1>3, <2>1, <2>2 DEF TypesInv, Creating
    <3>2. gTypes'[j.id] = None
      <4>1. ~(gNextTypeId < gNextTypeId)
        BY <1>3
      <4> QED
        BY <1>3, <2>0, <2>1, <4>1 DEF TypesInv, TypeTable
    <3>3. j.id \in TypeId /\ j.id < Types!kMaxWatchpointTypeId /\ j.id < gNextTypeId'
      BY <1>3, <2>0, <2>1
    <3>4. \A u \in Thread : u # t /\ type_job'[u].pc = "link" => type_job'[u].id # j.id
      BY <2>1, <2>2, <2>5
    <3> QED
      BY <1>1, <2>1, <2>2, <3>1, <3>2, <3>3, <3>4 DEF Creating, Types!kMaxWatchpointTypeId
  <2>8. Holding(t)'
    BY <2>1, <2>2 DEF Holding
  <2>9. ObjectsInv'
    BY <1>3, <2>4, ObjectKept DEF ObjectsInv
  <2>10. \A b \in Block : Types!Exists(b)' => Logged(b)'
    BY <1>3, <1>6, <2>4, LoggedKept DEF TypesInv
  <2> QED
    BY <1>4, <2>3, <2>6, <2>7, <2>8, <2>9, <2>10 DEF TypesInv
<1> QED
  BY <1>7, <1>8

LEMMA LinkTypeKeeps ==
  ASSUME TypesInv, NEW t \in Thread, Types!LinkType(t) PROVE TypesInv'
<1>1. PICK k \in TypeJob : k = type_job[t] /\ k.pc = "link" /\ k.type \in SiteType
  BY DEF TypesInv, TypesTypes, Creating, Types!LinkType
<1>2. PICK l \in Types!List : /\ l = Types!MyList(t) /\ l = ListOf[k.type.ret_address]
                              /\ writer[l] = t
  BY <1>1, TypesFacts DEF Types!MyList, TypesInv, Creating
<1>3. PICK id \in TypeId : /\ id = k.id /\ id < gNextTypeId /\ gTypes[id] = None
                           /\ \A u \in Thread : u # t /\ type_job[u].pc = "link" => type_job[u].id # id
  BY <1>1 DEF TypesInv, Creating
<1>4. \A i \in TypeId : gTypes[i] # k.type
  BY <1>1 DEF TypesInv, Creating
<1>5. PICK j \in TypeJob : /\ type_job' = [type_job EXCEPT ![t] = j] /\ j.pc = "got"
                           /\ j.type = k.type /\ j.id = id
  <2>1. type_job' = [type_job EXCEPT ![t] = [k EXCEPT !.pc = "got"]]
    BY <1>1 DEF Types!LinkType, Types!Goto, TypesInv, TypesTypes
  <2>2. PICK j : j = [k EXCEPT !.pc = "got"]
    OBVIOUS
  <2>3. j \in TypeJob /\ j.pc = "got" /\ j.type = k.type /\ j.id = id
    BY <1>3, <2>2 DEF TypeJob
  <2> QED
    BY <2>1, <2>2, <2>3
<1>6. PICK old \in Seq(TypeId) : old = types[l]
  BY DEF TypesInv, TypesTypes
<1>7. PICK new \in Seq(TypeId) : /\ new = <<id>> \o old /\ 1 \in DOMAIN new /\ new[1] = id
                                 /\ \A q \in DOMAIN old : q + 1 \in DOMAIN new /\ new[q + 1] = old[q]
  <2>1. PICK new : new = <<id>> \o old
    OBVIOUS
  <2>2. new \in Seq(TypeId) /\ 1 \in DOMAIN new /\ new[1] = id
    BY <2>1
  <2>3. \A q \in DOMAIN old : q + 1 \in DOMAIN new /\ new[q + 1] = old[q]
    BY <2>1
  <2> QED
    BY <2>1, <2>2, <2>3
<1>8. /\ gTypes' = [gTypes EXCEPT ![id] = k.type]
      /\ types' = [types EXCEPT ![l] = new]
      /\ writer' = [writer EXCEPT ![l] = None]
      /\ gNextTypeId' = gNextTypeId /\ type_ids' = type_ids /\ accessed' = accessed
      /\ objects' = objects /\ next_addr' = next_addr
  BY <1>1, <1>2, <1>3, <1>6, <1>7 DEF Types!LinkType, Types!log, TypesInv, TypesTypes
<1>9. /\ gTypes'[id] = k.type /\ \A i \in TypeId : i # id => gTypes'[i] = gTypes[i]
      /\ types'[l] = new /\ \A m \in Types!List : m # l => types'[m] = types[m]
      /\ \A m \in Types!List : m # l => writer'[m] = writer[m]
      /\ type_job'[t] = j /\ \A u \in Thread : u # t => type_job'[u] = type_job[u]
  BY <1>5, <1>8 DEF TypesInv, TypesTypes
<1>10. TypesTypes'
  BY <1>1, <1>5, <1>8 DEF TypesInv, TypesTypes
<1>11. TypeTable'
  <2>1. ASSUME NEW i \in TypeId, NEW n \in TypeId, gTypes'[i] = gTypes'[n], gTypes'[i] # None
        PROVE  i = n
    BY <1>4, <1>9, <2>1 DEF TypesInv, TypeTable
  <2>2. ASSUME NEW i \in TypeId, gTypes'[i] # None
        PROVE  i < gNextTypeId'
    BY <1>3, <1>8, <1>9, <2>2 DEF TypesInv, TypeTable
  <2>3. ASSUME NEW i \in TypeId, gTypes'[i] \in SiteType
        PROVE  \E q \in DOMAIN types'[ListOf[gTypes'[i].ret_address]] :
                 types'[ListOf[gTypes'[i].ret_address]][q] = i
    <3>1. CASE i = id
      BY <1>2, <1>7, <1>9, <3>1
    <3>2. CASE i # id
      <4>1. PICK m \in Types!List : m = ListOf[gTypes[i].ret_address] /\ gTypes'[i] = gTypes[i]
        BY <1>9, <2>3, <3>2, TypesFacts
      <4>2. PICK q \in DOMAIN types[m] : types[m][q] = i
        BY <2>3, <4>1 DEF TypesInv, TypeTable
      <4>3. \E q2 \in DOMAIN types'[m] : types'[m][q2] = i
        <5>1. CASE m = l
          <6>1. q + 1 \in DOMAIN types'[m] /\ types'[m][q + 1] = i
            BY <1>6, <1>7, <1>9, <4>2, <5>1
          <6> QED
            BY <6>1
        <5>2. CASE m # l
          BY <1>9, <4>2, <5>2
        <5> QED
          BY <5>1, <5>2
      <4> QED
        BY <4>1, <4>3
    <3> QED
      BY <3>1, <3>2
  <2> QED
    BY <2>1, <2>2, <2>3 DEF TypeTable
<1>12. ASSUME NEW x \in SiteType, NEW i \in TypeId, Known(x, i)
       PROVE  Known(x, i)'
  <2>1. CASE gTypes[i] = x
    BY <1>3, <1>9, <2>1, TypesFacts DEF Known
  <2>2. CASE /\ i = Types!kMaxWatchpointTypeId /\ i <= gNextTypeId
             /\ \A n \in TypeId : gTypes[n] # x
             /\ \A u \in Thread : type_job[u].pc = "link" => type_job[u].type # x
    <3>1. \A n \in TypeId : gTypes'[n] # x
      BY <1>1, <1>9, <2>2
    <3>2. \A u \in Thread : type_job'[u].pc = "link" => type_job'[u].type # x
      BY <1>5, <1>9, <2>2
    <3> QED
      BY <1>8, <2>2, <3>1, <3>2 DEF Known, Types!kMaxWatchpointTypeId
  <2> QED
    BY <1>12, <2>1, <2>2 DEF Known
<1>13. \A b \in Block : Types!Exists(b) <=> Types!Exists(b)'
  BY <1>8 DEF Types!Exists
<1>14. ASSUME NEW u \in Thread, u # t
       PROVE  Creating(u)' /\ Holding(u)'
  <2>1. Holding(u)'
    BY <1>9, <1>12, <1>13, <1>14, HeldKept
  <2>2. PICK h \in TypeJob : h = type_job[u] /\ h = type_job'[u]
    BY <1>9, <1>14 DEF TypesInv, TypesTypes
  <2>3. h.pc # "idle" => h.type \in SiteType
    BY <2>2 DEF TypesInv, Creating
  <2>4. ASSUME h.pc \in {"fetch", "link"}
        PROVE  writer'[ListOf[h.type.ret_address]] = u /\ \A i \in TypeId : gTypes'[i] # h.type
    <3>1. PICK m \in Types!List : m = ListOf[h.type.ret_address]
      BY <2>3, <2>4, TypesFacts
    <3>2. writer[m] = u /\ \A i \in TypeId : gTypes[i] # h.type
      <4>1. Creating(u)
        BY DEF TypesInv
      <4> QED
        BY <2>2, <2>4, <3>1, <4>1 DEF Creating
    <3>3. m # l /\ h.type # k.type
      BY <1>2, <1>14, <3>1, <3>2
    <3> QED
      BY <1>9, <3>1, <3>2, <3>3
  <2>5. ASSUME h.pc = "link"
        PROVE  /\ h.id \in TypeId /\ h.id < Types!kMaxWatchpointTypeId
               /\ h.id < gNextTypeId' /\ gTypes'[h.id] = None
               /\ \A v \in Thread : v # u /\ type_job'[v].pc = "link" => type_job'[v].id # h.id
    <3>1. /\ h.id \in TypeId /\ h.id < Types!kMaxWatchpointTypeId
          /\ h.id < gNextTypeId /\ gTypes[h.id] = None /\ h.id # id
          /\ \A v \in Thread : v # u /\ type_job[v].pc = "link" => type_job[v].id # h.id
      <4>1. Creating(u)
        BY DEF TypesInv
      <4>2. type_job[u].pc = "link" /\ type_job[u].id = h.id /\ h.id # id
        BY <1>3, <1>14, <2>2, <2>5
      <4> QED
        BY <4>1, <4>2 DEF Creating
    <3>2. gTypes'[h.id] = None
      BY <1>9, <3>1
    <3>3. \A v \in Thread : v # u /\ type_job'[v].pc = "link" => type_job'[v].id # h.id
      BY <1>5, <1>9, <3>1
    <3> QED
      BY <1>8, <3>1, <3>2, <3>3
  <2>6. Creating(u)'
    BY <2>2, <2>3, <2>4, <2>5 DEF Creating, Types!kMaxWatchpointTypeId
  <2> QED
    BY <2>1, <2>6
<1>15. Creating(t)'
  BY <1>1, <1>5, <1>9 DEF Creating
<1>16. Holding(t)'
  BY <1>5, <1>9 DEF Holding, Known
<1>17. ObjectsInv'
  BY <1>8, <1>12, ObjectKept DEF ObjectsInv
<1>18. \A b \in Block : Types!Exists(b)' => Logged(b)'
  BY <1>8, <1>12, <1>13, LoggedKept DEF TypesInv
<1> QED
  BY <1>10, <1>11, <1>14, <1>15, <1>16, <1>17, <1>18 DEF TypesInv

\* The log as it was, for steps that leave it.
LEMMA LogKept ==
  ASSUME TypesInv, UNCHANGED Types!log
  PROVE  /\ type_ids' \in [Block -> SUBSET (Nat \cup {None})] /\ accessed' \in [Block -> SUBSET SiteType]
         /\ \A b \in Block : Types!Exists(b) => Types!Exists(b)'
         /\ \A b \in Block : Types!Exists(b)' =>
              /\ \A x \in accessed'[b] : \E i \in TypeId : Known(x, i) /\ i + 1 \in type_ids'[b]
              /\ \A n \in type_ids'[b] : \E x \in accessed'[b], i \in TypeId : Known(x, i) /\ n = i + 1
<1>1. type_ids' = type_ids /\ accessed' = accessed
  BY DEF Types!log
<1>2. \A b \in Block : Types!Exists(b) <=> Types!Exists(b)'
  BY <1>1 DEF Types!Exists
<1>3. \A b \in Block : Types!Exists(b) => Logged(b)
  BY DEF TypesInv
<1> QED
  BY <1>1, <1>2, <1>3 DEF TypesInv, TypesTypes, Logged

LEMMA IdleFresh == Types!Idle \in TypeJob /\ Fresh(Types!Idle)
  BY TypesFacts DEF Types!Idle, TypeJob, Fresh

\* An object at the allocator's next address.
LEMMA NewObject ==
  ASSUME TypesInv, NEW x \in SiteType, NEW i \in TypeId, Known(x, i), next_addr <= MaxObjects
  PROVE  /\ [pointer |-> Types!TaintAddress(next_addr, i), type |-> x] \in Object
         /\ Types!ExtractTaint(Types!TaintAddress(next_addr, i)) = i
         /\ next_addr + 1 \in Nat
<1>1. next_addr \in Nat /\ next_addr < Types!NumAddrs
  BY TypesFacts DEF TypesInv, TypesTypes, Types!NumAddrs
<1> QED
  BY <1>1, TaintKept DEF Object

LEMMA ReturnTaintedKeeps ==
  ASSUME TypesInv, NEW t \in Thread, Types!ReturnTainted(t) PROVE TypesInv'
<1>1. PICK k \in TypeJob : k = type_job[t] /\ k.pc = "got" /\ k.type \in SiteType
  BY DEF TypesInv, TypesTypes, Creating, Types!ReturnTainted
<1>2. Known(k.type, k.id) /\ k.id \in TypeId
  <2>1. Known(k.type, k.id)
    BY <1>1 DEF TypesInv, Holding
  <2> QED
    BY <1>1, <2>1, KnownFacts
<1>3. PICK n : n = [pointer |-> Types!TaintAddress(next_addr, k.id), type |-> k.type]
  OBVIOUS
<1>4. n \in Object /\ n.type = k.type /\ Types!ExtractTaint(n.pointer) = k.id /\ next_addr + 1 \in Nat
  BY <1>1, <1>2, <1>3, NewObject DEF Types!ReturnTainted
<1>5. objects' = objects \cup {n} /\ next_addr' = next_addr + 1
  BY <1>1, <1>3 DEF Types!ReturnTainted
<1>6. \A o \in objects' : Known(o.type, Types!ExtractTaint(o.pointer))
  <2>1. Known(n.type, Types!ExtractTaint(n.pointer))
    BY <1>2, <1>4
  <2> QED
    BY <1>5, <2>1 DEF TypesInv, ObjectsInv
<1>7. objects' \in SUBSET Object
  BY <1>4, <1>5 DEF TypesInv, TypesTypes
<1>8. type_job' \in [Thread -> TypeJob] /\ \A u \in Thread : type_job'[u] = type_job[u] \/ Fresh(type_job'[u])
  BY IdleFresh DEF Types!ReturnTainted, TypesInv, TypesTypes
<1>9. UNCHANGED <<Types!table, Types!log>>
  BY DEF Types!ReturnTainted
<1> QED
  BY <1>4, <1>5, <1>6, <1>7, <1>8, <1>9, LogKept, TableStep

LEMMA ReallocateKeeps ==
  ASSUME TypesInv, NEW t \in Thread, NEW p \in objects, Types!Reallocate(t, p) PROVE TypesInv'
<1>1. PICK x \in SiteType : x = p.type
  BY DEF TypesInv, TypesTypes, Object
<1>2. PICK i \in TypeId : i = Types!ExtractTaint(p.pointer) /\ Known(x, i)
  <2>1. Known(p.type, Types!ExtractTaint(p.pointer))
    BY DEF TypesInv, ObjectsInv
  <2> QED
    BY <1>1, <2>1, KnownFacts
<1>3. PICK n : n = [pointer |-> Types!TaintAddress(next_addr, i), type |-> x]
  OBVIOUS
<1>4. n \in Object /\ n.type = x /\ Types!ExtractTaint(n.pointer) = i /\ next_addr + 1 \in Nat
  BY <1>2, <1>3, NewObject DEF Types!Reallocate
<1>5. objects' = (objects \ {p}) \cup {n} /\ next_addr' = next_addr + 1
  BY <1>1, <1>2, <1>3 DEF Types!Reallocate
<1>6. \A o \in objects' : Known(o.type, Types!ExtractTaint(o.pointer))
  <2>1. Known(n.type, Types!ExtractTaint(n.pointer))
    BY <1>2, <1>4
  <2> QED
    BY <1>5, <2>1 DEF TypesInv, ObjectsInv
<1>7. objects' \in SUBSET Object
  BY <1>4, <1>5 DEF TypesInv, TypesTypes
<1>8. type_job' \in [Thread -> TypeJob] /\ \A u \in Thread : type_job'[u] = type_job[u] \/ Fresh(type_job'[u])
  BY DEF Types!Reallocate, TypesInv, TypesTypes
<1>9. UNCHANGED <<Types!table, Types!log>>
  BY DEF Types!Reallocate
<1> QED
  BY <1>4, <1>5, <1>6, <1>7, <1>8, <1>9, LogKept, TableStep

\* A thread writes down the type in hand, with its id.
LEMMA Written ==
  ASSUME TypesInv, NEW t \in Thread, type_job[t].pc \in {"taint", "add"}
  PROVE  /\ type_job[t].type \in SiteType /\ type_job[t].block \in Block
         /\ Types!Exists(type_job[t].block)
         /\ \E i \in TypeId : Known(type_job[t].type, i) /\ Types!TypeIdOf(t) = i + 1
<1>1. type_job[t].type \in SiteType /\ type_job[t].block \in Block
  BY DEF TypesInv, TypesTypes, TypeJob, Creating
<1>2. Known(type_job[t].type, Types!ExtractTaint(type_job[t].pointer)) /\ Types!Exists(type_job[t].block)
  BY DEF TypesInv, Holding
<1>3. Types!ExtractTaint(type_job[t].pointer) \in TypeId
  BY <1>1, <1>2, KnownFacts
<1> QED
  BY <1>1, <1>2, <1>3 DEF Types!TypeIdOf

LEMMA ObjectsKept ==
  ASSUME TypesInv, UNCHANGED <<objects, next_addr>>
  PROVE  /\ objects' \in SUBSET Object /\ next_addr' \in Nat
         /\ \A o \in objects' : Known(o.type, Types!ExtractTaint(o.pointer))
  BY DEF TypesInv, TypesTypes, ObjectsInv

\* Both ways to write the type down: its id is there, or is added.
LEMMA WriteKeeps ==
  ASSUME TypesInv, NEW t \in Thread, type_job[t].pc \in {"taint", "add"},
         NEW new \in SUBSET {Types!TypeIdOf(t)},
         Types!TypeIdOf(t) \in type_ids[type_job[t].block] \cup new,
         type_ids' = [type_ids EXCEPT ![type_job[t].block] = @ \cup new],
         Types!Accessed(type_job[t].block, type_job[t].type),
         type_job' = [type_job EXCEPT ![t] = Types!Idle],
         UNCHANGED <<Types!table, objects, next_addr>>
  PROVE  TypesInv'
<1>1. PICK x \in SiteType, c \in Block, i \in TypeId :
         /\ x = type_job[t].type /\ c = type_job[t].block /\ Types!Exists(c)
         /\ Known(x, i) /\ Types!TypeIdOf(t) = i + 1
  BY Written
<1>2. i + 1 \in Nat /\ i + 1 # None
  <2>1. i \in Nat /\ None \notin Nat
    BY TypesFacts
  <2> QED
    BY <2>1
<1>3. /\ type_ids'[c] = type_ids[c] \cup new /\ accessed'[c] = accessed[c] \cup {x}
      /\ new \subseteq {i + 1} /\ i + 1 \in type_ids'[c]
      /\ \A b \in Block : b # c => type_ids'[b] = type_ids[b] /\ accessed'[b] = accessed[b]
  BY <1>1 DEF Types!Accessed, TypesInv, TypesTypes
<1>4. type_ids' \in [Block -> SUBSET (Nat \cup {None})] /\ accessed' \in [Block -> SUBSET SiteType]
  BY <1>1, <1>2 DEF Types!Accessed, TypesInv, TypesTypes
<1>5. Types!Exists(c)'
  BY <1>2, <1>3 DEF Types!Exists
<1>6. \A b \in Block : b # c => (Types!Exists(b) <=> Types!Exists(b)')
  BY <1>3 DEF Types!Exists
<1>7. \A b \in Block : Types!Exists(b) => Types!Exists(b)'
  BY <1>5, <1>6
<1>8. ASSUME NEW b \in Block, Types!Exists(b)'
      PROVE  /\ \A y \in accessed'[b] : \E n \in TypeId : Known(y, n) /\ n + 1 \in type_ids'[b]
             /\ \A n \in type_ids'[b] : \E y \in accessed'[b], m \in TypeId : Known(y, m) /\ n = m + 1
  <2>1. Logged(b)
    BY <1>1, <1>6, <1>8 DEF TypesInv
  <2>2. CASE b # c
    BY <1>3, <2>1, <2>2 DEF Logged
  <2>3. CASE b = c
    <3>1. \A y \in accessed'[c] : \E n \in TypeId : Known(y, n) /\ n + 1 \in type_ids'[c]
      BY <1>1, <1>3, <2>1, <2>3 DEF Logged
    <3>2. \A n \in type_ids'[c] : \E y \in accessed'[c], m \in TypeId : Known(y, m) /\ n = m + 1
      BY <1>1, <1>3, <2>1, <2>3 DEF Logged
    <3> QED
      BY <2>3, <3>1, <3>2
  <2> QED
    BY <2>2, <2>3
<1>9. type_job' \in [Thread -> TypeJob] /\ \A u \in Thread : type_job'[u] = type_job[u] \/ Fresh(type_job'[u])
  BY IdleFresh DEF TypesInv, TypesTypes
<1>10. UNCHANGED Types!table /\ UNCHANGED <<objects, next_addr>>
  OBVIOUS
<1> QED
  BY <1>4, <1>7, <1>8, <1>9, <1>10, ObjectsKept, TableStep

LEMMA CheckBlockKeeps ==
  ASSUME TypesInv, NEW t \in Thread, Types!CheckBlock(t) PROVE TypesInv'
<1>1. PICK k \in TypeJob : k = type_job[t] /\ k.pc = "taint" /\ k.type \in SiteType
  BY DEF TypesInv, TypesTypes, Creating, Types!CheckBlock
<1>2. CASE Types!TypeIdOf(t) \in type_ids[k.block]
  <2>1. /\ type_ids' = [type_ids EXCEPT ![type_job[t].block] = @ \cup {}]
        /\ Types!Accessed(type_job[t].block, type_job[t].type)
        /\ type_job' = [type_job EXCEPT ![t] = Types!Idle]
        /\ UNCHANGED <<Types!table, objects, next_addr>>
    BY <1>1, <1>2 DEF Types!CheckBlock, TypesInv, TypesTypes
  <2>2. PICK new \in SUBSET {Types!TypeIdOf(t)} : new = {}
    OBVIOUS
  <2>3. /\ type_job[t].pc \in {"taint", "add"}
        /\ Types!TypeIdOf(t) \in type_ids[type_job[t].block] \cup new
        /\ type_ids' = [type_ids EXCEPT ![type_job[t].block] = @ \cup new]
    BY <1>1, <1>2, <2>1, <2>2
  <2> QED
    BY <2>1, <2>3, WriteKeeps
<1>3. CASE Types!TypeIdOf(t) \notin type_ids[k.block]
  <2>1. type_job' = [type_job EXCEPT ![t] = [k EXCEPT !.pc = "add"]]
    BY <1>1, <1>3 DEF Types!CheckBlock, Types!Goto, TypesInv, TypesTypes
  <2>2. PICK j : j = [k EXCEPT !.pc = "add"]
    OBVIOUS
  <2>3. /\ j \in TypeJob /\ j.pc = "add" /\ j.type = k.type /\ j.block = k.block
        /\ j.pointer = k.pointer
    BY <2>2 DEF TypeJob
  <2>4. Known(k.type, Types!ExtractTaint(k.pointer)) /\ Types!Exists(k.block)
    BY <1>1 DEF TypesInv, Holding
  <2>5. Fresh(j)
    BY <1>1, <2>3, <2>4 DEF Fresh
  <2>6. UNCHANGED <<Types!table, Types!log, objects, next_addr>>
    BY <1>1, <1>3 DEF Types!CheckBlock, Types!log
  <2> QED
    BY <2>1, <2>2, <2>3, <2>5, <2>6, JobStep
<1> QED
  BY <1>2, <1>3

LEMMA TaintBlockKeeps ==
  ASSUME TypesInv, NEW t \in Thread, Types!TaintBlock(t) PROVE TypesInv'
  BY WriteKeeps DEF Types!TaintBlock

LEMMA CopyMetaDataKeeps ==
  ASSUME TypesInv, NEW b \in Block, NEW c \in Block, Types!CopyMetaData(b, c) PROVE TypesInv'
<1>1. /\ type_ids'[c] = type_ids[b] /\ accessed'[c] = accessed[b]
      /\ \A d \in Block : d # c => type_ids'[d] = type_ids[d] /\ accessed'[d] = accessed[d]
  BY DEF Types!CopyMetaData, TypesInv, TypesTypes
<1>2. type_ids' \in [Block -> SUBSET (Nat \cup {None})] /\ accessed' \in [Block -> SUBSET SiteType]
  BY DEF Types!CopyMetaData, TypesInv, TypesTypes
<1>3. \A d \in Block : d # c => (Types!Exists(d) <=> Types!Exists(d)')
  BY <1>1 DEF Types!Exists
<1>4. \A d \in Block : Types!Exists(d) => Types!Exists(d)'
  BY <1>3 DEF Types!CopyMetaData
<1>5. ASSUME NEW d \in Block, Types!Exists(d)'
      PROVE  /\ \A y \in accessed'[d] : \E n \in TypeId : Known(y, n) /\ n + 1 \in type_ids'[d]
             /\ \A n \in type_ids'[d] : \E y \in accessed'[d], m \in TypeId : Known(y, m) /\ n = m + 1
  <2>1. CASE d = c
    <3>1. Logged(b)
      BY DEF TypesInv, Types!CopyMetaData
    <3> QED
      BY <1>1, <2>1, <3>1 DEF Logged
  <2>2. CASE d # c
    <3>1. Logged(d)
      BY <1>3, <1>5, <2>2 DEF TypesInv
    <3> QED
      BY <1>1, <2>2, <3>1 DEF Logged
  <2> QED
    BY <2>1, <2>2
<1>6. type_job' \in [Thread -> TypeJob] /\ \A u \in Thread : type_job'[u] = type_job[u] \/ Fresh(type_job'[u])
  BY DEF Types!CopyMetaData, TypesInv, TypesTypes
<1>7. UNCHANGED Types!table /\ UNCHANGED <<objects, next_addr>>
  BY DEF Types!CopyMetaData
<1> QED
  BY <1>2, <1>4, <1>5, <1>6, <1>7, ObjectsKept, TableStep

LEMMA TypesStep == TypesInv /\ [Types!Next]_(Types!polyVars) => TypesInv'
<1> SUFFICES ASSUME TypesInv, [Types!Next]_(Types!polyVars) PROVE TypesInv'
  OBVIOUS
<1>1. CASE UNCHANGED Types!polyVars
  <2>1. /\ UNCHANGED Types!table /\ UNCHANGED Types!log /\ UNCHANGED <<objects, next_addr>>
        /\ type_job' = type_job
    BY <1>1 DEF Types!polyVars, Types!table, Types!log
  <2>2. type_job' \in [Thread -> TypeJob] /\ \A u \in Thread : type_job'[u] = type_job[u] \/ Fresh(type_job'[u])
    BY <2>1 DEF TypesInv, TypesTypes
  <2> QED
    BY <2>1, <2>2, LogKept, ObjectsKept, TableStep
<1>2. CASE Types!Next
  BY <1>2, AllocateKeeps, FindTypeIdKeeps, CreateTypeKeeps, FetchTypeIdKeeps, LinkTypeKeeps,
     ReturnTaintedKeeps, CheckBlockKeeps, TaintBlockKeeps, ReallocateKeeps, AccessKeeps,
     CopyMetaDataKeeps DEF Types!Next
<1> QED
  BY <1>1, <1>2

\* The ids of a block in poly_code's log are those of the types it has accessed, for any
\* number of threads, sites, lists and blocks and any number of ids.
THEOREM TypesRecordedHolds == Types!Spec => []TypesRecorded
<1>1. ASSUME TypesInv PROVE TypesRecorded
  <2> SUFFICES ASSUME NEW b \in Block, Types!Exists(b)
               PROVE  type_ids[b] = {Types!IdOf(x) + 1 : x \in accessed[b]}
    BY DEF TypesRecorded, Types!TypesRecorded
  <2>1. Logged(b) /\ \A x \in accessed[b] : x \in SiteType
    BY <1>1 DEF TypesInv, TypesTypes
  <2>2. \A x \in accessed[b] : Types!IdOf(x) + 1 \in type_ids[b]
    BY <1>1, <2>1, KnownFacts DEF Logged
  <2>3. \A n \in type_ids[b] : \E x \in accessed[b] : n = Types!IdOf(x) + 1
    BY <1>1, <2>1, KnownFacts DEF Logged
  <2> QED
    BY <2>2, <2>3
<1> QED
  BY <1>1, TypesInitial, TypesStep, PTL DEF Types!Spec
-----------------------------------------------------------------------------
(* Function wrappers.                                                      *)

\* Wrappers of the first d that were registered with the function of the k-th.
Before(k) == {j \in 1..(k - 1) : Function[order[j]] = Function[order[k]]}

LEMMA NumberIs == \A k : Wrap!Number(k) = Cardinality(Before(k))
BY DEF Wrap!Number, Wrap!Cardinality, Before, Cardinality

\* The first place in a list where wrappers of w's module are not before w, or 0.
PlaceFor(lst, w) ==
  Wrap!SelectInSeq(lst, LAMBDA x : /\ Function[x].module = Function[w].module
                                   /\ Function[w].offset <= Function[x].offset)
NotBefore(x, w) == Function[x].module = Function[w].module /\ Function[w].offset <= Function[x].offset

\* The least-number principle, for a set of numbers.
LEMMA LeastNumber == ASSUME NEW T \in SUBSET Nat, T # {}
                     PROVE  \E n \in T : \A m \in T : n <= m
<1> DEFINE R == {ss \in Nat \X Nat : ss[1] < ss[2]}
<1>1. IsWellFoundedOn(R, Nat)
  BY NatLessThanWellFounded DEF OpToRel
<1>2. PICK x \in T : \A y \in T : ~(<<y, x>> \in R)
  BY <1>1, WFMin
<1>3. \A y \in T : ~(y < x)
  BY <1>2
<1> QED
  BY <1>3

LEMMA PlaceForIs ==
  ASSUME NEW lst \in Seq(Wrapper), NEW w
  PROVE  /\ PlaceFor(lst, w) = 0 => \A i \in 1..Len(lst) : ~NotBefore(lst[i], w)
         /\ PlaceFor(lst, w) # 0 =>
              /\ PlaceFor(lst, w) \in 1..Len(lst) /\ NotBefore(lst[PlaceFor(lst, w)], w)
              /\ \A i \in 1..(PlaceFor(lst, w) - 1) : ~NotBefore(lst[i], w)
<1> DEFINE I == {i \in 1..Len(lst) : NotBefore(lst[i], w)}
<1>0. Len(lst) \in Nat
  OBVIOUS
<1>1. PlaceFor(lst, w) = IF I # {} THEN Wrap!Min(I) ELSE 0
  BY DEF PlaceFor, NotBefore, Wrap!SelectInSeq
<1>2. CASE I = {}
  BY <1>1, <1>2
<1>3. CASE I # {}
  <2>1. I \subseteq Nat
    BY <1>0
  <2>2. \E x \in I : \A y \in I : x <= y
    BY <1>3, <2>1, LeastNumber
  <2>3. Wrap!Min(I) \in I /\ \A y \in I : Wrap!Min(I) <= y
    <3> HIDE DEF I
    <3> QED
      BY <2>2 DEF Wrap!Min
  <2>4. PICK p : p = Wrap!Min(I)
    OBVIOUS
  <2>5. p \in 1..Len(lst) /\ NotBefore(lst[p], w) /\ p # 0
    BY <1>0, <2>3, <2>4
  <2>6. ASSUME NEW i \in 1..(p - 1) PROVE ~NotBefore(lst[i], w)
    <3>1. i \in 1..Len(lst) /\ ~(p <= i)
      BY <1>0, <2>5
    <3> QED
      BY <2>3, <2>4, <3>1
  <2> QED
    BY <1>1, <1>3, <2>4, <2>5, <2>6
<1> QED
  BY <1>2, <1>3

IsConcat(c, q, w) ==
  /\ c \in Seq(Wrapper) /\ Len(c) = Len(q) + Len(w)
  /\ \A i \in 1..(Len(q) + Len(w)) : c[i] = IF i <= Len(q) THEN q[i] ELSE w[i - Len(q)]
LEMMA ConcatIs ==
  ASSUME NEW q \in Seq(Wrapper), NEW w \in Seq(Wrapper)
  PROVE  IsConcat(q \o w, q, w)
BY DEF IsConcat

\* An element goes into a list.
LEMMA InsertedIs ==
  ASSUME NEW lst \in Seq(Wrapper), NEW w \in Wrapper, NEW p \in 1..(Len(lst) + 1)
  PROVE  /\ Wrap!InsertAt(lst, p, w) \in Seq(Wrapper) /\ Len(Wrap!InsertAt(lst, p, w)) = Len(lst) + 1
         /\ \A i \in 1..(Len(lst) + 1) :
              Wrap!InsertAt(lst, p, w)[i] = IF i < p THEN lst[i] ELSE IF i = p THEN w ELSE lst[i - 1]
<1>0. Len(lst) \in Nat /\ p \in Nat
  OBVIOUS
<1>1. PICK u : u = SubSeq(lst, 1, p - 1)
  OBVIOUS
<1>2. PICK v : v = SubSeq(lst, p, Len(lst))
  OBVIOUS
<1>3. PICK m : m = <<w>>
  OBVIOUS
<1>4. u \in Seq(Wrapper) /\ Len(u) = p - 1 /\ \A i \in 1..(p - 1) : u[i] = lst[i]
  BY <1>0, <1>1
<1>5. v \in Seq(Wrapper) /\ Len(v) = Len(lst) - p + 1 /\ \A i \in 1..(Len(lst) - p + 1) : v[i] = lst[p + i - 1]
  BY <1>0, <1>2
<1>6. m \in Seq(Wrapper) /\ Len(m) = 1 /\ m[1] = w
  BY <1>3
<1>7. PICK c : c = u \o m
  OBVIOUS
<1>8. c \in Seq(Wrapper) /\ Len(c) = p /\ c[p] = w /\ \A i \in 1..(p - 1) : c[i] = lst[i]
  <2>1. /\ c \in Seq(Wrapper) /\ Len(c) = Len(u) + Len(m)
        /\ \A i \in 1..(Len(u) + Len(m)) : c[i] = IF i <= Len(u) THEN u[i] ELSE m[i - Len(u)]
    <3>1. IsConcat(c, u, m)
      BY <1>4, <1>6, <1>7, ConcatIs
    <3> QED
      BY <3>1 DEF IsConcat
  <2>2. Len(u) = p - 1 /\ Len(m) = 1 /\ (p - 1) + 1 = p /\ p - (p - 1) = 1 /\ p \in 1..p /\ ~(p <= p - 1)
    BY <1>0, <1>4, <1>6
  <2>3. Len(c) = p /\ c[p] = w
    BY <1>6, <2>1, <2>2
  <2>4. ASSUME NEW i \in 1..(p - 1) PROVE c[i] = lst[i]
    <3>1. i \in 1..p /\ i <= p - 1
      BY <1>0
    <3> QED
      BY <1>4, <2>1, <2>2, <3>1
  <2> QED
    BY <2>1, <2>3, <2>4
<1>9. PICK d : d = c \o v
  OBVIOUS
<1>10. /\ d \in Seq(Wrapper) /\ Len(d) = Len(lst) + 1
       /\ \A i \in 1..(Len(lst) + 1) : d[i] = IF i <= p THEN c[i] ELSE v[i - p]
  <2>1. /\ d \in Seq(Wrapper) /\ Len(d) = Len(c) + Len(v)
        /\ \A i \in 1..(Len(c) + Len(v)) : d[i] = IF i <= Len(c) THEN c[i] ELSE v[i - Len(c)]
    <3>1. IsConcat(d, c, v)
      BY <1>5, <1>8, <1>9, ConcatIs
    <3> QED
      BY <3>1 DEF IsConcat
  <2>2. Len(c) = p /\ Len(c) + Len(v) = Len(lst) + 1
    BY <1>0, <1>5, <1>8
  <2> QED
    BY <2>1, <2>2
<1>11. \A i \in 1..(Len(lst) + 1) : i > p => i - p \in 1..(Len(lst) - p + 1) /\ p + (i - p) - 1 = i - 1
  BY <1>0
<1>12. ASSUME NEW i \in 1..(Len(lst) + 1)
       PROVE  d[i] = IF i < p THEN lst[i] ELSE IF i = p THEN w ELSE lst[i - 1]
  <2>1. CASE i < p
    <3>1. i \in 1..(p - 1) /\ i <= p
      BY <1>0, <2>1
    <3> QED
      BY <1>8, <1>10, <2>1, <3>1
  <2>2. CASE i = p
    BY <1>0, <1>8, <1>10, <2>2
  <2>3. CASE i > p
    <3>1. i - p \in 1..(Len(lst) - p + 1) /\ p + (i - p) - 1 = i - 1 /\ ~(i <= p)
      BY <1>0, <1>11, <2>3
    <3>2. d[i] = v[i - p]
      BY <1>10, <3>1
    <3>3. v[i - p] = lst[i - 1]
      BY <1>5, <3>1
    <3> QED
      BY <1>0, <2>3, <3>2, <3>3
  <2> QED
    BY <1>0, <2>1, <2>2, <2>3
<1>13. Wrap!InsertAt(lst, p, w) = d
  BY <1>1, <1>2, <1>3, <1>7, <1>9 DEF Wrap!InsertAt
<1> QED
  BY <1>10, <1>12, <1>13

Same(x, y) == Function[x] = Function[y]

LEMMA FunctionsAre ==
  ASSUME NEW x \in Wrapper, NEW y \in Wrapper
  PROVE  /\ Function[x].offset \in Nat /\ Function[y].offset \in Nat
         /\ Same(x, y) <=> Function[x].module = Function[y].module /\ Function[x].offset = Function[y].offset
BY WrapAssumption DEF In, Same

\* Wrappers of one module are in the order of their functions.
InModuleOrder(lst) ==
  \A i, j \in 1..Len(lst) :
    i < j /\ Function[lst[i]].module = Function[lst[j]].module => Function[lst[i]].offset <= Function[lst[j]].offset

\* Wrappers of one function are next to each other.
Together(lst) ==
  \A i, j, l \in 1..Len(lst) : i < j /\ j < l /\ Same(lst[i], lst[l]) => Same(lst[j], lst[i])

\* Wrapper w belongs at p, and the wrappers of its function are those from a on.
IsPlace(p, a, lst, w) ==
  /\ p \in 1..(Len(lst) + 1) /\ a \in 1..p
  /\ \A i \in 1..Len(lst) : Same(lst[i], w) <=> a <= i /\ i < p
  /\ \A i \in 1..Len(lst) : Function[lst[i]].module = Function[w].module =>
       /\ i < p => Function[lst[i]].offset <= Function[w].offset
       /\ p <= i => Function[w].offset <= Function[lst[i]].offset
  /\ \A i \in 1..Len(lst) : i + 1 = p /\ p <= Len(lst) => ~Same(lst[i], lst[p])

\* No wrapper of its module comes later.
LEMMA PlaceAtEnd ==
  ASSUME NEW lst \in Seq(Wrapper), NEW w \in Wrapper, PlaceFor(lst, w) = 0
  PROVE  IsPlace(Len(lst) + 1, Len(lst) + 1, lst, w)
<1>0. Len(lst) \in Nat /\ \A i \in 1..Len(lst) : lst[i] \in Wrapper
  OBVIOUS
<1>1. \A i \in 1..Len(lst) : ~NotBefore(lst[i], w)
  BY PlaceForIs
<1>2. ASSUME NEW i \in 1..Len(lst)
      PROVE  /\ ~Same(lst[i], w)
             /\ Function[lst[i]].module = Function[w].module => Function[lst[i]].offset <= Function[w].offset
  <2>1. /\ Function[lst[i]].offset \in Nat /\ Function[w].offset \in Nat
        /\ Same(lst[i], w) <=> Function[lst[i]].module = Function[w].module /\ Function[lst[i]].offset = Function[w].offset
    BY <1>0, FunctionsAre
  <2> QED
    BY <1>1, <2>1 DEF NotBefore
<1> QED
  BY <1>0, <1>2 DEF IsPlace

\* What is known of the place when there is one.
AtFacts(at, lst, w) ==
  /\ at \in 1..Len(lst)
  /\ Function[lst[at]].module = Function[w].module /\ Function[w].offset <= Function[lst[at]].offset
  /\ \A i \in 1..Len(lst) :
       /\ Same(lst[i], w) => at <= i
       /\ Same(lst[i], lst[at]) => at <= i
       /\ Same(lst[i], w) => Same(lst[at], w)
       /\ Function[lst[i]].module = Function[w].module =>
            /\ i < at => Function[lst[i]].offset <= Function[w].offset
            /\ at <= i => Function[lst[at]].offset <= Function[lst[i]].offset
                          /\ Function[w].offset <= Function[lst[i]].offset

LEMMA AtIs ==
  ASSUME NEW lst \in Seq(Wrapper), NEW w \in Wrapper, InModuleOrder(lst), PlaceFor(lst, w) # 0
  PROVE  AtFacts(PlaceFor(lst, w), lst, w)
<1>1. PICK at : at = PlaceFor(lst, w)
  OBVIOUS
<1>0. Len(lst) \in Nat /\ \A i \in 1..Len(lst) : lst[i] \in Wrapper
  OBVIOUS
<1>2. at \in 1..Len(lst) /\ NotBefore(lst[at], w) /\ \A i \in 1..(at - 1) : ~NotBefore(lst[i], w)
  BY <1>1, PlaceForIs
<1>3. ASSUME NEW i \in 1..Len(lst)
      PROVE  /\ Same(lst[i], w) => at <= i
             /\ Same(lst[i], lst[at]) => at <= i
             /\ Same(lst[i], w) => Same(lst[at], w)
             /\ Function[lst[i]].module = Function[w].module =>
                  /\ i < at => Function[lst[i]].offset <= Function[w].offset
                  /\ at <= i => Function[lst[at]].offset <= Function[lst[i]].offset
                                /\ Function[w].offset <= Function[lst[i]].offset
  <2>1. PICK x, y : x = lst[i] /\ y = lst[at]
    OBVIOUS
  <2>2. x \in Wrapper /\ y \in Wrapper
    BY <1>0, <1>2, <2>1
  <2>3. /\ Function[x].offset \in Nat /\ Function[w].offset \in Nat /\ Function[y].offset \in Nat
        /\ Same(x, w) <=> Function[x].module = Function[w].module /\ Function[x].offset = Function[w].offset
        /\ Same(x, y) <=> Function[x].module = Function[y].module /\ Function[x].offset = Function[y].offset
        /\ Same(y, w) <=> Function[y].module = Function[w].module /\ Function[y].offset = Function[w].offset
    BY <2>2, FunctionsAre
  <2>4. i < at => ~(Function[x].module = Function[w].module /\ Function[w].offset <= Function[x].offset)
    <3> HAVE i < at
    <3>1. i \in 1..(at - 1)
      BY <1>0, <1>2
    <3> QED
      BY <1>2, <2>1, <3>1 DEF NotBefore
  <2>5. Function[y].module = Function[w].module /\ Function[w].offset <= Function[y].offset
    BY <1>2, <2>1 DEF NotBefore
  <2>6. at < i /\ Function[y].module = Function[x].module => Function[y].offset <= Function[x].offset
    BY <1>2, <2>1 DEF InModuleOrder
  <2>7. (i < at \/ at < i \/ i = at) /\ (at <= i <=> ~(i < at)) /\ (i = at => x = y)
    BY <1>2, <2>1
  <2>8. /\ Same(x, w) => at <= i
        /\ Same(x, y) => at <= i
    BY <2>3, <2>4, <2>5, <2>7
  <2>9. Function[x].module = Function[w].module =>
          /\ i < at => Function[x].offset <= Function[w].offset
          /\ at <= i => Function[y].offset <= Function[x].offset /\ Function[w].offset <= Function[x].offset
    BY <2>3, <2>4, <2>5, <2>6, <2>7
  <2>10. Same(x, w) => Same(y, w)
    BY <2>3, <2>5, <2>8, <2>9
  <2> QED
    BY <2>1, <2>8, <2>9, <2>10
<1>4. AtFacts(at, lst, w)
  BY <1>2, <1>3 DEF AtFacts, NotBefore
<1> QED
  BY <1>1, <1>4

\* The first wrapper of the function is added before that of a later one.
LEMMA PlaceOfFirst ==
  ASSUME NEW lst \in Seq(Wrapper), NEW w \in Wrapper, NEW at, AtFacts(at, lst, w), ~Same(lst[at], w)
  PROVE  IsPlace(at, at, lst, w)
<1>0. Len(lst) \in Nat /\ at \in 1..Len(lst)
  BY DEF AtFacts
<1>1. \A i \in 1..Len(lst) : ~Same(lst[i], w)
  BY DEF AtFacts
<1>2. \A i \in 1..Len(lst) : i + 1 = at => ~Same(lst[i], lst[at])
  <2>1. \A i \in 1..Len(lst) : i + 1 = at => ~(at <= i)
    BY <1>0
  <2> QED
    BY <2>1 DEF AtFacts
<1>3. \A i \in 1..Len(lst) : ~(at <= i /\ i < at)
  BY <1>0
<1>4. at \in 1..(Len(lst) + 1) /\ at \in 1..at
  BY <1>0
<1> QED
  BY <1>1, <1>2, <1>3, <1>4 DEF IsPlace, AtFacts

\* Another wrapper of the function is added behind the last one.
IsLast(l, at, lst) ==
  /\ \A j \in at..l : Function[lst[j]] = Function[lst[at]]
  /\ l < Len(lst) => Function[lst[l + 1]] # Function[lst[at]]

LEMMA LastExists ==
  ASSUME NEW lst \in Seq(Wrapper), NEW at \in 1..Len(lst)
  PROVE  \E l \in at..Len(lst) : IsLast(l, at, lst)
<1>0. Len(lst) \in Nat /\ at \in Nat
  OBVIOUS
<1> DEFINE T == {i \in at..Len(lst) : i < Len(lst) => ~Same(lst[i + 1], lst[at])}
<1>1. T \in SUBSET Nat /\ Len(lst) \in T
  BY <1>0
<1>2. PICK l \in T : \A m \in T : l <= m
  BY <1>1, LeastNumber
<1>3. l \in at..Len(lst) /\ (l < Len(lst) => ~Same(lst[l + 1], lst[at]))
  OBVIOUS
<1>4. ASSUME NEW j \in at..l PROVE Same(lst[j], lst[at])
  <2>1. CASE j = at
    BY <2>1 DEF Same
  <2>2. CASE j # at
    <3>1. j - 1 \in at..Len(lst) /\ j - 1 < Len(lst) /\ (j - 1) + 1 = j /\ ~(l <= j - 1)
      BY <1>0, <1>3, <2>2
    <3>2. j - 1 \notin T
      BY <1>2, <3>1
    <3> QED
      BY <3>1, <3>2
  <2> QED
    BY <2>1, <2>2
<1> QED
  BY <1>3, <1>4 DEF IsLast, Same

LEMMA PlaceOfNext ==
  ASSUME NEW lst \in Seq(Wrapper), NEW w \in Wrapper, Together(lst), NEW at, AtFacts(at, lst, w), Same(lst[at], w),
         NEW l \in at..Len(lst), IsLast(l, at, lst)
  PROVE  IsPlace(l + 1, at, lst, w) /\ Same(lst[l], w)
<1>0. Len(lst) \in Nat /\ at \in 1..Len(lst) /\ l \in 1..Len(lst) /\ at <= l
  BY DEF AtFacts
<1>1. \A j \in at..l : Same(lst[j], w)
  BY DEF IsLast, Same
<1>2. l < Len(lst) => ~Same(lst[l + 1], w)
  BY DEF IsLast, Same
<1>3. ASSUME NEW i \in 1..Len(lst) PROVE Same(lst[i], w) <=> at <= i /\ i < l + 1
  <2>1. CASE at <= i /\ i < l + 1
    BY <1>0, <1>1, <2>1
  <2>2. CASE i < at
    <3>1. ~Same(lst[i], w)
      BY <1>0, <2>2 DEF AtFacts
    <3> QED
      BY <1>0, <2>2, <3>1
  <2>3. CASE l + 1 = i
    BY <1>0, <1>2, <2>3
  <2>4. CASE l + 1 < i
    <3>1. l + 1 \in 1..Len(lst) /\ at < l + 1 /\ l < Len(lst)
      BY <1>0, <2>4
    <3>2. Same(lst[at], lst[i]) => Same(lst[l + 1], lst[at])
      BY <1>0, <2>4, <3>1 DEF Together
    <3>3. ~Same(lst[i], w)
      BY <1>2, <3>1, <3>2 DEF Same
    <3> QED
      BY <1>0, <2>4, <3>3
  <2> QED
    BY <1>0, <2>1, <2>2, <2>3, <2>4
<1>4. ASSUME NEW i \in 1..Len(lst), Function[lst[i]].module = Function[w].module
      PROVE  /\ i < l + 1 => Function[lst[i]].offset <= Function[w].offset
             /\ l + 1 <= i => Function[w].offset <= Function[lst[i]].offset
  <2>1. CASE i < at
    BY <1>0, <1>4, <2>1 DEF AtFacts
  <2>2. CASE at <= i
    <3>1. Function[w].offset <= Function[lst[i]].offset
      BY <1>4, <2>2 DEF AtFacts
    <3>2. i < l + 1 => Function[lst[i]] = Function[w]
      BY <1>3, <2>2 DEF Same
    <3>3. Function[w].offset \in Nat
      BY FunctionsAre
    <3> QED
      BY <3>1, <3>2, <3>3
  <2> QED
    BY <1>0, <2>1, <2>2
<1>5. \A i \in 1..Len(lst) : i + 1 = l + 1 /\ l + 1 <= Len(lst) => ~Same(lst[i], lst[l + 1])
  <2> SUFFICES ASSUME l + 1 <= Len(lst) PROVE ~Same(lst[l], lst[l + 1])
    BY <1>0
  <2>1. Same(lst[l], w) /\ ~Same(lst[l + 1], w)
    BY <1>0, <1>1, <1>2
  <2> QED
    BY <2>1 DEF Same
<1>6. l + 1 \in 1..(Len(lst) + 1) /\ at \in 1..(l + 1)
  BY <1>0
<1>7. Same(lst[l], w)
  BY <1>0, <1>1
<1> QED
  BY <1>3, <1>4, <1>5, <1>6, <1>7 DEF IsPlace

\* The list has the first d wrappers of ord.
HasFirst(lst, ord, d) ==
  /\ \A i \in 1..Len(lst) : \E k \in 1..d : lst[i] = ord[k]
  /\ \A k \in 1..d : \E i \in 1..Len(lst) : lst[i] = ord[k]

\* Wrappers of one function are in the order of their addition.
InOrder(lst, ord, d) ==
  \A i, j \in 1..Len(lst) : \A k, l \in 1..d :
    i < j /\ Same(lst[i], lst[j]) /\ lst[i] = ord[k] /\ lst[j] = ord[l] => k < l

\* The list after w has been put at its place.
IsInserted(new, lst, p, w) ==
  /\ new \in Seq(Wrapper) /\ Len(new) = Len(lst) + 1
  /\ \A i \in 1..(Len(lst) + 1) : new[i] = IF i < p THEN lst[i] ELSE IF i = p THEN w ELSE lst[i - 1]

\* The place in the old list of an element of the new one.
Old(i, p) == IF i < p THEN i ELSE i - 1

LEMMA OldIs ==
  ASSUME NEW lst \in Seq(Wrapper), NEW p \in 1..(Len(lst) + 1), NEW w, NEW new, IsInserted(new, lst, p, w)
  PROVE  /\ new[p] = w
         /\ \A i \in 1..Len(new) : i # p =>
              /\ new[i] = lst[Old(i, p)] /\ Old(i, p) \in 1..Len(lst)
              /\ i < p <=> Old(i, p) < p
         /\ \A i, j \in 1..Len(new) : i # p /\ j # p => (i < j <=> Old(i, p) < Old(j, p))
         /\ \A i \in 1..Len(lst) : \E j \in 1..Len(new) : new[j] = lst[i]
<1>0. Len(lst) \in Nat /\ p \in Nat /\ Len(new) = Len(lst) + 1
  BY DEF IsInserted
<1>1. new[p] = w
  BY <1>0 DEF IsInserted
<1>2. ASSUME NEW i \in 1..Len(new), i # p
      PROVE  /\ new[i] = lst[Old(i, p)] /\ Old(i, p) \in 1..Len(lst)
             /\ i < p <=> Old(i, p) < p
  BY <1>0, <1>2 DEF IsInserted, Old
<1>3. \A i, j \in 1..Len(new) : i # p /\ j # p => (i < j <=> Old(i, p) < Old(j, p))
  BY <1>0 DEF Old
<1>4. ASSUME NEW i \in 1..Len(lst) PROVE \E j \in 1..Len(new) : new[j] = lst[i]
  <2>1. CASE i < p
    <3>1. i \in 1..Len(new) /\ new[i] = lst[i]
      BY <1>0, <2>1 DEF IsInserted
    <3> QED
      BY <3>1
  <2>2. CASE p <= i
    <3>1. i + 1 \in 1..Len(new) /\ ~(i + 1 < p) /\ i + 1 # p /\ (i + 1) - 1 = i
      BY <1>0, <2>2
    <3>2. new[i + 1] = lst[i]
      BY <1>0, <3>1 DEF IsInserted
    <3> QED
      BY <3>1, <3>2
  <2> QED
    BY <1>0, <2>1, <2>2
<1> QED
  BY <1>1, <1>2, <1>3, <1>4

LEMMA ModuleOrderKept ==
  ASSUME NEW lst \in Seq(Wrapper), NEW w \in Wrapper, NEW p, NEW a, IsPlace(p, a, lst, w), InModuleOrder(lst),
         NEW new, IsInserted(new, lst, p, w)
  PROVE  InModuleOrder(new)
<1>0. p \in 1..(Len(lst) + 1) /\ Len(lst) \in Nat
  BY DEF IsPlace
<1>9. /\ new[p] = w
      /\ \A i \in 1..Len(new) : i # p =>
           /\ new[i] = lst[Old(i, p)] /\ Old(i, p) \in 1..Len(lst)
           /\ i < p <=> Old(i, p) < p
      /\ \A i, j \in 1..Len(new) : i # p /\ j # p => (i < j <=> Old(i, p) < Old(j, p))
  BY <1>0, OldIs
<1>1. SUFFICES ASSUME NEW i \in 1..Len(new), NEW j \in 1..Len(new), i < j,
                      Function[new[i]].module = Function[new[j]].module
               PROVE  Function[new[i]].offset <= Function[new[j]].offset
  BY DEF InModuleOrder
<1>2. /\ new[p] = w
      /\ i # p => new[i] = lst[Old(i, p)] /\ Old(i, p) \in 1..Len(lst) /\ (i < p <=> Old(i, p) < p)
      /\ j # p => new[j] = lst[Old(j, p)] /\ Old(j, p) \in 1..Len(lst) /\ (j < p <=> Old(j, p) < p)
      /\ i # p /\ j # p => Old(i, p) < Old(j, p)
  BY <1>1, <1>9
<1>3. CASE i = p
  <2>1. j # p /\ p <= Old(j, p)
    BY <1>0, <1>1, <1>2, <1>3
  <2> QED
    BY <1>1, <1>2, <1>3, <2>1 DEF IsPlace
<1>4. CASE j = p
  <2>1. i # p /\ Old(i, p) < p
    BY <1>0, <1>1, <1>2, <1>4
  <2> QED
    BY <1>1, <1>2, <1>4, <2>1 DEF IsPlace
<1>5. CASE i # p /\ j # p
  BY <1>1, <1>2, <1>5 DEF InModuleOrder
<1> QED
  BY <1>3, <1>4, <1>5

LEMMA TogetherKept ==
  ASSUME NEW lst \in Seq(Wrapper), NEW w \in Wrapper, NEW p, NEW a, IsPlace(p, a, lst, w), Together(lst),
         NEW new, IsInserted(new, lst, p, w)
  PROVE  Together(new)
<1>0. p \in 1..(Len(lst) + 1) /\ Len(lst) \in Nat /\ Len(new) = Len(lst) + 1 /\ a \in 1..p
  BY DEF IsPlace, IsInserted
<1>9. /\ new[p] = w
      /\ \A i \in 1..Len(new) : i # p =>
           /\ new[i] = lst[Old(i, p)] /\ Old(i, p) \in 1..Len(lst)
           /\ i < p <=> Old(i, p) < p
      /\ \A i, j \in 1..Len(new) : i # p /\ j # p => (i < j <=> Old(i, p) < Old(j, p))
  BY <1>0, OldIs
<1>1. SUFFICES ASSUME NEW i \in 1..Len(new), NEW j \in 1..Len(new), NEW l \in 1..Len(new), i < j, j < l,
                      Same(new[i], new[l])
               PROVE  Same(new[j], new[i])
  BY DEF Together
<1>2. /\ new[p] = w
      /\ i # p => new[i] = lst[Old(i, p)] /\ Old(i, p) \in 1..Len(lst) /\ (i < p <=> Old(i, p) < p)
      /\ j # p => new[j] = lst[Old(j, p)] /\ Old(j, p) \in 1..Len(lst) /\ (j < p <=> Old(j, p) < p)
      /\ l # p => new[l] = lst[Old(l, p)] /\ Old(l, p) \in 1..Len(lst) /\ (l < p <=> Old(l, p) < p)
      /\ i # p /\ j # p => Old(i, p) < Old(j, p)
      /\ i # p /\ l # p => Old(i, p) < Old(l, p)
      /\ j # p /\ l # p => Old(j, p) < Old(l, p)
  <2>1. i < l
    BY <1>0, <1>1
  <2> QED
    BY <1>1, <1>9, <2>1
<1>3. CASE i = p
  <2>1. l # p /\ ~(Old(l, p) < p)
    BY <1>0, <1>1, <1>2, <1>3
  <2>2. ~Same(lst[Old(l, p)], w)
    BY <1>2, <2>1 DEF IsPlace
  <2> QED
    BY <1>1, <1>2, <1>3, <2>1, <2>2 DEF Same
<1>4. CASE l = p
  <2>1. i # p /\ j # p /\ Old(j, p) < p
    BY <1>0, <1>1, <1>2, <1>4
  <2>2. Same(lst[Old(i, p)], w)
    BY <1>1, <1>2, <1>4, <2>1 DEF Same
  <2>3. a <= Old(i, p)
    BY <1>2, <2>1, <2>2 DEF IsPlace
  <2>4. a <= Old(j, p)
    BY <1>0, <1>2, <2>1, <2>3
  <2>5. Same(lst[Old(j, p)], w)
    BY <1>2, <2>1, <2>4 DEF IsPlace
  <2> QED
    BY <1>2, <2>1, <2>2, <2>5 DEF Same
<1>5. CASE j = p
  <2>1. i # p /\ l # p /\ Old(i, p) < p /\ p <= Old(l, p) /\ p \in 1..Len(lst) /\ p - 1 \in 1..Len(lst)
    BY <1>0, <1>1, <1>2, <1>5
  <2>2. PICK x, y : x = Old(i, p) /\ y = Old(l, p)
    OBVIOUS
  <2>3. x \in 1..Len(lst) /\ y \in 1..Len(lst) /\ x < p /\ p <= y /\ Same(lst[x], lst[y])
    BY <1>1, <1>2, <2>1, <2>2
  <2>4. Same(lst[p], lst[x])
    <3>1. CASE p = y
      BY <2>3, <3>1 DEF Same
    <3>2. CASE p < y
      BY <2>1, <2>3, <3>2 DEF Together
    <3> QED
      BY <1>0, <2>3, <3>1, <3>2
  <2>5. Same(lst[p - 1], lst[x])
    <3>1. CASE p - 1 = x
      BY <3>1 DEF Same
    <3>2. CASE x < p - 1
      <4>1. p - 1 < y
        BY <1>0, <2>3
      <4> QED
        BY <2>1, <2>3, <3>2, <4>1 DEF Together
    <3> QED
      BY <1>0, <2>3, <3>1, <3>2
  <2>6. Same(lst[p - 1], lst[p])
    BY <2>4, <2>5 DEF Same
  <2>7. (p - 1) + 1 = p /\ p <= Len(lst)
    BY <1>0, <2>1
  <2> QED
    BY <2>1, <2>6, <2>7 DEF IsPlace
<1>6. CASE i # p /\ j # p /\ l # p
  BY <1>1, <1>2, <1>6 DEF Together
<1> QED
  BY <1>3, <1>4, <1>5, <1>6

LEMMA FirstKept ==
  ASSUME NEW lst \in Seq(Wrapper), NEW w \in Wrapper, NEW p, NEW a, IsPlace(p, a, lst, w),
         NEW new, IsInserted(new, lst, p, w), NEW ord, NEW d \in Nat, HasFirst(lst, ord, d), w = ord[d + 1]
  PROVE  HasFirst(new, ord, d + 1)
<1>0. p \in 1..(Len(lst) + 1) /\ Len(lst) \in Nat /\ Len(new) = Len(lst) + 1 /\ p \in 1..Len(new)
  BY DEF IsPlace, IsInserted
<1>1. ASSUME NEW i \in 1..Len(new) PROVE \E k \in 1..(d + 1) : new[i] = ord[k]
  <2>1. CASE i = p
    <3>1. new[i] = w /\ d + 1 \in 1..(d + 1)
      BY <1>0, <2>1, OldIs
    <3> QED
      BY <3>1
  <2>2. CASE i # p
    <3>1. new[i] = lst[Old(i, p)] /\ Old(i, p) \in 1..Len(lst)
      BY <1>0, <2>2, OldIs
    <3>2. PICK k \in 1..d : lst[Old(i, p)] = ord[k]
      BY <3>1 DEF HasFirst
    <3>3. k \in 1..(d + 1)
      OBVIOUS
    <3> QED
      BY <3>1, <3>2, <3>3
  <2> QED
    BY <2>1, <2>2
<1>2. ASSUME NEW k \in 1..(d + 1) PROVE \E i \in 1..Len(new) : new[i] = ord[k]
  <2>1. CASE k = d + 1
    <3>1. new[p] = w
      BY <1>0, OldIs
    <3> QED
      BY <1>0, <2>1, <3>1
  <2>2. CASE k # d + 1
    <3>1. k \in 1..d
      BY <2>2
    <3>2. PICK i \in 1..Len(lst) : lst[i] = ord[k]
      BY <3>1 DEF HasFirst
    <3>3. \E j \in 1..Len(new) : new[j] = lst[i]
      BY <1>0, OldIs
    <3> QED
      BY <3>2, <3>3
  <2> QED
    BY <2>1, <2>2
<1> QED
  BY <1>1, <1>2 DEF HasFirst

LEMMA OrderKept ==
  ASSUME NEW lst \in Seq(Wrapper), NEW w \in Wrapper, NEW p, NEW a, IsPlace(p, a, lst, w),
         NEW new, IsInserted(new, lst, p, w), NEW ord, NEW d \in Nat, HasFirst(lst, ord, d), w = ord[d + 1],
         InOrder(lst, ord, d), \A k, l \in 1..(d + 1) : ord[k] = ord[l] => k = l
  PROVE  InOrder(new, ord, d + 1)
<1>0. p \in 1..(Len(lst) + 1) /\ Len(lst) \in Nat /\ Len(new) = Len(lst) + 1
  BY DEF IsPlace, IsInserted
<1>9. /\ new[p] = w
      /\ \A i \in 1..Len(new) : i # p =>
           /\ new[i] = lst[Old(i, p)] /\ Old(i, p) \in 1..Len(lst)
           /\ i < p <=> Old(i, p) < p
      /\ \A i, j \in 1..Len(new) : i # p /\ j # p => (i < j <=> Old(i, p) < Old(j, p))
  BY <1>0, OldIs
<1>1. SUFFICES ASSUME NEW i \in 1..Len(new), NEW j \in 1..Len(new), NEW k \in 1..(d + 1), NEW l \in 1..(d + 1),
                      i < j, Same(new[i], new[j]), new[i] = ord[k], new[j] = ord[l]
               PROVE  k < l
  BY DEF InOrder
<1>2. /\ new[p] = w
      /\ i # p => new[i] = lst[Old(i, p)] /\ Old(i, p) \in 1..Len(lst) /\ (i < p <=> Old(i, p) < p)
      /\ j # p => new[j] = lst[Old(j, p)] /\ Old(j, p) \in 1..Len(lst) /\ (j < p <=> Old(j, p) < p)
      /\ i # p /\ j # p => Old(i, p) < Old(j, p)
  BY <1>1, <1>9
<1>3. d + 1 \in 1..(d + 1) /\ \A n \in 1..d : n \in 1..(d + 1)
  OBVIOUS
<1>4. ASSUME NEW x \in 1..Len(lst), NEW n \in 1..(d + 1), lst[x] = ord[n] PROVE n \in 1..d
  <2>1. PICK y \in 1..d : lst[x] = ord[y]
    BY DEF HasFirst
  <2> QED
    BY <1>3, <1>4, <2>1
<1>5. CASE i = p
  <2>1. j # p /\ ~(Old(j, p) < p)
    BY <1>0, <1>1, <1>2, <1>5
  <2>2. ~Same(lst[Old(j, p)], w)
    BY <1>2, <2>1 DEF IsPlace
  <2> QED
    BY <1>1, <1>2, <1>5, <2>1, <2>2 DEF Same
<1>6. CASE j = p
  <2>1. i # p /\ l = d + 1
    BY <1>1, <1>2, <1>3, <1>6
  <2>2. k \in 1..d
    BY <1>1, <1>2, <1>4, <2>1
  <2> QED
    BY <2>1, <2>2
<1>7. CASE i # p /\ j # p
  <2>1. k \in 1..d /\ l \in 1..d
    BY <1>1, <1>2, <1>4, <1>7
  <2> QED
    BY <1>1, <1>2, <1>7, <2>1 DEF InOrder
<1> QED
  BY <1>5, <1>6, <1>7

\* The number of a wrapper is 0 for the first of a function, and for another one
\* more than that of the last before it.
LEMMA NumberOfFirst ==
  ASSUME NEW k \in Nat, \A j \in 1..(k - 1) : ~Same(order[j], order[k])
  PROVE  Wrap!Number(k) = 0
<1>1. Before(k) = {}
  BY DEF Before, Same
<1> QED
  BY <1>1, NumberIs, FS_EmptySet

LEMMA NumberOfNext ==
  ASSUME NEW k \in Nat, NEW m \in 1..(k - 1), Same(order[m], order[k]),
         \A j \in 1..(k - 1) : Same(order[j], order[k]) => j <= m
  PROVE  Wrap!Number(k) = Wrap!Number(m) + 1
<1>1. Before(k) = Before(m) \cup {m}
  <2>1. ASSUME NEW j \in Before(k) PROVE j \in Before(m) \cup {m}
    <3>1. j \in 1..(k - 1) /\ Same(order[j], order[k])
      BY <2>1 DEF Before, Same
    <3>2. j <= m /\ j \in Nat /\ m \in Nat
      BY <3>1
    <3>3. j # m => j \in 1..(m - 1)
      BY <3>1, <3>2
    <3> QED
      BY <3>1, <3>3 DEF Before, Same
  <2>2. ASSUME NEW j \in Before(m) PROVE j \in Before(k)
    <3>1. j \in 1..(m - 1) /\ Same(order[j], order[m])
      BY <2>2 DEF Before, Same
    <3>2. j \in 1..(k - 1)
      BY <3>1
    <3> QED
      BY <3>1, <3>2 DEF Before, Same
  <2>3. m \in Before(k)
    BY DEF Before, Same
  <2> QED
    BY <2>1, <2>2, <2>3
<1>2. m \notin Before(m)
  BY DEF Before
<1>3. IsFiniteSet(Before(m))
  <2>1. IsFiniteSet(1..(m - 1))
    BY FS_Interval
  <2>2. Before(m) \subseteq 1..(m - 1)
    BY DEF Before
  <2> QED
    BY <2>1, <2>2, FS_Subset
<1>4. Cardinality(Before(m) \cup {m}) = Cardinality(Before(m)) + 1
  BY <1>2, <1>3, FS_AddElement
<1> QED
  BY <1>1, <1>4, NumberIs

\* How many have been added in this session.
Done == Len(order) - Len(registering)

OrderInv ==
  /\ order \in Seq(Wrapper) /\ \A k, l \in 1..Len(order) : order[k] = order[l] => k = l
  /\ registering \in Seq(Wrapper) /\ Done \in Nat
  /\ \A i \in 1..Len(registering) : registering[i] = order[Done + i]

SortedInv ==
  /\ wrappers \in Seq(Wrapper)
  /\ HasFirst(wrappers, order, Done) /\ InOrder(wrappers, order, Done)
  /\ InModuleOrder(wrappers) /\ Together(wrappers)

\* A wrapper keeps its number from an earlier session.
NumbersInv ==
  /\ session \in Nat /\ session >= 1 /\ wrapper_id = [w \in Wrapper |-> wrapper_id[w]]
  /\ \A k \in 1..Len(order) :
       wrapper_id[order[k]] = IF k <= Done \/ session > 1 THEN Wrap!Number(k) ELSE 0

SiteInv ==
  site # None =>
    /\ registering = << >>
    /\ IF site.kind = "conditional" THEN site.to = None ELSE Wrap!IsFound(site.function, 0, site.to)

WrapInv == OrderInv /\ SortedInv /\ NumbersInv /\ SiteInv

LEMMA WrapInitial == Wrap!Init => WrapInv
<1> HAVE Wrap!Init
<1>1. order \in Wrap!Orders /\ registering = order /\ session = 1 /\ wrappers = << >>
      /\ wrapper_id = [w \in Wrapper |-> 0] /\ site = None
  BY DEF Wrap!Init
<1>2. PICK n : n \in Nat /\ order \in [1..n -> Wrapper]
  <2>1. PICK n \in 0..Wrap!Cardinality(Wrapper) : order \in [1..n -> Wrapper]
    BY <1>1 DEF Wrap!Orders
  <2> QED
    BY <2>1
<1>3. order \in Seq(Wrapper) /\ Len(order) = n /\ DOMAIN order = 1..n
  BY <1>2
<1>4. \A k, l \in 1..Len(order) : order[k] = order[l] => k = l
  BY <1>1, <1>3 DEF Wrap!Orders, Wrap!IsInjective
<1>5. Done = 0
  BY <1>1, <1>2, <1>3 DEF Done
<1>6. OrderInv
  BY <1>1, <1>2, <1>3, <1>4, <1>5 DEF OrderInv
<1>7. SortedInv
  BY <1>1, <1>5 DEF SortedInv, HasFirst, InOrder, InModuleOrder, Together
<1>8. NumbersInv
  BY <1>1, <1>3, <1>5 DEF NumbersInv
<1> QED
  BY <1>1, <1>6, <1>7, <1>8 DEF WrapInv, SiteInv

\* What is found in the list.
LEMMA FoundIs ==
  ASSUME WrapInv, NEW f, NEW n
  PROVE  Wrap!IsFound(f, n, Wrap!FunctionWrapperFor(f, n))
<1> DEFINE I == {i \in 1..Len(wrappers) : Function[wrappers[i]] = f /\ wrapper_id[wrappers[i]] = n}
<1> DEFINE at == IF I # {} THEN Wrap!Min(I) ELSE 0
<1>0. wrappers \in Seq(Wrapper) /\ Len(wrappers) \in Nat /\ Done \in Nat /\ Len(order) \in Nat /\ Done <= Len(order)
  BY DEF WrapInv, SortedInv, OrderInv, Done
<1>1. Wrap!FunctionWrapperFor(f, n) = IF at = 0 THEN None ELSE wrappers[at]
  BY DEF Wrap!FunctionWrapperFor, Wrap!SelectInSeq
<1>2. \A k \in 1..Done : wrapper_id[order[k]] = Wrap!Number(k)
  BY <1>0 DEF WrapInv, NumbersInv
<1>3. ASSUME NEW x \in Wrapper, Wrap!IsNth(f, n, x) PROVE I # {}
  <2>1. PICK k \in 1..Done : x = order[k] /\ Function[x] = f /\ Wrap!Number(k) = n
    BY <1>3 DEF Wrap!IsNth, Done
  <2>2. PICK i \in 1..Len(wrappers) : wrappers[i] = order[k]
    BY DEF WrapInv, SortedInv, HasFirst
  <2>3. Function[wrappers[i]] = f /\ wrapper_id[wrappers[i]] = n
    BY <1>2, <2>1, <2>2
  <2> QED
    BY <2>3
<1>4. CASE I = {}
  <2>1. ~\E x \in Wrapper : Wrap!IsNth(f, n, x)
    BY <1>3, <1>4
  <2> QED
    BY <1>1, <1>4, <2>1 DEF Wrap!IsFound
<1>5. CASE I # {}
  <2>1. I \subseteq Nat
    BY <1>0
  <2>2. \E x \in I : \A y \in I : x <= y
    BY <1>5, <2>1, LeastNumber
  <2>3. Wrap!Min(I) \in I
    <3> HIDE DEF I
    <3> QED
      BY <2>2 DEF Wrap!Min
  <2>4. PICK p : p = Wrap!Min(I)
    OBVIOUS
  <2>5. p \in 1..Len(wrappers) /\ Function[wrappers[p]] = f /\ wrapper_id[wrappers[p]] = n /\ p # 0
    BY <1>0, <2>3, <2>4
  <2>6. Wrap!FunctionWrapperFor(f, n) = wrappers[p] /\ wrappers[p] \in Wrapper
    BY <1>0, <1>1, <1>5, <2>4, <2>5
  <2>7. PICK k \in 1..Done : wrappers[p] = order[k]
    BY <2>5 DEF WrapInv, SortedInv, HasFirst
  <2>8. Wrap!IsNth(f, n, wrappers[p])
    BY <1>2, <2>5, <2>7 DEF Wrap!IsNth, Done
  <2> QED
    BY <2>6, <2>8 DEF Wrap!IsFound
<1> QED
  BY <1>4, <1>5

\* FunctionWrapperInsertPoint: where a wrapper goes, and its number.
LEMMA InsertPointIs ==
  ASSUME WrapInv, registering # << >>
  PROVE  LET w == Head(registering)
             to == Wrap!FunctionWrapperInsertPoint(w)
         IN  /\ w \in Wrapper /\ Done + 1 \in 1..Len(order) /\ w = order[Done + 1]
             /\ \E a : IsPlace(to.place, a, wrappers, w)
             /\ to.id = Wrap!Number(Done + 1)
<1>1. PICK w : w = Head(registering)
  OBVIOUS
<1>2. PICK d : d = Done
  OBVIOUS
<1>3. Len(registering) \in Nat /\ Len(registering) >= 1 /\ w = registering[1] /\ w \in Wrapper
  BY <1>1 DEF WrapInv, OrderInv
<1>4. d \in Nat /\ Len(order) \in Nat /\ d + 1 \in 1..Len(order) /\ w = order[d + 1]
  BY <1>2, <1>3 DEF WrapInv, OrderInv, Done
<1>5. /\ wrappers \in Seq(Wrapper) /\ HasFirst(wrappers, order, d) /\ InOrder(wrappers, order, d)
      /\ InModuleOrder(wrappers) /\ Together(wrappers)
  BY <1>2 DEF WrapInv, SortedInv
<1>6. Len(wrappers) \in Nat
  BY <1>5
<1>7. PICK at : at = PlaceFor(wrappers, w)
  OBVIOUS
<1>8. PICK last : last = CHOOSE i \in at..Len(wrappers) : IsLast(i, at, wrappers)
  OBVIOUS
<1>9. PICK to : to = Wrap!FunctionWrapperInsertPoint(w)
  OBVIOUS
<1>10. to = IF at = 0 THEN [place |-> Len(wrappers) + 1, id |-> wrapper_id[w]]
            ELSE IF Function[wrappers[at]] # Function[w] THEN [place |-> at, id |-> wrapper_id[w]]
            ELSE [place |-> last + 1, id |-> wrapper_id[wrappers[last]] + 1]
  BY <1>7, <1>8, <1>9 DEF Wrap!FunctionWrapperInsertPoint, PlaceFor, IsLast
<1>11. (d + 1) - 1 = d /\ d + 1 \in Nat
  BY <1>4
<1>12. ASSUME \A i \in 1..Len(wrappers) : ~Same(wrappers[i], w)
       PROVE  wrapper_id[w] = Wrap!Number(d + 1)
  <2>1. \A j \in 1..d : ~Same(order[j], order[d + 1])
    BY <1>4, <1>5, <1>12 DEF HasFirst
  <2>2. Wrap!Number(d + 1) = 0
    BY <1>11, <2>1, NumberOfFirst
  <2> QED
    BY <1>4, <2>2 DEF WrapInv, NumbersInv
<1>13. CASE at = 0
  <2>1. IsPlace(Len(wrappers) + 1, Len(wrappers) + 1, wrappers, w)
    BY <1>3, <1>5, <1>7, <1>13, PlaceAtEnd
  <2>2. \A i \in 1..Len(wrappers) : ~Same(wrappers[i], w)
    BY <1>6, <2>1 DEF IsPlace
  <2>3. to.place = Len(wrappers) + 1 /\ to.id = wrapper_id[w]
    BY <1>10, <1>13
  <2> QED
    BY <1>1, <1>2, <1>3, <1>4, <1>9, <1>12, <2>1, <2>2, <2>3
<1>14. ASSUME at # 0 PROVE AtFacts(at, wrappers, w)
  BY <1>3, <1>5, <1>7, <1>14, AtIs
<1>15. CASE at # 0 /\ ~Same(wrappers[at], w)
  <2>1. IsPlace(at, at, wrappers, w)
    BY <1>3, <1>5, <1>14, <1>15, PlaceOfFirst
  <2>2. \A i \in 1..Len(wrappers) : ~Same(wrappers[i], w)
    BY <1>14, <1>15 DEF AtFacts
  <2>3. to.place = at /\ to.id = wrapper_id[w]
    BY <1>10, <1>15 DEF Same
  <2> QED
    BY <1>1, <1>2, <1>3, <1>4, <1>9, <1>12, <2>1, <2>2, <2>3
<1>16. CASE at # 0 /\ Same(wrappers[at], w)
  <2>1. at \in 1..Len(wrappers)
    BY <1>14, <1>16 DEF AtFacts
  <2>2. last \in at..Len(wrappers) /\ IsLast(last, at, wrappers)
    <3>1. \E i \in at..Len(wrappers) : IsLast(i, at, wrappers)
      BY <1>5, <2>1, LastExists
    <3> QED
      BY <1>8, <3>1
  <2>3. IsPlace(last + 1, at, wrappers, w) /\ Same(wrappers[last], w)
    BY <1>3, <1>5, <1>14, <1>16, <2>2, PlaceOfNext
  <2>4. last \in 1..Len(wrappers)
    BY <1>6, <2>1, <2>2
  <2>5. PICK m \in 1..d : wrappers[last] = order[m]
    BY <1>5, <2>4 DEF HasFirst
  <2>6. ASSUME NEW j \in 1..d, Same(order[j], order[d + 1]) PROVE j <= m
    <3>1. PICK x \in 1..Len(wrappers) : wrappers[x] = order[j]
      BY <1>5 DEF HasFirst
    <3>2. x < last + 1
      BY <1>4, <2>3, <2>6, <3>1 DEF IsPlace
    <3>3. CASE x = last
      <4>1. j \in 1..Len(order) /\ m \in 1..Len(order)
        BY <1>4
      <4>2. j = m
        BY <2>5, <3>1, <3>3, <4>1 DEF WrapInv, OrderInv
      <4> QED
        BY <4>2
    <3>4. CASE x < last
      <4>1. Same(wrappers[x], wrappers[last])
        BY <1>4, <2>3, <2>6, <3>1 DEF Same
      <4>2. j < m
        BY <1>5, <2>4, <2>5, <3>1, <3>4, <4>1 DEF InOrder
      <4> QED
        BY <4>2
    <3> QED
      BY <2>4, <3>2, <3>3, <3>4
  <2>7. Same(order[m], order[d + 1])
    BY <1>4, <2>3, <2>5
  <2>8. Wrap!Number(d + 1) = Wrap!Number(m) + 1
    BY <1>11, <2>6, <2>7, NumberOfNext
  <2>9. wrapper_id[wrappers[last]] = Wrap!Number(m)
    <3>1. m \in 1..Len(order) /\ m <= Done
      BY <1>2, <1>4
    <3> QED
      BY <2>5, <3>1 DEF WrapInv, NumbersInv
  <2>10. to.place = last + 1 /\ to.id = wrapper_id[wrappers[last]] + 1
    BY <1>10, <1>16 DEF Same
  <2> QED
    BY <1>1, <1>2, <1>3, <1>4, <1>9, <2>3, <2>8, <2>9, <2>10
<1> QED
  BY <1>13, <1>15, <1>16

LEMMA NumbersKept == order' = order => \A k : Wrap!Number(k)' = Wrap!Number(k)
BY DEF Wrap!Number

LEMMA WrapperAdded == WrapInv /\ Wrap!AddFunctionWrapper => WrapInv'
<1> SUFFICES ASSUME WrapInv, Wrap!AddFunctionWrapper PROVE WrapInv'
  OBVIOUS
<1>1. PICK w : w = Head(registering)
  OBVIOUS
<1>2. PICK to : to = Wrap!FunctionWrapperInsertPoint(w)
  OBVIOUS
<1>3. PICK d : d = Done
  OBVIOUS
<1>4. registering # << >>
  BY DEF Wrap!AddFunctionWrapper
<1>5. /\ wrappers' = Wrap!InsertAt(wrappers, to.place, w)
      /\ wrapper_id' = [wrapper_id EXCEPT ![w] = to.id]
      /\ registering' = Tail(registering)
      /\ session' = session /\ order' = order /\ site' = site
  BY <1>1, <1>2 DEF Wrap!AddFunctionWrapper
<1>6. /\ w \in Wrapper /\ d + 1 \in 1..Len(order) /\ w = order[d + 1]
      /\ \E a : IsPlace(to.place, a, wrappers, w)
      /\ to.id = Wrap!Number(d + 1)
  BY <1>1, <1>2, <1>3, <1>4, InsertPointIs
<1>7. PICK a : IsPlace(to.place, a, wrappers, w)
  BY <1>6
<1>8. PICK p : p = to.place
  OBVIOUS
<1>9. IsPlace(p, a, wrappers, w) /\ p \in 1..(Len(wrappers) + 1)
  BY <1>7, <1>8 DEF IsPlace
<1>10. /\ order \in Seq(Wrapper) /\ registering \in Seq(Wrapper) /\ d \in Nat /\ Len(order) \in Nat
       /\ \A k, l \in 1..Len(order) : order[k] = order[l] => k = l
       /\ \A i \in 1..Len(registering) : registering[i] = order[d + i]
       /\ d = Len(order) - Len(registering) /\ Len(registering) \in Nat
  BY <1>3 DEF WrapInv, OrderInv, Done
<1>11. Len(registering) >= 1 /\ registering' \in Seq(Wrapper) /\ Len(registering') = Len(registering) - 1
       /\ \A i \in 1..Len(registering') : registering'[i] = registering[i + 1]
  BY <1>4, <1>5, <1>10
<1>12. Done' = d + 1
  BY <1>5, <1>10, <1>11 DEF Done
<1>13. OrderInv'
  <2>1. \A i \in 1..Len(registering') : registering'[i] = order'[Done' + i]
    <3>1. \A i \in 1..Len(registering') : i + 1 \in 1..Len(registering) /\ d + (i + 1) = (d + 1) + i
      <4>1. PICK q \in Nat : q = Len(registering)
        BY <1>10
      <4>2. q >= 1 /\ Len(registering') = q - 1
        BY <1>11, <4>1
      <4>3. \A i \in 1..(q - 1) : i + 1 \in 1..q /\ d + (i + 1) = (d + 1) + i
        BY <1>10, <4>2
      <4> QED
        BY <4>1, <4>2, <4>3
    <3> QED
      BY <1>5, <1>10, <1>11, <1>12, <3>1
  <2>2. Done' \in Nat
    BY <1>10, <1>12
  <2> QED
    BY <1>5, <1>10, <1>11, <2>1, <2>2 DEF OrderInv
<1>14. /\ wrappers \in Seq(Wrapper) /\ HasFirst(wrappers, order, d) /\ InOrder(wrappers, order, d)
       /\ InModuleOrder(wrappers) /\ Together(wrappers)
  BY <1>3 DEF WrapInv, SortedInv
<1>15. PICK new : new = wrappers'
  OBVIOUS
<1>16. IsInserted(new, wrappers, p, w)
  <2>1. /\ Wrap!InsertAt(wrappers, p, w) \in Seq(Wrapper) /\ Len(Wrap!InsertAt(wrappers, p, w)) = Len(wrappers) + 1
        /\ \A i \in 1..(Len(wrappers) + 1) :
             Wrap!InsertAt(wrappers, p, w)[i] =
               IF i < p THEN wrappers[i] ELSE IF i = p THEN w ELSE wrappers[i - 1]
    BY <1>6, <1>9, <1>14, InsertedIs
  <2>2. new = Wrap!InsertAt(wrappers, p, w)
    BY <1>5, <1>8, <1>15
  <2> QED
    BY <2>1, <2>2 DEF IsInserted
<1>17. SortedInv'
  <2>1. InModuleOrder(new)
    BY <1>6, <1>9, <1>14, <1>16, ModuleOrderKept
  <2>2. Together(new)
    BY <1>6, <1>9, <1>14, <1>16, TogetherKept
  <2>3. HasFirst(new, order, d + 1)
    BY <1>6, <1>9, <1>10, <1>14, <1>16, FirstKept
  <2>4. InOrder(new, order, d + 1)
    <3>1. \A k, l \in 1..(d + 1) : order[k] = order[l] => k = l
      BY <1>6, <1>10
    <3> QED
      BY <1>6, <1>9, <1>10, <1>14, <1>16, <3>1, OrderKept
  <2>5. new \in Seq(Wrapper)
    BY <1>16 DEF IsInserted
  <2> QED
    BY <1>5, <1>12, <1>15, <2>1, <2>2, <2>3, <2>4, <2>5 DEF SortedInv
<1>18. NumbersInv'
  <2>1. session \in Nat /\ session >= 1 /\ wrapper_id = [x \in Wrapper |-> wrapper_id[x]]
    BY DEF WrapInv, NumbersInv
  <2>2. wrapper_id' = [x \in Wrapper |-> wrapper_id'[x]]
    BY <1>5, <2>1
  <2>3. ASSUME NEW k \in 1..Len(order)
        PROVE  wrapper_id'[order[k]] = IF k <= d + 1 \/ session > 1 THEN Wrap!Number(k) ELSE 0
    <3>1. wrapper_id[order[k]] = IF k <= d \/ session > 1 THEN Wrap!Number(k) ELSE 0
      BY <1>3 DEF WrapInv, NumbersInv
    <3>2. order[k] \in Wrapper
      BY <1>10
    <3>3. CASE k = d + 1
      <4>1. wrapper_id'[order[k]] = Wrap!Number(k)
        BY <1>5, <1>6, <2>1, <3>3
      <4> QED
        BY <1>10, <3>3, <4>1
    <3>4. CASE k # d + 1
      <4>1. order[k] # w /\ (k <= d <=> k <= d + 1)
        <5>1. order[k] # w
          BY <1>6, <1>10, <3>4
        <5>2. k \in Nat
          OBVIOUS
        <5> QED
          BY <1>10, <3>4, <5>1, <5>2
      <4>2. wrapper_id'[order[k]] = wrapper_id[order[k]]
        BY <1>5, <2>1, <3>2, <4>1
      <4> QED
        BY <3>1, <4>1, <4>2
    <3> QED
      BY <3>3, <3>4
  <2>4. \A k : Wrap!Number(k)' = Wrap!Number(k)
    BY <1>5, NumbersKept
  <2> QED
    BY <1>5, <1>12, <2>1, <2>2, <2>3, <2>4 DEF NumbersInv
<1>19. SiteInv'
  BY <1>4, <1>5 DEF WrapInv, SiteInv
<1> QED
  BY <1>13, <1>17, <1>18, <1>19 DEF WrapInv

LEMMA CallTranslated ==
  ASSUME WrapInv, NEW f, NEW kind, Wrap!WrapDecodedBlock(f, kind)
  PROVE  WrapInv'
<1>1. PICK w : w = IF wrappers = << >> \/ kind = "conditional" THEN None ELSE Wrap!FunctionWrapperFor(f, 0)
  OBVIOUS
<1>2. /\ site' = [function |-> f, kind |-> kind, to |-> w] /\ registering = << >>
      /\ session' = session /\ registering' = registering /\ order' = order
      /\ wrappers' = wrappers /\ wrapper_id' = wrapper_id
  BY <1>1 DEF Wrap!WrapDecodedBlock
<1>3. site'.kind = kind /\ site'.to = w /\ site'.function = f
  BY <1>2
<1>4. kind # "conditional" => Wrap!IsFound(f, 0, w)
  <2>1. Wrap!IsFound(f, 0, Wrap!FunctionWrapperFor(f, 0))
    BY FoundIs
  <2>2. CASE wrappers = << >>
    <3>1. ~\E x \in Wrapper : Wrap!IsNth(f, 0, x)
      BY <2>2 DEF Wrap!IsNth, WrapInv, SortedInv, HasFirst, Done
    <3> QED
      BY <1>1, <2>2, <3>1 DEF Wrap!IsFound
  <2> QED
    BY <1>1, <2>1, <2>2
<1>6. SiteInv'
  <2>1. Wrap!IsFound(site.function, 0, site.to)' = Wrap!IsFound(f, 0, w)
    BY <1>2, <1>3 DEF Wrap!IsFound, Wrap!IsNth, Wrap!Number
  <2> QED
    BY <1>1, <1>2, <1>3, <1>4, <2>1 DEF SiteInv
<1>7. Done' = Done
  BY <1>2 DEF Done
<1>8. \A k : Wrap!Number(k)' = Wrap!Number(k)
  BY <1>2, NumbersKept
<1> QED
  BY <1>2, <1>6, <1>7, <1>8 DEF WrapInv, OrderInv, SortedInv, NumbersInv

LEMMA SessionEnds == WrapInv /\ Wrap!Exit => WrapInv'
<1> SUFFICES ASSUME WrapInv, Wrap!Exit PROVE WrapInv'
  OBVIOUS
<1>1. /\ registering = << >> /\ session' = session + 1 /\ wrappers' = << >> /\ registering' = order
      /\ site' = None /\ order' = order /\ wrapper_id' = wrapper_id
  BY DEF Wrap!Exit
<1>2. order \in Seq(Wrapper) /\ Len(order) \in Nat /\ \A k, l \in 1..Len(order) : order[k] = order[l] => k = l
  BY DEF WrapInv, OrderInv
<1>3. Done' = 0 /\ Done = Len(order)
  BY <1>1, <1>2 DEF Done
<1>4. OrderInv'
  BY <1>1, <1>2, <1>3 DEF OrderInv
<1>5. SortedInv'
  BY <1>1, <1>3 DEF SortedInv, HasFirst, InOrder, InModuleOrder, Together
<1>6. NumbersInv'
  <2>1. session \in Nat /\ session >= 1 /\ wrapper_id = [w \in Wrapper |-> wrapper_id[w]]
    BY DEF WrapInv, NumbersInv
  <2>2. \A k \in 1..Len(order) : wrapper_id[order[k]] = Wrap!Number(k)
    BY <1>2, <1>3 DEF WrapInv, NumbersInv
  <2>3. session' \in Nat /\ session' > 1 /\ session' >= 1
    BY <1>1, <2>1
  <2>4. \A k : Wrap!Number(k)' = Wrap!Number(k)
    BY <1>1, NumbersKept
  <2> QED
    BY <1>1, <2>1, <2>2, <2>3, <2>4 DEF NumbersInv
<1> QED
  BY <1>1, <1>4, <1>5, <1>6 DEF WrapInv, SiteInv

LEMMA WrapStep == WrapInv /\ [Wrap!Next]_(Wrap!wrapVars) => WrapInv'
<1> SUFFICES ASSUME WrapInv, [Wrap!Next]_(Wrap!wrapVars) PROVE WrapInv'
  OBVIOUS
<1>1. CASE Wrap!AddFunctionWrapper
  BY <1>1, WrapperAdded
<1>2. CASE \E f \in Called, kind \in {"call", "jump", "conditional"} : Wrap!WrapDecodedBlock(f, kind)
  BY <1>2, CallTranslated
<1>3. CASE Wrap!Exit
  BY <1>3, SessionEnds
<1>4. CASE UNCHANGED Wrap!wrapVars
  <2>1. /\ session' = session /\ registering' = registering /\ order' = order
        /\ wrappers' = wrappers /\ wrapper_id' = wrapper_id /\ site' = site
    BY <1>4 DEF Wrap!wrapVars
  <2>2. Done' = Done
    BY <2>1 DEF Done
  <2>3. \A k : Wrap!Number(k)' = Wrap!Number(k)
    BY <2>1, NumbersKept
  <2>4. Wrap!IsFound(site.function, 0, site.to)' = Wrap!IsFound(site.function, 0, site.to)
    BY <2>1 DEF Wrap!IsFound, Wrap!IsNth, Wrap!Number
  <2> QED
    BY <2>1, <2>2, <2>3, <2>4 DEF WrapInv, OrderInv, SortedInv, NumbersInv, SiteInv
<1> QED
  BY <1>1, <1>2, <1>3, <1>4 DEF Wrap!Next

\* Whatever wrappers the tools register, in whatever order and however often Granary
\* attaches, FunctionWrapperFor finds the wrapper of a function with a number as that
\* which so many others were added before, or none if there is none: and every call
\* or jump that WrapDecodedBlock rewrote goes to the first of its function.
THEOREM WrappersFoundHolds == Wrap!Spec => []WrappersFound
<1>1. WrapInv => WrappersFound
  <2> HAVE WrapInv
  <2>1. \A f \in Called : \A n \in 0..Len(order) : Wrap!IsFound(f, n, Wrap!FunctionWrapperFor(f, n))
    BY FoundIs
  <2> QED
    BY <2>1 DEF WrappersFound, Wrap!WrappersFound, WrapInv, SiteInv
<1> QED
  BY <1>1, WrapInitial, WrapStep, PTL DEF Wrap!Spec

-----------------------------------------------------------------------------
(* Shadow memory.                                                          *)

\* Induction, for a set of numbers.
LEMMA AllNumbers ==
  ASSUME NEW T, 0 \in T, \A n \in Nat : n \in T => n + 1 \in T
  PROVE  Nat \subseteq T
<1> DEFINE U == Nat \ T
<1> SUFFICES ASSUME U # {} PROVE FALSE
  OBVIOUS
<1>1. PICK n \in U : \A m \in U : n <= m
  BY LeastNumber
<1>2. n \in Nat /\ n # 0 /\ n \notin T
  OBVIOUS
<1>3. n - 1 \in Nat /\ n - 1 \in T
  BY <1>1, <1>2
<1>4. (n - 1) + 1 = n
  BY <1>2
<1> QED
  BY <1>2, <1>3, <1>4

\* A function on 0..M can be defined by recursion.
IsRecursive(f, base, step, M) == f[0] = base /\ \A i \in 1..M : f[i] = step[i][f[i - 1]]
LEMMA Recursion ==
  ASSUME NEW S, NEW base \in S, NEW step \in [Nat -> [S -> S]], NEW M \in Nat
  PROVE  \E f \in [0..M -> S] : IsRecursive(f, base, step, M)
<1> DEFINE Good(n, f) == f = [i \in 0..n |-> IF i = 0 THEN base ELSE step[i][f[i - 1]]]
           T == {n \in Nat : \E f \in [0..n -> S] : Good(n, f)}
<1>1. 0 \in T
  <2>1. PICK f : f = [i \in 0..0 |-> base]
    OBVIOUS
  <2>2. f \in [0..0 -> S] /\ Good(0, f)
    BY <2>1
  <2> QED
    BY <2>2
<1>2. ASSUME NEW n \in Nat, n \in T PROVE n + 1 \in T
  <2>1. PICK f \in [0..n -> S] : Good(n, f)
    BY <1>2
  <2>2. \A i \in 0..n : f[i] = IF i = 0 THEN base ELSE step[i][f[i - 1]]
    BY <2>1
  <2>3. PICK y : y = step[n + 1][f[n]]
    OBVIOUS
  <2>4. y \in S
    BY <2>3
  <2>5. PICK g : g = [i \in 0..(n + 1) |-> IF i = n + 1 THEN y ELSE f[i]]
    OBVIOUS
  <2>6. g \in [0..(n + 1) -> S]
    BY <2>4, <2>5
  <2>7. /\ DOMAIN g = 0..(n + 1)
        /\ \A i \in 0..(n + 1) : g[i] = IF i = 0 THEN base ELSE step[i][g[i - 1]]
    <3>1. ASSUME NEW i \in 0..(n + 1) PROVE g[i] = IF i = 0 THEN base ELSE step[i][g[i - 1]]
      <4>1. CASE i = n + 1
        <5>1. i # 0 /\ i - 1 = n /\ n \in 0..(n + 1) /\ n # n + 1
          BY <4>1
        <5>2. g[i - 1] = f[n] /\ g[i] = y
          BY <2>5, <4>1, <5>1
        <5> QED
          BY <2>3, <4>1, <5>1, <5>2
      <4>2. CASE i # n + 1
        <5>1. i \in 0..n /\ g[i] = f[i]
          BY <2>5, <4>2
        <5>2. i # 0 => i - 1 \in 0..n /\ i - 1 \in 0..(n + 1) /\ i - 1 # n + 1
          BY <5>1
        <5>3. i # 0 => g[i - 1] = f[i - 1]
          BY <2>5, <5>2
        <5> QED
          BY <2>2, <5>1, <5>3
      <4> QED
        BY <4>1, <4>2
    <3> QED
      BY <2>5, <3>1
  <2>8. Good(n + 1, g)
    BY <2>6, <2>7
  <2> HIDE DEF Good
  <2> QED
    BY <2>6, <2>8
<1> HIDE DEF T
<1>3. M \in T
  BY <1>1, <1>2, AllNumbers
<1>4. PICK f \in [0..M -> S] : f = [i \in 0..M |-> IF i = 0 THEN base ELSE step[i][f[i - 1]]]
  BY <1>3 DEF T
<1>5. IsRecursive(f, base, step, M)
  BY <1>4 DEF IsRecursive
<1> QED
  BY <1>5

\* A power of two, as the function that Shl defines by recursion.
IsPowers(f, n) == f = [i \in 0..n |-> IF i = 0 THEN 1 ELSE 2 * f[i - 1]]

LEMMA PowersAre ==
  ASSUME NEW n \in Nat, NEW f, IsPowers(f, n)
  PROVE  \A i \in 0..n : f[i] \in Nat \ {0} /\ f[i] = IF i = 0 THEN 1 ELSE 2 * f[i - 1]
<1>1. \A i \in 0..n : f[i] = IF i = 0 THEN 1 ELSE 2 * f[i - 1]
  <2>1. PICK g : g = [i \in 0..n |-> IF i = 0 THEN 1 ELSE 2 * f[i - 1]]
    OBVIOUS
  <2>2. g = f
    BY <2>1 DEF IsPowers
  <2> QED
    BY <2>1, <2>2
<1> DEFINE T == {i \in Nat : i <= n => f[i] \in Nat \ {0}}
<1>2. 0 \in T
  BY <1>1
<1>3. ASSUME NEW i \in Nat, i \in T PROVE i + 1 \in T
  <2>1. CASE i + 1 <= n
    <3>1. i + 1 \in 0..n /\ i + 1 # 0 /\ (i + 1) - 1 = i /\ f[i] \in Nat \ {0}
      BY <1>3, <2>1
    <3>2. f[i + 1] = 2 * f[i]
      BY <1>1, <3>1
    <3> QED
      BY <3>1, <3>2
  <2> QED
    BY <2>1
<1>4. Nat \subseteq T
  <2> HIDE DEF T
  <2> QED
    BY <1>2, <1>3, AllNumbers
<1> QED
  BY <1>1, <1>4

LEMMA PowersExist == ASSUME NEW n \in Nat PROVE \E f : IsPowers(f, n)
<1> DEFINE step == [i \in Nat |-> [q \in Nat |-> 2 * q]]
<1>1. step \in [Nat -> [Nat -> Nat]]
  OBVIOUS
<1>2. PICK f \in [0..n -> Nat] : IsRecursive(f, 1, step, n)
  <2> HIDE DEF step
  <2> QED
    BY <1>1, Recursion
<1>3. f[0] = 1 /\ \A i \in 1..n : f[i] = step[i][f[i - 1]]
  BY <1>2 DEF IsRecursive
<1>4. \A i \in 1..n : f[i] = 2 * f[i - 1]
  <2> SUFFICES ASSUME NEW i \in 1..n PROVE f[i] = 2 * f[i - 1]
    OBVIOUS
  <2>1. i \in Nat /\ i - 1 \in 0..n
    OBVIOUS
  <2>2. f[i - 1] \in Nat
    BY <2>1
  <2> QED
    BY <1>3, <2>1, <2>2
<1>5. f = [i \in 0..n |-> IF i = 0 THEN 1 ELSE 2 * f[i - 1]]
  <2>1. \A i \in 0..n : f[i] = IF i = 0 THEN 1 ELSE 2 * f[i - 1]
    BY <1>3, <1>4
  <2> QED
    BY <2>1
<1> QED
  BY <1>5 DEF IsPowers

LEMMA ShlPowers == ASSUME NEW n \in Nat PROVE \E f : IsPowers(f, n) /\ Shadow!Shl(n) = f[n]
<1>1. Shadow!Shl(n) = (CHOOSE f : IsPowers(f, n))[n]
  BY DEF Shadow!Shl, IsPowers
<1>2. IsPowers(CHOOSE f : IsPowers(f, n), n)
  BY PowersExist
<1> QED
  BY <1>1, <1>2

\* What Shl computes.
LEMMA ShlIs ==
  /\ Shadow!Shl(0) = 1
  /\ \A n \in Nat : Shadow!Shl(n) \in Nat \ {0} /\ Shadow!Shl(n + 1) = 2 * Shadow!Shl(n)
<1>1. Shadow!Shl(0) = 1
  <2>1. PICK f : IsPowers(f, 0) /\ Shadow!Shl(0) = f[0]
    BY ShlPowers
  <2> QED
    BY <2>1, PowersAre
<1>2. ASSUME NEW n \in Nat
      PROVE  Shadow!Shl(n) \in Nat \ {0} /\ Shadow!Shl(n + 1) = 2 * Shadow!Shl(n)
  <2>1. PICK f : IsPowers(f, n) /\ Shadow!Shl(n) = f[n]
    BY ShlPowers
  <2>2. PICK g : IsPowers(g, n + 1) /\ Shadow!Shl(n + 1) = g[n + 1]
    BY ShlPowers
  <2>3. \A i \in 0..n : f[i] \in Nat \ {0} /\ f[i] = IF i = 0 THEN 1 ELSE 2 * f[i - 1]
    BY <2>1, PowersAre
  <2>4. n + 1 \in Nat
    OBVIOUS
  <2>5. \A i \in 0..(n + 1) : g[i] = IF i = 0 THEN 1 ELSE 2 * g[i - 1]
    BY <2>2, <2>4, PowersAre
  <2> DEFINE T == {i \in Nat : i <= n => g[i] = f[i]}
  <2>6. 0 \in T
    BY <2>3, <2>5
  <2>7. ASSUME NEW i \in Nat, i \in T PROVE i + 1 \in T
    <3>1. CASE i + 1 <= n
      <4>1. i + 1 \in 0..n /\ i + 1 \in 0..(n + 1) /\ i + 1 # 0 /\ (i + 1) - 1 = i /\ g[i] = f[i]
        BY <2>7, <3>1
      <4>2. g[i + 1] = 2 * g[i] /\ f[i + 1] = 2 * f[i]
        BY <2>3, <2>5, <4>1
      <4> QED
        BY <4>1, <4>2
    <3> QED
      BY <3>1
  <2>8. n \in T
    <3> HIDE DEF T
    <3> QED
      BY <2>6, <2>7, AllNumbers
  <2>9. n + 1 \in 0..(n + 1) /\ n + 1 # 0 /\ (n + 1) - 1 = n /\ n \in 0..n
    OBVIOUS
  <2>10. g[n + 1] = 2 * g[n] /\ g[n] = f[n]
    BY <2>5, <2>8, <2>9
  <2> QED
    BY <2>1, <2>2, <2>3, <2>9, <2>10
<1> QED
  BY <1>1, <1>2

LEMMA ShlGrows == ASSUME NEW n \in Nat PROVE Shadow!Shl(n) > n
<1> DEFINE T == {i \in Nat : Shadow!Shl(i) > i}
<1>1. 0 \in T
  BY ShlIs
<1>2. ASSUME NEW i \in Nat, i \in T PROVE i + 1 \in T
  <2>1. Shadow!Shl(i) \in Nat /\ Shadow!Shl(i + 1) = 2 * Shadow!Shl(i) /\ Shadow!Shl(i) > i
    BY <1>2, ShlIs
  <2> QED
    BY <2>1
<1>3. n \in T
  <2> HIDE DEF T
  <2> QED
    BY <1>1, <1>2, AllNumbers
<1> QED
  BY <1>3

LEMMA ShlAdds ==
  ASSUME NEW k \in Nat, NEW n \in Nat
  PROVE  Shadow!Shl(k + n) = Shadow!Shl(k) * Shadow!Shl(n)
<1> DEFINE T == {i \in Nat : Shadow!Shl(k + i) = Shadow!Shl(k) * Shadow!Shl(i)}
<1>1. 0 \in T
  <2>1. k + 0 = k /\ Shadow!Shl(k) \in Nat /\ Shadow!Shl(0) = 1
    BY ShlIs
  <2> QED
    BY <2>1
<1>2. ASSUME NEW i \in Nat, i \in T PROVE i + 1 \in T
  <2>1. k + (i + 1) = (k + i) + 1 /\ k + i \in Nat
    OBVIOUS
  <2>2. Shadow!Shl((k + i) + 1) = 2 * Shadow!Shl(k + i) /\ Shadow!Shl(i + 1) = 2 * Shadow!Shl(i)
    BY <2>1, ShlIs
  <2>3. Shadow!Shl(k + i) = Shadow!Shl(k) * Shadow!Shl(i) /\ Shadow!Shl(k) \in Nat /\ Shadow!Shl(i) \in Nat
    BY <1>2, ShlIs
  <2>4. \A x, y \in Nat : 2 * (x * y) = x * (2 * y)
    OBVIOUS
  <2>5. Shadow!Shl(k + (i + 1)) = Shadow!Shl(k) * Shadow!Shl(i + 1)
    BY <2>1, <2>2, <2>3, <2>4
  <2> QED
    BY <2>5
<1>3. n \in T
  <2> HIDE DEF T
  <2> QED
    BY <1>1, <1>2, AllNumbers
<1> QED
  BY <1>3

\* Of two powers of two the smaller divides the larger.
LEMMA ShlDivides ==
  ASSUME NEW k \in Nat, NEW n \in Nat, Shadow!Shl(k) <= Shadow!Shl(n)
  PROVE  \E q \in Nat : Shadow!Shl(n) = Shadow!Shl(k) * q
<1>1. k <= n
  <2> SUFFICES ASSUME n < k PROVE FALSE
    OBVIOUS
  <2>1. PICK d \in Nat : k = n + d /\ d >= 1
    <3>1. k - n \in Nat /\ k = n + (k - n) /\ k - n >= 1
      OBVIOUS
    <3> QED
      BY <3>1
  <2>2. Shadow!Shl(n) \in Nat \ {0} /\ Shadow!Shl(d) \in Nat
    BY ShlIs
  <2>3. Shadow!Shl(d) > 1
    BY <2>1, <2>2, ShlGrows
  <2>4. Shadow!Shl(k) = Shadow!Shl(n) * Shadow!Shl(d)
    BY <2>1, ShlAdds
  <2>5. \A x, y \in Nat : x > 0 /\ y > 1 => x * y > x
    OBVIOUS
  <2> QED
    BY <2>2, <2>3, <2>4, <2>5
<1>2. n - k \in Nat /\ n = k + (n - k)
  BY <1>1
<1>3. Shadow!Shl(n) = Shadow!Shl(k) * Shadow!Shl(n - k)
  BY <1>2, ShlAdds
<1> QED
  BY <1>2, <1>3, ShlIs

LEMMA Log2Is ==
  ASSUME NEW n \in Nat \ {0}
  PROVE  Shadow!Log2(n) \in 0..n /\ Shadow!Shl(Shadow!Log2(n)) <= n /\ n < Shadow!Shl(Shadow!Log2(n) + 1)
<1> DEFINE T == {k \in Nat : n < Shadow!Shl(k + 1)}
<1>1. n \in T
  <2>1. Shadow!Shl(n) > n /\ Shadow!Shl(n) \in Nat /\ Shadow!Shl(n + 1) = 2 * Shadow!Shl(n)
    BY ShlGrows, ShlIs
  <2> QED
    BY <2>1
<1>2. PICK k \in T : \A m \in T : k <= m
  <2> HIDE DEF T
  <2>1. T \in SUBSET Nat
    BY DEF T
  <2> QED
    BY <1>1, <2>1, LeastNumber
<1>3. k \in 0..n /\ n < Shadow!Shl(k + 1)
  BY <1>1, <1>2
<1>4. Shadow!Shl(k) <= n
  <2>1. CASE k = 0
    BY <2>1, ShlIs
  <2>2. CASE k # 0
    <3>1. k - 1 \in Nat /\ (k - 1) + 1 = k /\ ~(k <= k - 1)
      BY <1>3, <2>2
    <3>2. ~(n < Shadow!Shl(k))
      BY <1>2, <3>1
    <3>3. Shadow!Shl(k) \in Nat
      BY ShlIs
    <3> QED
      BY <3>2, <3>3
  <2> QED
    BY <2>1, <2>2
<1> QED
  BY <1>3, <1>4 DEF Shadow!Log2

\* The scale is a number; it is the one of a power of two when the assertion holds.
LEMMA ScaleIs == ASSUME NEW n \in Nat \ {0} PROVE Shadow!ScaleFor(n) \in Nat
<1>1. Shadow!Log2(n) \in Nat /\ n < Shadow!Shl(Shadow!Log2(n) + 1)
  BY Log2Is
<1>2. PICK L : L = Shadow!Log2(n)
  OBVIOUS
<1>3. L \in Nat /\ n < 2 * Shadow!Shl(L) /\ Shadow!Shl(L) \in Nat
  BY <1>1, <1>2, ShlIs
<1>4. n > Shadow!Shl(L) => L # 0
  BY <1>3, ShlIs
<1> QED
  BY <1>2, <1>3, <1>4 DEF Shadow!ScaleFor

\* AlignTo is the next multiple.
LEMMA AlignIs ==
  ASSUME NEW x \in Nat, NEW a \in Nat \ {0}
  PROVE  /\ Shadow!AlignTo(x, a) \in Nat /\ Shadow!AlignTo(x, a) >= x
         /\ Shadow!AlignTo(x, a) < x + a /\ Shadow!AlignTo(x, a) % a = 0
<1>1. CASE x % a = 0
  BY <1>1 DEF Shadow!AlignTo
<1>2. CASE x % a # 0
  <2>1. PICK r : r = x % a
    OBVIOUS
  <2>2. r \in 0..(a - 1) /\ r # 0
    BY <1>2, <2>1
  <2>3. PICK q \in Int : x = a * q + r
    <3>1. x = a * (x \div a) + (x % a) /\ x \div a \in Int
      OBVIOUS
    <3> QED
      BY <2>1, <3>1
  <2>4. Shadow!AlignTo(x, a) = x + (a - r)
    BY <1>2, <2>1 DEF Shadow!AlignTo
  <2>5. x + (a - r) = a * (q + 1)
    BY <2>2, <2>3
  <2>6. (a * (q + 1)) % a = 0
    OBVIOUS
  <2> QED
    BY <2>2, <2>4, <2>5, <2>6
<1> QED
  BY <1>1, <1>2

\* A structure in its line: its place, and how far that is from the one before.
Described == [size : Nat \ {0}, align : Nat \ {0}, offset : Nat, step : Int]
Unit == Shadow!Shl(gScaleAmount)

\* The structures of a line are aligned, apart and in a line.
PlacesInv ==
  /\ \A i \in DOMAIN gDescriptions :
       /\ gDescriptions[i].offset % gDescriptions[i].align = 0
       /\ gDescriptions[i].align <= gDescriptions[i].size
       /\ \E k \in Nat : gDescriptions[i].align = Shadow!Shl(k)
       /\ gDescriptions[i].offset + gDescriptions[i].size <= gUnalignedSize
  /\ \A i, j \in DOMAIN gDescriptions :
       i < j => gDescriptions[i].offset + gDescriptions[i].size <= gDescriptions[j].offset

\* The steps lead from one structure to the next.
StepsInv ==
  /\ \A i \in DOMAIN gDescriptions :
       gDescriptions[i].step = gDescriptions[i].offset - IF i = 1 THEN 0 ELSE gDescriptions[i - 1].offset
  /\ gPrevOffset = IF gDescriptions = << >> THEN 0 ELSE gDescriptions[Len(gDescriptions)].offset

\* A line is a power of two, unless the assertion has failed; the last structure is small.
LineInv ==
  /\ gDescriptions \in Seq(Described)
  /\ gUnalignedSize \in Nat /\ gPrevOffset \in Nat /\ gScaleAmount \in Nat
  /\ gAlignedSize = Unit
  /\ gShadowMemSize = IF gDescriptions = << >> THEN 0 ELSE Shadow!Shl(OffsetBits) * Unit
  /\ phase # "stopped" => gUnalignedSize <= Unit
  /\ gPrevOffset <= gUnalignedSize /\ gUnalignedSize <= gPrevOffset + 64

\* What InstrumentMemOp makes of the layout.
Made == [base |-> gShadowMem, scale |-> gScaleAmount, scaled |-> 1 < gAlignedSize,
         steps |-> [i \in DOMAIN gDescriptions |-> gDescriptions[i].step]]

\* Shadow memory is mapped once, by the thread that has the lock, before there is code.
MappedInv ==
  /\ phase \in {"init", "running", "stopped"}
  /\ shadow_job \in [Thread -> {"idle", "lock", "map", "instrument"}]
  /\ gShadowMem \in Nat /\ maps \in Nat
  /\ phase # "running" => code = {} /\ gShadowMem = 0 /\ \A t \in Thread : shadow_job[t] = "idle"
  /\ \A t \in Thread : shadow_job[t] = "map" => gShadowMem = 0 /\ gShadowMemLock = t
  /\ \A t \in Thread : shadow_job[t] \in {"lock", "map"} => gDescriptions # << >>
  /\ \A t \in Thread : shadow_job[t] = "instrument" => gShadowMem # 0 \/ gDescriptions = << >>
  /\ code # {} => gShadowMem # 0
  /\ code \subseteq {Made}

ShadowInv == PlacesInv /\ StepsInv /\ LineInv /\ MappedInv

LEMMA ShadowInit == Shadow!Init => ShadowInv
<1> SUFFICES ASSUME Shadow!Init PROVE ShadowInv
  OBVIOUS
<1>1. /\ phase = "init" /\ gDescriptions = << >> /\ gUnalignedSize = 0 /\ gAlignedSize = 1
      /\ gScaleAmount = 0 /\ gPrevOffset = 0 /\ gShadowMemSize = 0 /\ gShadowMem = 0 /\ maps = 0
      /\ shadow_job = [t \in Thread |-> "idle"] /\ code = {}
  BY DEF Shadow!Init, Shadow!NoLayout
<1>2. Unit = 1
  BY <1>1, ShlIs DEF Unit
<1>3. PlacesInv /\ StepsInv
  BY <1>1 DEF PlacesInv, StepsInv
<1>4. LineInv
  BY <1>1, <1>2 DEF LineInv
<1>5. MappedInv
  BY <1>1 DEF MappedInv
<1> QED
  BY <1>3, <1>4, <1>5 DEF ShadowInv

\* What a structure's registration does to the layout.
LEMMA ShadowAdds ==
  ASSUME ShadowInv, NEW s \in Struct, Shadow!AddShadowStructure(s)
  PROVE  ShadowInv'
<1>1. PICK offset : offset = Shadow!AlignTo(gUnalignedSize, s.align)
  OBVIOUS
<1>2. PICK scale : scale = Shadow!ScaleFor(offset + s.size)
  OBVIOUS
<1>3. PICK d : d = [size |-> s.size, align |-> s.align, offset |-> offset, step |-> offset - gPrevOffset]
  OBVIOUS
<1>4. /\ s.size \in Nat \ {0} /\ s.align \in Nat \ {0} /\ s.size % s.align = 0
      /\ s.size <= 64 /\ s.align <= 64
      /\ \E k \in Nat : s.align = Shadow!Shl(k)
  BY ShadowAssumption
<1>5. s.align <= s.size
  <2>1. \A x, a \in Nat \ {0} : x % a = 0 => a <= x
    OBVIOUS
  <2> QED
    BY <1>4, <2>1
<1>6. gUnalignedSize \in Nat /\ gPrevOffset \in Nat /\ gDescriptions \in Seq(Described)
  BY DEF ShadowInv, LineInv
<1>7. /\ offset \in Nat /\ offset >= gUnalignedSize /\ offset % s.align = 0
      /\ Shadow!Imm8(offset - gPrevOffset) = offset - gPrevOffset
  <2>1. /\ offset \in Nat /\ offset >= gUnalignedSize /\ offset < gUnalignedSize + s.align
        /\ offset % s.align = 0
    BY <1>1, <1>4, <1>6, AlignIs
  <2>2. gPrevOffset <= gUnalignedSize /\ gUnalignedSize <= gPrevOffset + 64
    BY DEF ShadowInv, LineInv
  <2>3. PICK n \in 0..127 : n = offset - gPrevOffset
    BY <1>4, <1>6, <2>1, <2>2
  <2>4. n % 256 = n
    OBVIOUS
  <2>5. Shadow!Imm8(n) = n
    BY <2>4 DEF Shadow!Imm8
  <2> QED
    BY <2>1, <2>3, <2>5
<1>8. scale \in Nat
  <2>1. offset + s.size \in Nat \ {0}
    BY <1>4, <1>7
  <2> QED
    BY <1>2, <2>1, ScaleIs
<1>9. /\ phase = "init"
      /\ gDescriptions' = Append(gDescriptions, d) /\ gUnalignedSize' = offset + s.size /\ gPrevOffset' = offset
      /\ gScaleAmount' = scale /\ gAlignedSize' = Shadow!Shl(scale)
      /\ gShadowMemSize' = Shadow!Shl(OffsetBits) * Shadow!Shl(scale)
      /\ phase' = IF Shadow!Shl(scale) >= offset + s.size THEN "init" ELSE "stopped"
      /\ UNCHANGED <<gShadowMem, maps, shadow_job, code>>
  BY <1>1, <1>2, <1>3, <1>7 DEF Shadow!AddShadowStructure
<1>10. d \in Described
  BY <1>3, <1>4, <1>6, <1>7 DEF Described
<1>11. /\ d.size = s.size /\ d.align = s.align /\ d.offset = offset /\ d.step = offset - gPrevOffset
  BY <1>3
<1>12. PICK n : n = Len(gDescriptions)
  OBVIOUS
<1>13. /\ n \in Nat /\ gDescriptions' \in Seq(Described) /\ Len(gDescriptions') = n + 1
       /\ DOMAIN gDescriptions = 1..n /\ DOMAIN gDescriptions' = 1..(n + 1)
       /\ gDescriptions'[n + 1] = d /\ \A i \in 1..n : gDescriptions'[i] = gDescriptions[i]
       /\ gDescriptions' # << >> /\ (gDescriptions = << >> <=> n = 0)
       /\ \A i \in 1..n : gDescriptions[i] \in Described
  BY <1>6, <1>9, <1>10, <1>12
<1>14. PlacesInv'
  <2>1. ASSUME NEW i \in 1..(n + 1)
        PROVE  /\ gDescriptions'[i].offset % gDescriptions'[i].align = 0
               /\ gDescriptions'[i].align <= gDescriptions'[i].size
               /\ \E k \in Nat : gDescriptions'[i].align = Shadow!Shl(k)
               /\ gDescriptions'[i].offset + gDescriptions'[i].size <= gUnalignedSize'
    <3>1. CASE i = n + 1
      BY <1>4, <1>5, <1>7, <1>9, <1>11, <1>13, <3>1
    <3>2. CASE i # n + 1
      <4>1. i \in 1..n /\ gDescriptions'[i] = gDescriptions[i] /\ gDescriptions[i] \in Described
        BY <1>13, <3>2
      <4>2. /\ gDescriptions[i].offset % gDescriptions[i].align = 0
            /\ gDescriptions[i].align <= gDescriptions[i].size
            /\ \E k \in Nat : gDescriptions[i].align = Shadow!Shl(k)
            /\ gDescriptions[i].offset + gDescriptions[i].size <= gUnalignedSize
        BY <1>13, <4>1 DEF ShadowInv, PlacesInv
      <4>3. gDescriptions[i].offset + gDescriptions[i].size <= gUnalignedSize'
        <5>1. gDescriptions[i].offset \in Nat /\ gDescriptions[i].size \in Nat
          BY <4>1 DEF Described
        <5>2. gUnalignedSize' \in Nat /\ gUnalignedSize <= gUnalignedSize'
          BY <1>4, <1>6, <1>7, <1>9
        <5>3. PICK p \in Nat : p = gDescriptions[i].offset + gDescriptions[i].size
          BY <5>1
        <5> QED
          BY <1>6, <4>2, <5>2, <5>3
      <4> QED
        BY <4>1, <4>2, <4>3
    <3> QED
      BY <3>1, <3>2
  <2>2. ASSUME NEW i \in 1..(n + 1), NEW j \in 1..(n + 1), i < j
        PROVE  gDescriptions'[i].offset + gDescriptions'[i].size <= gDescriptions'[j].offset
    <3>1. i \in 1..n /\ gDescriptions'[i] = gDescriptions[i] /\ gDescriptions[i] \in Described
      BY <1>13, <2>2
    <3>2. CASE j = n + 1
      <4>1. gDescriptions[i].offset + gDescriptions[i].size <= gUnalignedSize
        BY <1>13, <3>1 DEF ShadowInv, PlacesInv
      <4>2. gDescriptions[i].offset \in Nat /\ gDescriptions[i].size \in Nat
        BY <3>1 DEF Described
      <4>3. gDescriptions'[j].offset = offset
        BY <1>11, <1>13, <3>2
      <4> QED
        BY <1>6, <1>7, <3>1, <4>1, <4>2, <4>3
    <3>3. CASE j # n + 1
      <4>1. j \in 1..n /\ gDescriptions'[j] = gDescriptions[j]
        BY <1>13, <3>3
      <4> QED
        BY <1>13, <2>2, <3>1, <4>1 DEF ShadowInv, PlacesInv
    <3> QED
      BY <3>2, <3>3
  <2> QED
    BY <1>13, <2>1, <2>2 DEF PlacesInv
<1>15. StepsInv'
  <2>1. gPrevOffset = IF n = 0 THEN 0 ELSE gDescriptions[n].offset
    BY <1>12, <1>13 DEF ShadowInv, StepsInv
  <2>2. ASSUME NEW i \in 1..(n + 1)
        PROVE  gDescriptions'[i].step = gDescriptions'[i].offset - IF i = 1 THEN 0 ELSE gDescriptions'[i - 1].offset
    <3>1. CASE i = n + 1
      <4>1. i # 1 => i - 1 = n /\ n \in 1..n /\ n # 0
        BY <1>13, <3>1
      <4>2. gDescriptions'[i].step = offset - gPrevOffset /\ gDescriptions'[i].offset = offset
        BY <1>11, <1>13, <3>1
      <4>3. i # 1 => gDescriptions'[i - 1].offset = gPrevOffset
        BY <1>13, <2>1, <4>1
      <4>4. i = 1 => gPrevOffset = 0
        BY <1>13, <2>1, <3>1
      <4> QED
        BY <4>2, <4>3, <4>4
    <3>2. CASE i # n + 1
      <4>1. i \in 1..n /\ gDescriptions'[i] = gDescriptions[i]
        BY <1>13, <3>2
      <4>2. i # 1 => i - 1 \in 1..n
        BY <1>13, <4>1
      <4>3. i # 1 => gDescriptions'[i - 1] = gDescriptions[i - 1]
        BY <1>13, <4>2
      <4>4. gDescriptions[i].step = gDescriptions[i].offset - IF i = 1 THEN 0 ELSE gDescriptions[i - 1].offset
        BY <1>13, <4>1 DEF ShadowInv, StepsInv
      <4> QED
        BY <4>1, <4>3, <4>4
    <3> QED
      BY <3>1, <3>2
  <2> QED
    BY <1>9, <1>11, <1>13, <2>2 DEF StepsInv
<1>16. LineInv'
  <2>1. Unit' = Shadow!Shl(scale)
    BY <1>9 DEF Unit
  <2>2. Shadow!Shl(scale) \in Nat
    BY <1>8, ShlIs
  <2>3. phase' # "stopped" => offset + s.size <= Shadow!Shl(scale)
    BY <1>4, <1>7, <1>9, <2>2
  <2> QED
    BY <1>4, <1>7, <1>8, <1>9, <1>13, <2>1, <2>3 DEF LineInv
<1>17. MappedInv'
  <2>1. /\ shadow_job' \in [Thread -> {"idle", "lock", "map", "instrument"}]
        /\ gShadowMem' = 0 /\ code' = {} /\ maps' \in Nat /\ \A t \in Thread : shadow_job'[t] = "idle"
    BY <1>9 DEF ShadowInv, MappedInv
  <2>2. phase' \in {"init", "running", "stopped"}
    BY <1>9
  <2> QED
    BY <2>1, <2>2 DEF MappedInv
<1> QED
  BY <1>14, <1>15, <1>16, <1>17 DEF ShadowInv

\* Steps that leave the layout alone keep what is true of it.
LEMMA LayoutStays ==
  ASSUME ShadowInv, UNCHANGED Shadow!layout, phase' = "stopped" <=> phase = "stopped"
  PROVE  PlacesInv' /\ StepsInv' /\ LineInv' /\ Unit' = Unit
<1>1. UNCHANGED <<gDescriptions, gUnalignedSize, gAlignedSize, gScaleAmount, gPrevOffset, gShadowMemSize>>
  BY DEF Shadow!layout
<1>2. Unit' = Unit
  BY <1>1 DEF Unit
<1>3. PlacesInv'
  BY <1>1 DEF ShadowInv, PlacesInv
<1>4. StepsInv'
  BY <1>1 DEF ShadowInv, StepsInv
<1>5. LineInv'
  BY <1>1, <1>2 DEF ShadowInv, LineInv
<1> QED
  BY <1>2, <1>3, <1>4, <1>5

LEMMA ShadowStep == ShadowInv /\ [Shadow!Next]_(Shadow!shadowVars) => ShadowInv'
<1> SUFFICES ASSUME ShadowInv, [Shadow!Next]_(Shadow!shadowVars) PROVE ShadowInv'
  OBVIOUS
<1>0. MappedInv
  BY DEF ShadowInv
<1>1. ASSUME NEW s \in Struct, Shadow!AddShadowStructure(s) PROVE ShadowInv'
  BY <1>1, ShadowAdds
<1>2. ASSUME Shadow!InitDone PROVE ShadowInv'
  <2>1. PlacesInv' /\ StepsInv' /\ LineInv'
    BY <1>2, LayoutStays DEF Shadow!InitDone
  <2>2. MappedInv'
    BY <1>0, <1>2 DEF Shadow!InitDone, MappedInv
  <2> QED
    BY <2>1, <2>2 DEF ShadowInv
<1>3. ASSUME Shadow!Exit PROVE ShadowInv'
  <2>1. /\ phase' = "init" /\ gDescriptions' = << >> /\ gUnalignedSize' = 0 /\ gAlignedSize' = 1
        /\ gScaleAmount' = 0 /\ gPrevOffset' = 0 /\ gShadowMemSize' = 0 /\ gShadowMem' = 0
        /\ code' = {} /\ maps' = 0 /\ shadow_job' = shadow_job /\ \A t \in Thread : shadow_job[t] = "idle"
    BY <1>3 DEF Shadow!Exit
  <2>2. Unit' = 1
    BY <2>1, ShlIs DEF Unit
  <2>3. PlacesInv' /\ StepsInv'
    BY <2>1 DEF PlacesInv, StepsInv
  <2>4. LineInv'
    BY <2>1, <2>2 DEF LineInv
  <2>5. MappedInv'
    BY <1>0, <2>1 DEF MappedInv
  <2> QED
    BY <2>3, <2>4, <2>5 DEF ShadowInv
<1>4. ASSUME NEW t \in Thread, Shadow!InstrumentBlocks(t) PROVE ShadowInv'
  <2>1. PlacesInv' /\ StepsInv' /\ LineInv'
    BY <1>4, LayoutStays DEF Shadow!InstrumentBlocks
  <2>2. gShadowMemSize = 0 => gDescriptions = << >>
    <3>1. Shadow!Shl(OffsetBits) \in Nat \ {0} /\ Unit \in Nat \ {0}
      BY ShadowAssumption, ShlIs DEF ShadowInv, LineInv, Unit
    <3>2. \A x, y \in Nat \ {0} : x * y # 0
      OBVIOUS
    <3> QED
      BY <3>1, <3>2 DEF ShadowInv, LineInv
  <2>3. /\ UNCHANGED <<gDescriptions, gAlignedSize, gScaleAmount, phase, gShadowMem, gShadowMemLock, maps, code>>
        /\ phase = "running"
        /\ shadow_job' = [shadow_job EXCEPT ![t] = IF gShadowMemSize # 0 /\ gDescriptions # << >> /\ gShadowMem = 0
                                                  THEN "lock" ELSE "instrument"]
    BY <1>4 DEF Shadow!InstrumentBlocks, Shadow!layout
  <2>4. Made' = Made
    BY <2>3 DEF Made
  <2>5. MappedInv'
    BY <1>0, <2>2, <2>3, <2>4 DEF MappedInv
  <2> QED
    BY <2>1, <2>5 DEF ShadowInv
<1>5. ASSUME NEW t \in Thread, Shadow!LockShadowMem(t) PROVE ShadowInv'
  <2>1. PlacesInv' /\ StepsInv' /\ LineInv'
    BY <1>5, LayoutStays DEF Shadow!LockShadowMem
  <2>2. None \notin Thread
    BY TypesAssumption
  <2>3. /\ UNCHANGED <<gDescriptions, gAlignedSize, gScaleAmount, phase, gShadowMem, maps, code>>
        /\ shadow_job[t] = "lock" /\ gShadowMemLock = None
        /\ IF gShadowMem # 0
           THEN shadow_job' = [shadow_job EXCEPT ![t] = "instrument"] /\ UNCHANGED gShadowMemLock
           ELSE shadow_job' = [shadow_job EXCEPT ![t] = "map"] /\ gShadowMemLock' = t
    BY <1>5 DEF Shadow!LockShadowMem, Shadow!layout
  <2>4. Made' = Made
    BY <2>3 DEF Made
  <2>5. MappedInv'
    BY <1>0, <2>2, <2>3, <2>4 DEF MappedInv
  <2> QED
    BY <2>1, <2>5 DEF ShadowInv
<1>6. ASSUME NEW t \in Thread, Shadow!MapShadowMem(t) PROVE ShadowInv'
  <2>1. PlacesInv' /\ StepsInv' /\ LineInv'
    BY <1>6, LayoutStays DEF Shadow!MapShadowMem
  <2>2. /\ UNCHANGED <<gDescriptions, phase, code>>
        /\ shadow_job[t] = "map" /\ maps' = maps + 1 /\ gShadowMem' = 1 + maps * gShadowMemSize
        /\ shadow_job' = [shadow_job EXCEPT ![t] = "instrument"]
    BY <1>6 DEF Shadow!MapShadowMem, Shadow!layout
  <2>3. gShadowMemSize \in Nat
    <3>1. Shadow!Shl(OffsetBits) \in Nat /\ Unit \in Nat
      BY ShadowAssumption, ShlIs DEF ShadowInv, LineInv, Unit
    <3>2. \A x, y \in Nat : x * y \in Nat
      OBVIOUS
    <3> QED
      BY <3>1, <3>2 DEF ShadowInv, LineInv
  <2>4. gShadowMem' \in Nat \ {0}
    <3>1. \A x, y \in Nat : 1 + x * y \in Nat \ {0}
      OBVIOUS
    <3>2. maps \in Nat
      BY <1>0 DEF MappedInv
    <3> QED
      BY <2>2, <2>3, <3>1, <3>2
  <2>5. code = {}
    BY <1>0, <2>2 DEF MappedInv
  <2>6. \A u \in Thread : shadow_job[u] = "map" => u = t
    BY <1>0, <2>2 DEF MappedInv
  <2>7. MappedInv'
    BY <1>0, <2>2, <2>4, <2>5, <2>6 DEF MappedInv
  <2> QED
    BY <2>1, <2>7 DEF ShadowInv
<1>7. ASSUME NEW t \in Thread, Shadow!InstrumentMemOp(t) PROVE ShadowInv'
  <2>1. PlacesInv' /\ StepsInv' /\ LineInv'
    BY <1>7, LayoutStays DEF Shadow!InstrumentMemOp
  <2>2. /\ UNCHANGED <<gDescriptions, gAlignedSize, gScaleAmount, phase, gShadowMem, gShadowMemLock, maps>>
        /\ shadow_job[t] = "instrument"
        /\ shadow_job' = [shadow_job EXCEPT ![t] = "idle"]
        /\ code' = IF gDescriptions = << >> THEN code ELSE code \cup {Made}
    BY <1>7 DEF Shadow!InstrumentMemOp, Shadow!layout, Made
  <2>3. Made' = Made
    BY <2>2 DEF Made
  <2>4. code' \subseteq {Made}' /\ (code' # {} => gShadowMem # 0) /\ phase = "running"
    BY <1>0, <2>2, <2>3 DEF MappedInv
  <2>5. MappedInv'
    BY <1>0, <2>2, <2>4 DEF MappedInv
  <2> QED
    BY <2>1, <2>5 DEF ShadowInv
<1>8. ASSUME UNCHANGED Shadow!shadowVars PROVE ShadowInv'
  <2>1. UNCHANGED <<gDescriptions, gUnalignedSize, gAlignedSize, gScaleAmount, gPrevOffset, gShadowMemSize,
                    phase, gShadowMem, gShadowMemLock, maps, shadow_job, code>>
    BY <1>8 DEF Shadow!shadowVars
  <2>2. PlacesInv' /\ StepsInv' /\ LineInv'
    BY <2>1, LayoutStays DEF Shadow!layout
  <2>3. Made' = Made
    BY <2>1 DEF Made
  <2>4. MappedInv'
    BY <1>0, <2>1, <2>3 DEF MappedInv
  <2> QED
    BY <2>2, <2>4 DEF ShadowInv
<1> QED
  BY <1>1, <1>2, <1>3, <1>4, <1>5, <1>6, <1>7, <1>8 DEF Shadow!Next

\* Where a line is, counted from the start of shadow memory.
LineOf(a) == (a \div Shadow!Shl(gShiftAmount)) % Shadow!Shl(OffsetBits)

LEMMA LineIs ==
  ASSUME NEW a \in Address
  PROVE  /\ a \div Shadow!Shl(gShiftAmount) \in Nat
         /\ LineOf(a) \in Nat /\ LineOf(a) < Shadow!Shl(OffsetBits)
<1>1. Shadow!Shl(gShiftAmount) \in Nat \ {0} /\ Shadow!Shl(OffsetBits) \in Nat \ {0} /\ a \in Nat
  BY ShadowAssumption, ShlIs
<1>2. \A x \in Nat, d \in Nat \ {0} : x \div d \in Nat
  OBVIOUS
<1>3. \A x \in Nat, d \in Nat \ {0} : x % d \in Nat /\ x % d < d
  OBVIOUS
<1>4. a \div Shadow!Shl(gShiftAmount) \in Nat
  BY <1>1, <1>2
<1> QED
  BY <1>1, <1>3, <1>4 DEF LineOf

\* The address that code computes, as a function that ShadowAddress defines by recursion.
IsWalk(f, c, i, first) == f = [k \in 0..i |-> IF k = 0 THEN first ELSE f[k - 1] + c.steps[k]]

LEMMA WalkIs ==
  ASSUME ShadowInv, NEW i \in DOMAIN gDescriptions, NEW first \in Nat
  PROVE  /\ \E f : IsWalk(f, Made, i, first)
         /\ \A f : IsWalk(f, Made, i, first) => f[i] = first + gDescriptions[i].offset
<1> DEFINE Place(k) == IF k = 0 THEN 0 ELSE gDescriptions[k].offset
<1>1. /\ gDescriptions \in Seq(Described) /\ Len(gDescriptions) \in Nat
      /\ DOMAIN gDescriptions = 1..Len(gDescriptions) /\ i \in 1..Len(gDescriptions) /\ i \in Nat
  BY DEF ShadowInv, LineInv
<1>2. ASSUME NEW k \in 0..i PROVE Place(k) \in Nat
  <2>1. CASE k # 0
    <3>1. k \in 1..Len(gDescriptions)
      BY <1>1, <2>1
    <3>2. gDescriptions[k] \in Described
      BY <1>1, <3>1
    <3> QED
      BY <2>1, <3>2 DEF Described
  <2> QED
    BY <2>1
<1>3. ASSUME NEW k \in 1..i PROVE Made.steps[k] = Place(k) - Place(k - 1)
  <2>1. k \in 1..Len(gDescriptions) /\ k # 0 /\ k - 1 \in 0..i /\ (k - 1 = 0 <=> k = 1)
    BY <1>1
  <2>2. gDescriptions[k].step = gDescriptions[k].offset - IF k = 1 THEN 0 ELSE gDescriptions[k - 1].offset
    BY <1>1, <2>1 DEF ShadowInv, StepsInv
  <2>3. Made.steps[k] = gDescriptions[k].step
    BY <1>1, <2>1 DEF Made
  <2> QED
    BY <2>1, <2>2, <2>3
<1> HIDE DEF Place
<1>4. \E f : IsWalk(f, Made, i, first)
  <2>1. PICK f : f = [k \in 0..i |-> first + Place(k)]
    OBVIOUS
  <2>2. ASSUME NEW k \in 0..i PROVE f[k] = IF k = 0 THEN first ELSE f[k - 1] + Made.steps[k]
    <3>1. CASE k = 0
      BY <2>1, <3>1 DEF Place
    <3>2. CASE k # 0
      <4>1. k \in 1..i /\ k - 1 \in 0..i
        BY <1>1, <3>2
      <4>2. Place(k) \in Nat /\ Place(k - 1) \in Nat /\ Made.steps[k] = Place(k) - Place(k - 1)
        BY <1>2, <1>3, <4>1
      <4>3. f[k] = first + Place(k) /\ f[k - 1] = first + Place(k - 1)
        BY <2>1, <4>1
      <4> QED
        BY <3>2, <4>2, <4>3
    <3> QED
      BY <3>1, <3>2
  <2>3. f = [k \in 0..i |-> f[k]]
    BY <2>1
  <2>4. f = [k \in 0..i |-> IF k = 0 THEN first ELSE f[k - 1] + Made.steps[k]]
    BY <2>2, <2>3
  <2> QED
    BY <2>4 DEF IsWalk
<1>5. ASSUME NEW f, IsWalk(f, Made, i, first) PROVE f[i] = first + gDescriptions[i].offset
  <2>1. \A k \in 0..i : f[k] = IF k = 0 THEN first ELSE f[k - 1] + Made.steps[k]
    <3>1. PICK g : g = [k \in 0..i |-> IF k = 0 THEN first ELSE f[k - 1] + Made.steps[k]]
      OBVIOUS
    <3>2. g = f
      BY <1>5, <3>1 DEF IsWalk
    <3> QED
      BY <3>1, <3>2
  <2> DEFINE T == {k \in Nat : k <= i => f[k] = first + Place(k)}
  <2>2. 0 \in T
    <3>1. f[0] = first /\ Place(0) = 0
      BY <1>1, <2>1 DEF Place
    <3> QED
      BY <3>1
  <2>3. ASSUME NEW k \in Nat, k \in T PROVE k + 1 \in T
    <3>1. CASE k + 1 <= i
      <4>1. k + 1 \in 1..i /\ k + 1 \in 0..i /\ k + 1 # 0 /\ (k + 1) - 1 = k /\ k \in 0..i
        BY <1>1, <3>1
      <4>2. f[k] = first + Place(k)
        BY <2>3, <4>1
      <4>3. Place(k) \in Nat /\ Place(k + 1) \in Nat /\ Made.steps[k + 1] = Place(k + 1) - Place(k)
        BY <1>2, <1>3, <4>1
      <4>4. f[k + 1] = f[k] + Made.steps[k + 1]
        BY <2>1, <4>1
      <4>5. f[k + 1] = first + Place(k + 1)
        BY <4>2, <4>3, <4>4
      <4> QED
        BY <4>5
    <3> QED
      BY <3>1
  <2>4. i \in T
    <3> HIDE DEF T
    <3> QED
      BY <1>1, <2>2, <2>3, AllNumbers
  <2> QED
    BY <1>1, <2>4 DEF Place
<1> QED
  BY <1>4, <1>5

\* All code computes the line's start and adds the structure's offset.
LEMMA AddressIs ==
  ASSUME ShadowInv, NEW i \in DOMAIN gDescriptions, NEW a \in Address
  PROVE  Shadow!ShadowAddress(Made, i, a) = gShadowMem + LineOf(a) * Unit + gDescriptions[i].offset
<1>1. LineOf(a) \in Nat /\ Unit \in Nat \ {0} /\ gShadowMem \in Nat /\ gAlignedSize = Unit
  BY LineIs, ShlIs DEF ShadowInv, LineInv, MappedInv, Unit
<1>2. PICK first : first = Made.base + (IF Made.scaled THEN LineOf(a) * Shadow!Shl(Made.scale) ELSE LineOf(a))
  OBVIOUS
<1>3. first = gShadowMem + LineOf(a) * Unit
  <2>1. Made.base = gShadowMem /\ Shadow!Shl(Made.scale) = Unit /\ (Made.scaled <=> 1 < Unit)
    BY <1>1 DEF Made, Unit
  <2>2. \A x \in Nat, y \in Nat \ {0} : ~(1 < y) => x * y = x
    OBVIOUS
  <2>3. ~Made.scaled => LineOf(a) * Unit = LineOf(a)
    BY <1>1, <2>1, <2>2
  <2> QED
    BY <1>2, <2>1, <2>3
<1>4. first \in Nat
  <2>1. \A x, y, z \in Nat : x + y * z \in Nat
    OBVIOUS
  <2> QED
    BY <1>1, <1>3, <2>1
<1>5. Shadow!ShadowAddress(Made, i, a) = (CHOOSE f : IsWalk(f, Made, i, first))[i]
  BY <1>2 DEF Shadow!ShadowAddress, IsWalk, LineOf
<1>6. IsWalk(CHOOSE f : IsWalk(f, Made, i, first), Made, i, first)
  BY <1>4, WalkIs
<1> QED
  BY <1>3, <1>4, <1>5, <1>6, WalkIs

\* Numbers of lines, scaled.
LEMMA LinesFit ==
  ASSUME NEW o \in Nat, NEW u \in Nat, o < u, NEW p \in Nat, NEW f \in Nat, NEW z \in Nat, f + z <= p
  PROVE  o * p + f + z <= u * p
<1>1. o * p + p <= u * p
  OBVIOUS
<1>2. PICK x \in Nat : x = o * p
  OBVIOUS
<1>3. PICK y \in Nat : y = u * p
  OBVIOUS
<1> QED
  BY <1>1, <1>2, <1>3

LEMMA LinesAligned ==
  ASSUME NEW o \in Nat, NEW f \in Nat, NEW d \in Nat \ {0}, NEW q \in Nat, f % d = 0
  PROVE  (o * (d * q) + f) % d = 0
<1>1. PICK k \in Int : f = d * k
  <2>1. f = d * (f \div d) + (f % d) /\ f \div d \in Int
    OBVIOUS
  <2>2. f = d * (f \div d)
    BY <2>1
  <2> QED
    BY <2>1, <2>2
<1>2. o * (d * q) = d * (o * q)
  OBVIOUS
<1>3. PICK m \in Int : m = o * q
  OBVIOUS
<1>4. o * (d * q) + f = d * (m + k)
  BY <1>1, <1>2, <1>3
<1>5. \A x \in Int : (d * x) % d = 0
  OBVIOUS
<1> QED
  BY <1>4, <1>5

LEMMA SameRemainder ==
  ASSUME NEW x \in Nat, NEW y \in Nat, NEW d \in Nat \ {0}, x % d = y % d
  PROVE  (x - y) % d = 0
<1>1. \A z \in Nat : \E q \in Int : z = d * q + (z % d)
  <2>1. \A z \in Nat : z = d * (z \div d) + (z % d) /\ z \div d \in Int
    OBVIOUS
  <2> QED
    BY <2>1
<1>2. PICK q \in Int : x = d * q + (x % d)
  BY <1>1
<1>3. PICK k \in Int : y = d * k + (y % d)
  BY <1>1
<1>4. PICK r \in Int : r = x % d
  OBVIOUS
<1>5. x - y = d * (q - k)
  BY <1>2, <1>3, <1>4
<1>6. \A z \in Int : (d * z) % d = 0
  OBVIOUS
<1> QED
  BY <1>5, <1>6

LEMMA ShadowSound == ShadowInv => ShadowShared
<1> SUFFICES ASSUME ShadowInv, NEW c \in code, NEW i \in DOMAIN gDescriptions, NEW a \in Address
             PROVE  LET at == Shadow!ShadowAddress(c, i, a) IN
    /\ gShadowMem <= at /\ at + gDescriptions[i].size <= gShadowMem + gShadowMemSize
    /\ (at - gShadowMem) % gDescriptions[i].align = 0
    /\ \A d \in code : Shadow!ShadowAddress(d, i, a) = at
    /\ (a \div Shadow!Shl(gShiftAmount)) * Shadow!Shl(gScaleAmount) < Shadow!Shl(OffsetBits) => Shadow!ShadowOf(i, a) = at
    /\ \A j \in DOMAIN gDescriptions : \A b \in Address :
         LET other == Shadow!ShadowAddress(c, j, b) IN
         \/ i = j /\ (a \div Shadow!Shl(gShiftAmount) - b \div Shadow!Shl(gShiftAmount)) % Shadow!Shl(OffsetBits) = 0
         \/ at + gDescriptions[i].size <= other
         \/ other + gDescriptions[j].size <= at
  BY DEF ShadowShared, Shadow!ShadowShared
<1>1. c = Made /\ \A d \in code : d = Made
  BY DEF ShadowInv, MappedInv
<1>2. /\ gShadowMem \in Nat /\ Unit \in Nat \ {0} /\ Shadow!Shl(OffsetBits) \in Nat \ {0}
      /\ gUnalignedSize \in Nat /\ gUnalignedSize <= Unit
      /\ gShadowMemSize = Shadow!Shl(OffsetBits) * Unit
  <2>1. phase = "running" /\ gShadowMem \in Nat
    BY DEF ShadowInv, MappedInv
  <2>2. gDescriptions # << >>
    OBVIOUS
  <2> QED
    BY <2>1, <2>2, ShadowAssumption, ShlIs DEF ShadowInv, LineInv, Unit
<1>3. ASSUME NEW j \in DOMAIN gDescriptions
      PROVE  /\ gDescriptions[j].offset \in Nat /\ gDescriptions[j].size \in Nat \ {0} /\ gDescriptions[j].align \in Nat \ {0}
             /\ gDescriptions[j].offset + gDescriptions[j].size <= Unit
  <2>1. gDescriptions[j] \in Described
    BY DEF ShadowInv, LineInv
  <2>2. gDescriptions[j].offset + gDescriptions[j].size <= gUnalignedSize
    BY DEF ShadowInv, PlacesInv
  <2>3. gDescriptions[j].offset \in Nat /\ gDescriptions[j].size \in Nat \ {0} /\ gDescriptions[j].align \in Nat \ {0}
    BY <2>1 DEF Described
  <2>4. PICK p \in Nat : p = gDescriptions[j].offset + gDescriptions[j].size
    BY <2>3
  <2> QED
    BY <1>2, <2>2, <2>3, <2>4
<1>4. PICK P : P = Unit
  OBVIOUS
<1>5. PICK N : N = Shadow!Shl(OffsetBits)
  OBVIOUS
<1>6. PICK f : f = gDescriptions[i].offset
  OBVIOUS
<1>7. PICK z : z = gDescriptions[i].size
  OBVIOUS
<1>8. PICK o : o = LineOf(a)
  OBVIOUS
<1>9. /\ P \in Nat \ {0} /\ N \in Nat \ {0} /\ f \in Nat /\ z \in Nat \ {0} /\ f + z <= P
      /\ o \in Nat /\ o < N
  BY <1>2, <1>3, <1>4, <1>5, <1>6, <1>7, <1>8, LineIs
<1>10. PICK at : at = Shadow!ShadowAddress(c, i, a)
  OBVIOUS
<1>11. at = gShadowMem + o * P + f
  BY <1>1, <1>4, <1>6, <1>8, <1>10, AddressIs
<1>12. o * P \in Nat
  BY <1>9
<1>13. gShadowMem <= at /\ at + z <= gShadowMem + gShadowMemSize
  <2>1. o * P + f + z <= N * P
    BY <1>9, LinesFit
  <2>2. PICK x \in Nat : x = o * P
    BY <1>12
  <2>3. PICK y \in Nat : y = N * P
    BY <1>9
  <2>4. gShadowMemSize = y
    BY <1>2, <1>4, <1>5, <2>3
  <2> QED
    BY <1>2, <1>9, <1>11, <2>1, <2>2, <2>3, <2>4
<1>14. (at - gShadowMem) % gDescriptions[i].align = 0
  <2>1. PICK d : d = gDescriptions[i].align
    OBVIOUS
  <2>2. PICK k \in Nat : d = Shadow!Shl(k)
    BY <2>1 DEF ShadowInv, PlacesInv
  <2>3. d \in Nat \ {0} /\ d <= z /\ f % d = 0
    BY <1>3, <1>6, <1>7, <2>1 DEF ShadowInv, PlacesInv
  <2>4. Shadow!Shl(k) <= Shadow!Shl(gScaleAmount) /\ gScaleAmount \in Nat
    <3>1. d <= P
      BY <1>9, <2>3
    <3> QED
      BY <1>4, <2>2, <3>1 DEF Unit, ShadowInv, LineInv
  <2>5. PICK q \in Nat : P = d * q
    BY <1>4, <2>2, <2>4, ShlDivides DEF Unit
  <2>6. (o * P + f) % d = 0
    <3>1. o \in Nat /\ P \in Nat /\ f \in Nat
      BY <1>9
    <3>2. f % d = 0 /\ d \in Nat \ {0}
      BY <2>3
    <3>3. (o * (d * q) + f) % d = 0
      BY <2>5, <3>1, <3>2, LinesAligned
    <3> QED
      BY <2>5, <3>3
  <2>7. at - gShadowMem = o * P + f
    <3>1. PICK x \in Nat : x = o * P
      BY <1>12
    <3> QED
      BY <1>2, <1>9, <1>11, <3>1
  <2> QED
    BY <2>1, <2>6, <2>7
<1>15. \A d \in code : Shadow!ShadowAddress(d, i, a) = at
  BY <1>1, <1>10
<1>16. ASSUME (a \div Shadow!Shl(gShiftAmount)) * Shadow!Shl(gScaleAmount) < Shadow!Shl(OffsetBits)
       PROVE  Shadow!ShadowOf(i, a) = at
  <2>1. PICK x : x = a \div Shadow!Shl(gShiftAmount)
    OBVIOUS
  <2>2. x \in Nat /\ o = x % N /\ x * P < N
    BY <1>4, <1>5, <1>8, <1>16, <2>1, LineIs DEF LineOf, Unit
  <2>3. x <= x * P /\ x * P \in Nat
    BY <1>9, <2>2
  <2>4. \A y \in Nat : y < N => y % N = y
    BY <1>9
  <2>5. x < N
    BY <1>9, <2>2, <2>3
  <2>6. o = x /\ (x * P) % N = x * P
    BY <2>2, <2>3, <2>4, <2>5
  <2>7. Shadow!ShadowOf(i, a) = gShadowMem + ((x * P) % N) + f
    BY <1>4, <1>5, <1>6, <2>1 DEF Shadow!ShadowOf, Unit
  <2> QED
    BY <1>11, <2>6, <2>7
<1>17. ASSUME NEW j \in DOMAIN gDescriptions, NEW b \in Address
       PROVE  \/ i = j /\ (a \div Shadow!Shl(gShiftAmount) - b \div Shadow!Shl(gShiftAmount)) % Shadow!Shl(OffsetBits) = 0
              \/ at + gDescriptions[i].size <= Shadow!ShadowAddress(c, j, b)
              \/ Shadow!ShadowAddress(c, j, b) + gDescriptions[j].size <= at
  <2>1. PICK g : g = gDescriptions[j].offset
    OBVIOUS
  <2>2. PICK y : y = gDescriptions[j].size
    OBVIOUS
  <2>3. PICK u : u = LineOf(b)
    OBVIOUS
  <2>4. PICK other : other = Shadow!ShadowAddress(c, j, b)
    OBVIOUS
  <2>5. g \in Nat /\ y \in Nat \ {0} /\ g + y <= P /\ u \in Nat
    BY <1>3, <1>4, <2>1, <2>2, <2>3, LineIs
  <2>6. other = gShadowMem + u * P + g
    BY <1>1, <1>4, <2>1, <2>3, <2>4, AddressIs
  <2>7. PICK op \in Nat : op = o * P
    BY <1>12
  <2>8. PICK up \in Nat : up = u * P
    BY <1>9, <2>5
  <2>9. CASE o < u
    <3>1. op + f + z <= up
      BY <1>9, <2>5, <2>7, <2>8, <2>9, LinesFit
    <3>2. at + z <= other
      BY <1>2, <1>9, <1>11, <2>5, <2>6, <2>7, <2>8, <3>1
    <3> QED
      BY <1>7, <2>4, <3>2
  <2>10. CASE u < o
    <3>1. up + g + y <= op
      BY <1>9, <2>5, <2>7, <2>8, <2>10, LinesFit
    <3>2. other + y <= at
      BY <1>2, <1>9, <1>11, <2>5, <2>6, <2>7, <2>8, <3>1
    <3> QED
      BY <2>2, <2>4, <3>2
  <2>11. CASE o = u /\ i = j
    <3>1. a \div Shadow!Shl(gShiftAmount) \in Nat /\ b \div Shadow!Shl(gShiftAmount) \in Nat
      BY LineIs
    <3>2. (a \div Shadow!Shl(gShiftAmount)) % Shadow!Shl(OffsetBits) = (b \div Shadow!Shl(gShiftAmount)) % Shadow!Shl(OffsetBits)
      BY <1>8, <2>3, <2>11 DEF LineOf
    <3> QED
      BY <1>2, <2>11, <3>1, <3>2, SameRemainder
  <2>12. CASE o = u /\ i # j
    <3>1. i \in Nat /\ j \in Nat
      BY DEF ShadowInv, LineInv
    <3>2. i < j => f + z <= g
      BY <1>6, <1>7, <2>1 DEF ShadowInv, PlacesInv
    <3>3. j < i => g + y <= f
      BY <1>6, <2>1, <2>2 DEF ShadowInv, PlacesInv
    <3>4. op = up
      BY <2>7, <2>8, <2>12
    <3>5. at + z <= other \/ other + y <= at
      <4>1. at = gShadowMem + op + f /\ other = gShadowMem + op + g
        BY <1>11, <2>6, <2>7, <2>8, <3>4
      <4>2. gShadowMem \in Nat /\ op \in Nat /\ f \in Nat /\ g \in Nat /\ z \in Nat /\ y \in Nat
        BY <1>2, <1>9, <2>5
      <4>3. CASE i < j
        BY <3>2, <4>1, <4>2, <4>3
      <4>4. CASE j < i
        BY <3>3, <4>1, <4>2, <4>4
      <4> QED
        BY <2>12, <3>1, <4>3, <4>4
    <3> QED
      BY <1>7, <2>2, <2>4, <3>5
  <2> QED
    BY <1>9, <2>5, <2>9, <2>10, <2>11, <2>12
<1> QED
  BY <1>7, <1>10, <1>13, <1>14, <1>15, <1>16, <1>17

\* Shadow memory is shared rightly (shadow_memory/client.cc), whatever the sizes and alignments
\* of the structures, of up to 64 bytes so that an 8-bit immediate leads from one to the next,
\* the granularity and the width of an offset: shadow memory is mapped
\* once, before there is code that has its address, so that all code, whichever thread has made
\* it, finds one structure for an address, aligned, in shadow memory and apart from all others.
THEOREM ShadowSharedHolds == Shadow!Spec => []ShadowShared
<1>1. Shadow!Spec => []ShadowInv
  BY ShadowInit, ShadowStep, PTL DEF Shadow!Spec
<1> QED
  BY <1>1, ShadowSound, PTL
=============================================================================
