-------------------------- MODULE SystemCallHooks ---------------------------
(***************************************************************************)
(* Hooks on system calls (clients/user/client.cc, clients/util/closure.h). *)
(* Hooks are appended to two lists under a lock; threads that make system  *)
(* calls walk the lists without it.  Code is translated when it is first   *)
(* reached, and calls the hooks behind a system call only if there were    *)
(* any then.                                                               *)
(***************************************************************************)
EXTENDS Naturals, Sequences, SequencesExt

CONSTANTS Thread, Hook, Block, NoHook, NoThread

VARIABLES
  link,        \* for each list: first, and the successors of its closures
  next_ptr,    \* the closure whose link is the end of the list
  list_lock,   \* the thread that holds the list's lock
  added,       \* the hooks whose addition has returned
  exit_hooked, \* of each block: whether it is translated, with hooks behind its calls
  hook_job     \* what each thread is doing

hookVars == <<link, next_ptr, list_lock, added, exit_hooked, hook_job>>

List == {"entry", "exit"}
First == "first"
Idle == [op |-> "idle"]

Init ==
  /\ link = [l \in List |-> [p \in Hook \cup {First} |-> NoHook]]
  /\ next_ptr = [l \in List |-> First] /\ list_lock = [l \in List |-> NoThread]
  /\ added = [l \in List |-> {}]
  /\ exit_hooked = [b \in Block |-> "untranslated"]
  /\ hook_job = [t \in Thread |-> Idle]

Does(t, op) == hook_job[t].op = op

\* AddSystemCallEntryFunction, AddSystemCallExitFunction: a new closure.
Add(t) ==
  /\ Does(t, "idle")
  /\ \E l \in List, h \in Hook :
       /\ h \notin UNION {added[k] : k \in List}
       /\ \A u \in Thread : hook_job[u].op \in {"new", "stored"} => hook_job[u].hook # h
       /\ hook_job' = [hook_job EXCEPT ![t] = [op |-> "new", list |-> l, hook |-> h]]
  /\ UNCHANGED <<link, next_ptr, list_lock, added, exit_hooked>>

\* Mutant: the list is changed without the lock.
MayStoreUnlocked(t) == TRUE

MayStore(t) == list_lock[hook_job[t].list] = NoThread

\* ClosureList::Add, with the lock: the link, then the pointer to the end.
Store(t) ==
  /\ Does(t, "new") /\ MayStore(t)
  /\ LET l == hook_job[t].list
     IN  /\ list_lock' = [list_lock EXCEPT ![l] = t]
         /\ link' = [link EXCEPT ![l][next_ptr[l]] = hook_job[t].hook]
  /\ hook_job' = [hook_job EXCEPT ![t].op = "stored"]
  /\ UNCHANGED <<next_ptr, added, exit_hooked>>

Advance(t) ==
  /\ Does(t, "stored")
  /\ LET l == hook_job[t].list
     IN  /\ next_ptr' = [next_ptr EXCEPT ![l] = hook_job[t].hook]
         /\ list_lock' = [list_lock EXCEPT ![l] = NoThread]
         /\ added' = [added EXCEPT ![l] = @ \cup {hook_job[t].hook}]
  /\ hook_job' = [hook_job EXCEPT ![t] = Idle]
  /\ UNCHANGED <<link, exit_hooked>>

\* InstrumentSyscall.
InstrumentSyscall(t) ==
  /\ Does(t, "idle")
  /\ \E b \in Block : /\ exit_hooked[b] = "untranslated"
                      /\ exit_hooked' = [exit_hooked EXCEPT ![b] = IF link["exit"][First] # NoHook
                                                                   THEN "hooked" ELSE "unhooked"]
  /\ UNCHANGED <<link, next_ptr, list_lock, added, hook_job>>

\* The start of ApplyAll: what has been added by now is due.
Walk(l, b, number, first) ==
  [op |-> "walk", list |-> l, block |-> b, number |-> number, at |-> first, called |-> << >>,
   due |-> added[l]]

\* HookSystemCallEntry.
HookSystemCallEntry(t) ==
  /\ Does(t, "idle")
  /\ \E b \in Block, number \in {"munmap", "exit", "other"} :
       /\ exit_hooked[b] # "untranslated"
       /\ hook_job' = [hook_job EXCEPT ![t] = Walk("entry", b, number, link["entry"][First])]
  /\ UNCHANGED <<link, next_ptr, list_lock, added, exit_hooked>>

\* ApplyAll.
CallHook(t) ==
  /\ Does(t, "walk") /\ hook_job[t].at # NoHook
  /\ hook_job' = [hook_job EXCEPT ![t].called = Append(@, hook_job[t].at),
                                  ![t].at = link[hook_job[t].list][hook_job[t].at]]
  /\ UNCHANGED <<link, next_ptr, list_lock, added, exit_hooked>>

\* The rest of HookSystemCallEntry, and the system call: munmap becomes mprotect, and
\* who exits does not come back.  Then HookSystemCallExit, in code that calls it.
SystemCall(t) ==
  /\ Does(t, "walk") /\ hook_job[t].at = NoHook /\ hook_job[t].list = "entry"
  /\ LET b == hook_job[t].block
         number == IF hook_job[t].number = "munmap" THEN "mprotect" ELSE hook_job[t].number
         first == IF exit_hooked[b] = "hooked" THEN link["exit"][First] ELSE NoHook
     IN  hook_job' = [hook_job EXCEPT ![t] = IF number = "exit" THEN [op |-> "gone"]
                                             ELSE Walk("exit", b, number, first)]
  /\ UNCHANGED <<link, next_ptr, list_lock, added, exit_hooked>>

Return(t) ==
  /\ Does(t, "walk") /\ hook_job[t].at = NoHook /\ hook_job[t].list = "exit"
  /\ hook_job' = [hook_job EXCEPT ![t] = Idle]
  /\ UNCHANGED <<link, next_ptr, list_lock, added, exit_hooked>>

Next == \E t \in Thread : \/ Add(t) \/ Store(t) \/ Advance(t) \/ InstrumentSyscall(t)
                          \/ HookSystemCallEntry(t) \/ CallHook(t) \/ SystemCall(t) \/ Return(t)

Spec == Init /\ [][Next]_hookVars
-----------------------------------------------------------------------------
Walked(t) == Does(t, "walk") /\ hook_job[t].at = NoHook

CalledAll(t) ==
  /\ hook_job[t].due \subseteq ToSet(hook_job[t].called)
  /\ \A i, j \in DOMAIN hook_job[t].called :
       i # j => hook_job[t].called[i] # hook_job[t].called[j]

\* Around a system call every hook is called once that had been added when the walk
\* began, whoever adds others meanwhile; behind it, if the code calls hooks there at
\* all (closure.h, user/client.cc).
HooksCalled ==
  \A t \in Thread :
    Walked(t) /\ (hook_job[t].list = "exit" => exit_hooked[hook_job[t].block] = "hooked") => CalledAll(t)

=============================================================================
