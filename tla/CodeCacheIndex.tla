--------------------------- MODULE CodeCacheIndex ---------------------------
(***************************************************************************)
(* The code cache index (granary/index.{h,cc}) as Translate (translate.cc) *)
(* uses it: look a block up, compile it if it is not there, look again,    *)
(* and insert or log its meta-data.  Readers take no lock; writers lock    *)
(* the second-level index, and create second-level arrays on demand.  A    *)
(* bucket's chain of `next' pointers is a sequence, the head first.        *)
(***************************************************************************)
EXTENDS Naturals, Sequences, FiniteSets

CONSTANTS
  Thread,           \* The threads that translate.
  Meta,             \* BlockMetaData objects.
  StartPC,          \* AppMetaData::start_pc of each of them.
  CanUnifyWith,     \* [Meta -> [Meta -> Status]].
  First, Second,    \* The indices of the two levels.
  IndexOf,          \* The two indices of every start_pc.
  Array,            \* MetaDataArray objects.
  Null              \* nullptr.

Status == {"accept", "adapt", "reject"}

\* What the constants are.
IndexAssumption ==
  /\ CanUnifyWith \in [Meta -> [Meta -> Status]]
  /\ IndexOf \in [{StartPC[m] : m \in Meta} -> First \X Second]
  /\ Null \notin Array \cup Meta \cup Thread
  /\ Thread # {}

FirstOf(m) == IndexOf[StartPC[m]][1]
SecondOf(m) == IndexOf[StartPC[m]][2]

VARIABLES
  gIndex,           \* The first level: an array or Null.
  metas,            \* MetaDataArray::metas: a list for each bucket.
  arrays,           \* The arrays that have been allocated.
  gSecondLevelLocks,
  gUnindexedMeta,   \* The log, by first-level index.
  encoded,          \* Meta-data whose CacheMetaData::start_pc is set.
  used,             \* Meta-data that has been allocated so far.
  deleted,          \* Meta-data that has been deleted.
  pc, meta,         \* Of each thread: where it is, the entry block's meta-data,
  blocks,           \* the meta-data of its trace that still has to be logged,
  array,            \* the array it has read,
  response,         \* and what the last lookup returned.
  indexed           \* History: what AddMetaDataToIndex has been done for.

threadVars == <<pc, meta, blocks, array, response>>
indexVars == <<gIndex, metas, arrays, gSecondLevelLocks, gUnindexedMeta, indexed>>
vars == <<threadVars, indexVars, encoded, used, deleted>>

NoResponse == [status |-> "reject", meta |-> Null]

Init == /\ gIndex = [f \in First |-> Null]
        /\ metas = [a \in Array |-> [s \in Second |-> << >>]]
        /\ arrays = {}
        /\ gSecondLevelLocks = [s \in Second |-> Null]
        /\ gUnindexedMeta = [f \in First |-> << >>]
        /\ encoded = {} /\ used = {} /\ deleted = {} /\ indexed = {}
        /\ pc = [t \in Thread |-> "idle"]
        /\ meta = [t \in Thread |-> Null]
        /\ blocks = [t \in Thread |-> {}]
        /\ array = [t \in Thread |-> Null]
        /\ response = [t \in Thread |-> NoResponse]
-----------------------------------------------------------------------------
\* The lists.

\* BlockMetaData::Equals on what is indexable, the start_pc.
Equals(m, n) == StartPC[m] = StartPC[n]

\* The first of the entries ls[i], i in I.
FirstIn(ls, I) == ls[CHOOSE i \in I : \A j \in I : i <= j]

\* MatchMetaData.  `search' is unified with the head of the list, ls, and not
\* with the entry that Equals has accepted, so all entries get one status.
MatchMetaData(ls, search) ==
  LET same == {i \in DOMAIN ls : Equals(search, ls[i])} IN
  IF same = {} \/ CanUnifyWith[search][Head(ls)] = "reject" THEN NoResponse
  ELSE [status |-> CanUnifyWith[search][Head(ls)], meta |-> FirstIn(ls, same)]

\* ForEachMetaData: what can be reached from gIndex, and from the log.
Reachable ==
  UNION {UNION {{metas[gIndex[f]][s][i] : i \in DOMAIN metas[gIndex[f]][s]} :
                  s \in Second} : f \in {g \in First : gIndex[g] # Null}}
Logged == UNION {{gUnindexedMeta[f][i] : i \in DOMAIN gUnindexedMeta[f]} : f \in First}
-----------------------------------------------------------------------------
\* Translate: a direct edge (or an entry point) starts with a lookup, an
\* indirect one decodes into a compensation block with the meta-data m.
Translate(t, m) ==
  /\ pc[t] = "idle"
  /\ m \notin used
  /\ used' = used \cup {m}
  /\ meta' = [meta EXCEPT ![t] = m]
  /\ response' = [response EXCEPT ![t] = NoResponse]
  /\ \E next \in {"request", "compile"} : pc' = [pc EXCEPT ![t] = next]
  /\ UNCHANGED <<blocks, array, indexVars, encoded, deleted>>

\* FindMetaDataInIndex reads the first level; no lock is held.
ReadIndex(t) ==
  /\ pc[t] \in {"request", "index"}
  /\ array' = [array EXCEPT ![t] = gIndex[FirstOf(meta[t])]]
  /\ pc' = [pc EXCEPT ![t] = IF pc[t] = "request" THEN "match_request"
                                                  ELSE "match_index"]
  /\ UNCHANGED <<meta, blocks, response, indexVars, encoded, used, deleted>>

\* The rest of FindMetaDataInIndex: read the head of the bucket and walk.
Found(t) == IF array[t] = Null THEN NoResponse
            ELSE MatchMetaData(metas[array[t]][SecondOf(meta[t])], meta[t])

\* RequestIndexedBlock and what Translate does with its answer.  On accept the
\* entry is a CachedBlock, the search's own meta-data is deleted, and Translate
\* returns the start_pc that was found; otherwise there is code to compile.
RequestIndexedBlock(t) ==
  /\ pc[t] = "match_request"
  /\ response' = [response EXCEPT ![t] = Found(t)]
  /\ IF Found(t).status = "accept"
     THEN /\ deleted' = deleted \cup {meta[t]}
          /\ meta' = [meta EXCEPT ![t] = Null]
          /\ pc' = [pc EXCEPT ![t] = "idle"]
     ELSE /\ pc' = [pc EXCEPT ![t] = "compile"]
          /\ UNCHANGED <<deleted, meta>>
  /\ UNCHANGED <<blocks, array, indexVars, encoded, used>>

\* Mutant: start_pc is assigned after the meta-data has been indexed.
CompileLate(t, others) ==
  /\ pc[t] = "compile"
  /\ others \cap used = {}
  /\ used' = used \cup others
  /\ blocks' = [blocks EXCEPT ![t] = others]
  /\ encoded' = encoded \cup others
  /\ pc' = [pc EXCEPT ![t] = "index"]
  /\ UNCHANGED <<meta, array, response, indexVars, deleted>>

\* Instrument and Compile: `others' are the other blocks decoded into the
\* trace.  AssignBlockCacheLocations sets every start_pc after the encoding.
Compile(t, others) ==
  /\ pc[t] = "compile"
  /\ others \cap used = {}
  /\ used' = used \cup others
  /\ blocks' = [blocks EXCEPT ![t] = others]
  /\ encoded' = encoded \cup others \cup {meta[t]}
  /\ pc' = [pc EXCEPT ![t] = "index"]
  /\ UNCHANGED <<meta, array, response, indexVars, deleted>>

\* Mutant: meta-data that is indexed is logged too.
IndexBoth(t) ==
  /\ pc[t] = "match_index"
  /\ response' = [response EXCEPT ![t] = Found(t)]
  /\ pc' = [pc EXCEPT ![t] = IF Found(t).status = "accept" THEN "log" ELSE "lock"]
  /\ blocks' = [blocks EXCEPT ![t] = @ \cup {meta[t]}]
  /\ UNCHANGED <<meta, array, indexVars, encoded, used, deleted>>

\* Index: the second lookup.  Unless it accepts, the entry's meta-data goes to
\* the index; if it does, it is logged with the rest.
Index(t) ==
  /\ pc[t] = "match_index"
  /\ response' = [response EXCEPT ![t] = Found(t)]
  /\ IF Found(t).status # "accept"
     THEN /\ pc' = [pc EXCEPT ![t] = "lock"]
          /\ UNCHANGED blocks
     ELSE /\ pc' = [pc EXCEPT ![t] = "log"]
          /\ blocks' = [blocks EXCEPT ![t] = @ \cup {meta[t]}]
  /\ UNCHANGED <<meta, array, indexVars, encoded, used, deleted>>
-----------------------------------------------------------------------------
\* AddMetaDataToIndex.

\* Lock the bucket's second-level index, and look for the array.
LockSecondLevel(t) ==
  /\ pc[t] = "lock"
  /\ gSecondLevelLocks[SecondOf(meta[t])] = Null
  /\ gSecondLevelLocks' = [gSecondLevelLocks EXCEPT ![SecondOf(meta[t])] = t]
  /\ pc' = [pc EXCEPT ![t] = IF gIndex[FirstOf(meta[t])] = Null THEN "new" ELSE "bind"]
  /\ UNCHANGED <<meta, blocks, array, response, gIndex, metas, arrays,
                 gUnindexedMeta, indexed, encoded, used, deleted>>

\* array = new MetaDataArray.
NewMetaDataArray(t) ==
  /\ pc[t] = "new"
  /\ \E a \in Array \ arrays :
       /\ arrays' = arrays \cup {a}
       /\ gIndex' = [gIndex EXCEPT ![FirstOf(meta[t])] = a]
  /\ pc' = [pc EXCEPT ![t] = "bind"]
  /\ UNCHANGED <<meta, blocks, array, response, metas, gSecondLevelLocks,
                 gUnindexedMeta, indexed, encoded, used, deleted>>

\* `array' refers to the volatile gIndex[first], which is read once more.
Bind(t) ==
  /\ pc[t] = "bind"
  /\ array' = [array EXCEPT ![t] = gIndex[FirstOf(meta[t])]]
  /\ pc' = [pc EXCEPT ![t] = "link"]
  /\ UNCHANGED <<meta, blocks, response, indexVars, encoded, used, deleted>>

\* Prepend to the bucket's list and unlock.
Link(t) ==
  /\ pc[t] = "link"
  /\ metas' = [metas EXCEPT ![array[t]][SecondOf(meta[t])] = <<meta[t]>> \o @]
  /\ indexed' = indexed \cup {meta[t]}
  /\ gSecondLevelLocks' = [gSecondLevelLocks EXCEPT ![SecondOf(meta[t])] = Null]
  /\ pc' = [pc EXCEPT ![t] = "log"]
  /\ UNCHANGED <<meta, blocks, array, response, gIndex, arrays, gUnindexedMeta,
                 encoded, used, deleted>>

\* AddMetaDataToLog, under gUnindexedMetaLock[first].
AddMetaDataToLog(t, b) ==
  /\ pc[t] = "log"
  /\ b \in blocks[t]
  /\ gUnindexedMeta' = [gUnindexedMeta EXCEPT ![FirstOf(b)] = <<b>> \o @]
  /\ blocks' = [blocks EXCEPT ![t] = @ \ {b}]
  /\ UNCHANGED <<pc, meta, array, response, gIndex, metas, arrays,
                 gSecondLevelLocks, indexed, encoded, used, deleted>>

\* Translate returns.
Return(t) ==
  /\ pc[t] = "log"
  /\ blocks[t] = {}
  /\ pc' = [pc EXCEPT ![t] = "idle"]
  /\ meta' = [meta EXCEPT ![t] = Null]
  /\ UNCHANGED <<blocks, array, response, indexVars, encoded, used, deleted>>

\* ExitIndex, once the exit lock has kept all translators out.
ExitIndex ==
  /\ \A t \in Thread : pc[t] = "idle"
  /\ deleted' = deleted \cup Reachable \cup Logged
  /\ gIndex' = [f \in First |-> Null]
  /\ gUnindexedMeta' = [f \in First |-> << >>]
  /\ pc' = [t \in Thread |-> "exited"]
  /\ UNCHANGED <<meta, blocks, array, response, metas, arrays,
                 gSecondLevelLocks, indexed, encoded, used>>

\* At most one block besides the entry is decoded per trace: a bound of the model.
AddMetaDataToIndex(t) == LockSecondLevel(t) \/ NewMetaDataArray(t) \/ Bind(t) \/ Link(t)

Next == \/ \E t \in Thread :
             \/ \E m \in Meta : Translate(t, m)
             \/ ReadIndex(t)
             \/ RequestIndexedBlock(t)
             \/ \E others \in {{}} \cup {{m} : m \in Meta} : Compile(t, others)
             \/ Index(t)
             \/ AddMetaDataToIndex(t)
             \/ \E b \in Meta : AddMetaDataToLog(t, b)
             \/ Return(t)
        \/ ExitIndex

Spec == Init /\ [][Next]_vars
-----------------------------------------------------------------------------
(* Properties.                                                             *)

PC == {"idle", "request", "match_request", "compile", "index", "match_index",
       "lock", "new", "bind", "link", "log", "exited"}

TypeOK == /\ gIndex \in [First -> Array \cup {Null}]
          /\ metas \in [Array -> [Second -> Seq(Meta)]]
          /\ arrays \subseteq Array
          /\ gSecondLevelLocks \in [Second -> Thread \cup {Null}]
          /\ gUnindexedMeta \in [First -> Seq(Meta)]
          /\ encoded \subseteq Meta /\ used \subseteq Meta
          /\ deleted \subseteq Meta /\ indexed \subseteq Meta
          /\ pc \in [Thread -> PC]
          /\ meta \in [Thread -> Meta \cup {Null}]
          /\ blocks \in [Thread -> SUBSET Meta]
          /\ array \in [Thread -> Array \cup {Null}]
          /\ response \in [Thread -> [status : Status, meta : Meta \cup {Null}]]

\* The list of a bucket, and the meta-data that is still a thread's own.
Bucket(f, s) == IF gIndex[f] = Null THEN << >> ELSE metas[gIndex[f]][s]
Own(t) == blocks[t] \cup {m \in Meta : meta[t] = m /\ pc[t] # "log"}
InHand == UNION {Own(t) : t \in Thread}

\* Every meta-data object has one owner: the index, the log, or the thread that
\* translates it, until it is deleted.  So ExitIndex deletes nothing twice and
\* leaks nothing, and no list is ever circular.
OwnedOnce ==
  /\ used \subseteq Reachable \cup Logged \cup InHand \cup deleted
  /\ Reachable \cap Logged = {}
  /\ (Reachable \cup Logged) \cap InHand = {}
  /\ (Reachable \cup Logged \cup InHand) \cap deleted = {}
  /\ \A f, g \in First, r, s \in Second :
       \A i \in DOMAIN Bucket(f, r), j \in DOMAIN Bucket(g, s) :
         Bucket(f, r)[i] = Bucket(g, s)[j] => f = g /\ r = s /\ i = j
  /\ \A f, g \in First :
       \A i \in DOMAIN gUnindexedMeta[f], j \in DOMAIN gUnindexedMeta[g] :
         gUnindexedMeta[f][i] = gUnindexedMeta[g][j] => f = g /\ i = j
  /\ \A t, u \in Thread : Own(t) \cap Own(u) # {} => t = u

\* No two threads create the array of one first-level index: the lock they hold is
\* that of the second-level index.
NoArrayRace ==
  \A t, u \in Thread : /\ pc[t] = "new" /\ pc[u] = "new"
                       /\ FirstOf(meta[t]) = FirstOf(meta[u])
                       => t = u

\* A lookup returns meta-data of the block it asked for, and that block is in
\* the code cache: Translate returns its start_pc, or jumps there from
\* compensation code, without compiling anything itself.
FoundIsEncoded ==
  \A t \in Thread : response[t].status # "reject" =>
    /\ response[t].meta \in encoded
    /\ meta[t] # Null => Equals(meta[t], response[t].meta)

\* What AddMetaDataToIndex has been done for can be found, until ExitIndex.
NothingLost ==
  (\A t \in Thread : pc[t] # "exited") => indexed \subseteq Reachable
=============================================================================
