---------------------------- MODULE Collections ----------------------------
(***************************************************************************)
(* What the containers of granary/base promise: lists are sequences of     *)
(* elements that are in one list at most, sets are sets, a map binds a key *)
(* to one value, and unions of disjoint sets merge classes and nothing     *)
(* else.                                                                   *)
(***************************************************************************)
EXTENDS Naturals, SequencesExt

CONSTANTS Elem, List, SetName, Value, Key, Node

VARIABLES
  lists,            \* The elements of each list, in order.
  sets,             \* The members of each set.
  map,              \* The bindings: a set of pairs.
  classes           \* The partition of the nodes.

Init ==
  /\ lists = [l \in List |-> << >>]
  /\ sets = [s \in SetName |-> {}]
  /\ map = {}
  /\ classes = {{n} : n \in Node}
-----------------------------------------------------------------------------
Insert(l, e, i) ==
  /\ \A m \in List : e \notin ToSet(lists[m])
  /\ lists' = [lists EXCEPT ![l] = InsertAt(@, i, e)]

Delete(l, i) == lists' = [lists EXCEPT ![l] = RemoveAt(@, i)]

Extend(l, m) == lists' = [lists EXCEPT ![l] = @ \o lists[m], ![m] = << >>]

ListsNext ==
  /\ lists' # lists
  /\ \/ \E l \in List, e \in Elem : \E i \in 1..(Len(lists[l]) + 1) : Insert(l, e, i)
     \/ \E l \in List : \E i \in DOMAIN lists[l] : Delete(l, i)
     \/ \E l \in List : \E m \in List \ {l} : Extend(l, m)

\* One set gains a value, loses one, gains the members of another, or becomes a copy
\* of another.
SetsNext ==
  \E old \in {sets}, new \in {sets'}, s \in SetName :
    /\ new = [old EXCEPT ![s] = new[s]]
    /\ \/ \E v \in Value : new[s] \in {old[s] \cup {v}, old[s] \ {v}}
       \/ \E t \in SetName : new[s] \in {old[s] \cup old[t], old[t]}

MapNext ==
  \E old \in {map}, new \in {map'}, k \in Key, v \in Value :
    new = {b \in old : b[1] # k} \cup {<<k, v>>}

ClassesNext ==
  /\ classes' # classes
  /\ \E N, O \in classes : classes' = (classes \ {N, O}) \cup {N \cup O}

Spec ==
  /\ Init
  /\ [][ListsNext]_lists /\ [][SetsNext]_sets /\ [][MapNext]_map /\ [][ClassesNext]_classes
=============================================================================
