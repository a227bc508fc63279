---------------------------- MODULE Containers -----------------------------
(***************************************************************************)
(* The containers of granary/base: linked lists (list.h), vectors, sets    *)
(* and maps that grow in chunks (tiny_*.h), and union-find                 *)
(* (disjoint_set.h).  They share nothing; each has its own variables, Init *)
(* and Next.                                                               *)
(***************************************************************************)
EXTENDS Naturals, SequencesExt
-----------------------------------------------------------------------------
(* ListOfListHead, whose elements carry their own links (ListHead).        *)
(* Instructions, fragments and blocks are kept in such lists, and move     *)
(* between them.  The callers' part of the contract is that an element is  *)
(* inserted only when it is in no list.  IsLinked, which the code asserts, *)
(* is weaker: it does not notice the only element of a list.               *)

CONSTANTS
  Elem, List,
  Null              \* The null pointer.

VARIABLES
  next, prev,       \* ListHead::next and prev of every element.
  first, last       \* ListOfListHead::first and last of every list.

listVars == <<next, prev, first, last>>

ListsInit ==
  /\ next = [e \in Elem |-> Null] /\ prev = [e \in Elem |-> Null]
  /\ first = [l \in List |-> Null] /\ last = [l \in List |-> Null]

\* The elements of a list as an iterator meets them that starts at e and follows
\* `link` (ListHeadIterator, ReverseListHeadIterator).
Walk(link, e) ==
  LET at[i \in 0..Cardinality(Elem)] ==
        IF i = 0 THEN e ELSE LET x == at[i - 1] IN IF x = Null THEN Null ELSE link[x]
  IN  SelectSeq([i \in 1..(Cardinality(Elem) + 1) |-> at[i - 1]], LAMBDA x : x # Null)

Forward(l) == Walk(next, first[l])
Backward(l) == Walk(prev, last[l])

\* ListHead::Last and First: the end of the chain that an element is in.
LastOf(e) == Last(Walk(next, e))
FirstOf(e) == Last(Walk(prev, e))

IsLinked(e) == prev[e] # Null \/ next[e] # Null

Free(e) == \A l \in List : e \notin ToSet(Forward(l))

\* ListHead::SetNext(new): new goes behind e.
SetNext(e, new) ==
  /\ next' = [next EXCEPT ![new] = next[e], ![e] = new]
  /\ prev' = [x \in Elem |-> IF x = new THEN e ELSE IF x = next[e] THEN new ELSE prev[x]]

\* ListHead::SetPrevious(new): new goes before e.
SetPrevious(e, new) ==
  /\ next' = [x \in Elem |-> IF x = new THEN e ELSE IF x = prev[e] THEN new ELSE next[x]]
  /\ prev' = [prev EXCEPT ![new] = prev[e], ![e] = new]

\* ListHead::Unlink.
Unlink(e) ==
  /\ next' = [x \in Elem |-> IF x = e THEN Null ELSE IF x = prev[e] THEN next[e] ELSE next[x]]
  /\ prev' = [x \in Elem |-> IF x = e THEN Null ELSE IF x = next[e] THEN prev[e] ELSE prev[x]]

PrependElm(l, e) ==
  /\ IF first[l] # Null THEN SetPrevious(first[l], e) ELSE UNCHANGED <<next, prev>>
  /\ last' = IF last[l] = Null THEN [last EXCEPT ![l] = e] ELSE last
  /\ first' = [first EXCEPT ![l] = e]

AppendElm(l, e) ==
  /\ IF last[l] # Null THEN SetNext(last[l], e) ELSE UNCHANGED <<next, prev>>
  /\ first' = IF first[l] = Null THEN [first EXCEPT ![l] = e] ELSE first
  /\ last' = [last EXCEPT ![l] = e]

InsertBefore(l, before, e) ==
  IF before = first[l] THEN PrependElm(l, e)
  ELSE SetPrevious(before, e) /\ UNCHANGED <<first, last>>

InsertAfter(l, after, e) ==
  IF after = last[l] THEN AppendElm(l, e)
  ELSE SetNext(after, e) /\ UNCHANGED <<first, last>>

RemoveElm(l, e) ==
  /\ Unlink(e)
  /\ last' = IF last[l] = e THEN [last EXCEPT ![l] = prev[e]] ELSE last
  /\ first' = IF first[l] = e THEN [first EXCEPT ![l] = next[e]] ELSE first

ExtendShared(l, that) ==
  IF first[l] = Null
  THEN /\ first' = [first EXCEPT ![l] = first[that]]
       /\ last' = [last EXCEPT ![l] = last[that]]
       /\ UNCHANGED <<next, prev>>
  ELSE UNCHANGED listVars

\* Extend(that): that's elements move to the end of l.
Extend(l, that) ==
  /\ CASE first[l] = Null ->
            /\ first' = [first EXCEPT ![l] = first[that], ![that] = Null]
            /\ last' = [last EXCEPT ![l] = last[that], ![that] = Null]
            /\ UNCHANGED <<next, prev>>
       [] first[l] # Null /\ first[that] # Null ->
            /\ next' = [next EXCEPT ![last[l]] = first[that]]
            /\ prev' = [prev EXCEPT ![first[that]] = last[l]]
            /\ last' = [last EXCEPT ![l] = last[that], ![that] = Null]
            /\ first' = [first EXCEPT ![that] = Null]
       [] OTHER -> UNCHANGED listVars

\* What callers do: they insert a free element beside one of the list, or at an
\* end of it, remove an element from the list it is in, and join two lists.
ListsNext ==
  \/ \E l \in List, e \in Elem :
       /\ Free(e)
       /\ \/ PrependElm(l, e) \/ AppendElm(l, e)
          \/ \E x \in ToSet(Forward(l)) : InsertBefore(l, x, e) \/ InsertAfter(l, x, e)
  \/ \E l \in List : \E e \in ToSet(Forward(l)) : RemoveElm(l, e)
  \/ \E l, that \in List : l # that /\ Extend(l, that)
-----------------------------------------------------------------------------
\* A list reads the same from both ends, every element knows both ends of the
\* list it is in, and what is in no list is not linked: the assertions of
\* First, Last, SetNext and SetPrevious never fail, whatever has been inserted,
\* removed and joined before (list.h:98-170).
BothWays ==
  /\ \A l \in List :
       /\ Backward(l) = Reverse(Forward(l))
       /\ \A e \in ToSet(Forward(l)) : FirstOf(e) = first[l] /\ LastOf(e) = last[l]
  /\ \A e \in Elem : Free(e) => ~IsLinked(e)

-----------------------------------------------------------------------------
(* TinyVector, TinySet and TinyMap.  A vector is a chain of chunks of      *)
(* kMinSize elements; one word of a chunk counts its elements and, once    *)
(* the chunk is full and another one follows, points to that one instead:  *)
(* pointers are told from counts by being larger than kMinSize.  Sets and  *)
(* maps are vectors whose default elements are empty places.               *)

CONSTANTS
  SetName,
  Value, Key,       \* Without 0, the default value of both.
  kMinSize,
  MaxElems          \* Longest vector: a bound of the model.

VARIABLES
  set,              \* Each TinySet: [elems, size].
  map               \* A TinyMap: [elems, size].

tinyVars == <<set, map>>
-----------------------------------------------------------------------------
\* A vector is the sequence of its chunks; `word` is the union of num_elems and
\* next.  Any pointer is larger than a count.
Pointer == kMinSize + 1
Chunk(default) == [elems |-> [i \in 1..kMinSize |-> default], word |-> 0]
Empty(default) == <<Chunk(default)>>

\* Append: the element goes into the first chunk with room, or into a new one
\* behind the first chunk that is full and has no successor.
AppendTo(vec, x, default) ==
  LET n == Min({i \in DOMAIN vec : vec[i].word <= kMinSize})
      Put(c) == [elems |-> [c.elems EXCEPT ![c.word + 1] = x], word |-> c.word + 1]
  IN  IF vec[n].word < kMinSize THEN [vec EXCEPT ![n] = Put(@)]
      ELSE Append([vec EXCEPT ![n].word = Pointer], Put(Chunk(default)))

\* The iterator: begin, ++ and end.  Indices count from 0, as in the code.
End == <<0, 0>>
Begin(vec) == IF vec[1].word # 0 THEN <<1, 0>> ELSE End
StepOf(vec, pos) ==
  LET c == pos[1]  i == pos[2] + 1
  IN  IF i < kMinSize THEN IF vec[c].word <= i THEN End ELSE <<c, i>>
      ELSE IF vec[c].word = kMinSize THEN End
      ELSE IF vec[c + 1].word = 0 THEN End ELSE <<c + 1, 0>>

\* The positions an iterator meets, in order, and the elements at them: the steps
\* lead through the chunks until one of them is to the end.
Place(k) == <<((k - 1) \div kMinSize) + 1, (k - 1) % kMinSize>>
Met(vec, k) == Begin(vec) = Place(1) /\ \A j \in 1..(k - 1) : StepOf(vec, Place(j)) = Place(j + 1)
Indices(vec) == {k \in 1..(Len(vec) * kMinSize) : Met(vec, k)}
At(vec, pos) == vec[pos[1]].elems[pos[2] + 1]
Elements(vec) == [k \in Indices(vec) |-> At(vec, Place(k))]

\* ElementAt(index) and Size.
ElementAt(vec, index) == vec[(index \div kMinSize) + 1].elems[(index % kMinSize) + 1]
SizeOf(vec) ==
  LET n == Min({i \in DOMAIN vec : vec[i].word <= kMinSize})
  IN  (n - 1) * kMinSize + vec[n].word

\* Replace the first element that is one of S, if there is one.
ReplaceFirst(vec, S, x) ==
  LET hits == {k \in Indices(vec) : At(vec, Place(k)) \in S}
      pos == Place(Min(hits))
  IN  IF hits = {} THEN vec ELSE [vec EXCEPT ![pos[1]].elems[pos[2] + 1] = x]

\* The copy constructor and operator=: the elements are appended one by one,
\* empty places included.
CopyOf(vec, default) ==
  FoldLeft(LAMBDA v, x : AppendTo(v, x, default), Empty(default), Elements(vec))
-----------------------------------------------------------------------------
\* TinySet::Contains, Add and Remove.
HasValue(s, v) == v \in ToSet(Elements(s.elems))

Added(s, v) ==
  IF HasValue(s, v) THEN s ELSE [elems |-> AppendTo(s.elems, v, 0), size |-> s.size + 1]

Removed(s, v) ==
  IF HasValue(s, v)
  THEN [elems |-> ReplaceFirst(s.elems, {v}, 0), size |-> s.size - 1]
  ELSE s

\* The set's own iterator skips empty places (Advance).
Members(s) == SelectSeq(Elements(s.elems), LAMBDA x : x # 0)

Add(n, v) == set' = [set EXCEPT ![n] = Added(@, v)] /\ UNCHANGED map

RemoveValue(n, v) == set' = [set EXCEPT ![n] = Removed(@, v)] /\ UNCHANGED map

Union(n, that) ==
  /\ set' = [set EXCEPT ![n] = IF n = that THEN @ ELSE FoldLeft(Added, @, Members(set[that]))]
  /\ UNCHANGED map

Assign(n, that) ==
  /\ set' = [set EXCEPT ![n] = IF n = that THEN @
                               ELSE [elems |-> CopyOf(set[that].elems, 0), size |-> set[that].size]]
  /\ UNCHANGED map
-----------------------------------------------------------------------------
\* TinyMap: pairs whose key is not the default one.  Nothing calls Remove, so a map
\* has no unused entries for operator[] to take over.
Pair(k, v) == [key |-> k, value |-> v]
NoPair == Pair(0, 0)
Entries(m) == SelectSeq(Elements(m.elems), LAMBDA p : p.key # 0)
Exists(m, k) == \E i \in DOMAIN Elements(m.elems) : Elements(m.elems)[i].key = k

\* map[k] = v.
Bind(k, v) ==
  /\ map' = IF Exists(map, k)
            THEN [map EXCEPT !.elems = ReplaceFirst(@, [key : {k}, value : Value \cup {0}], Pair(k, v))]
            ELSE [elems |-> AppendTo(map.elems, Pair(k, v), NoPair), size |-> map.size + 1]
  /\ UNCHANGED set

TinyInit ==
  /\ set = [n \in SetName |-> [elems |-> Empty(0), size |-> 0]]
  /\ map = [elems |-> Empty(NoPair), size |-> 0]

Bounded == \A n \in SetName : SizeOf(set[n].elems) <= MaxElems

SetsNext ==
  /\ \/ \E n \in SetName, v \in Value : Add(n, v) \/ RemoveValue(n, v)
     \/ \E n, that \in SetName : Union(n, that) \/ Assign(n, that)
  /\ Bounded'

MapNext == \E k \in Key, v \in Value : Bind(k, v)
-----------------------------------------------------------------------------
\* Size counts what an iterator meets, no value or key occurs twice, and a vector
\* gives the same element by its index as by iteration, also across chunks and
\* with empty places in between (tiny_vector.h:38-62, 150-163, 200-220).
SizesAgree ==
  /\ \A n \in SetName :
       LET s == set[n]
           members == Members(s)
           elements == Elements(s.elems)
       IN  /\ s.size = Len(members) /\ IsInjective(members)
           /\ SizeOf(s.elems) = Len(elements)
           /\ \A i \in DOMAIN elements : elements[i] = ElementAt(s.elems, i - 1)
  /\ map.size = Len(Entries(map))
  /\ \A i, j \in DOMAIN Entries(map) : Entries(map)[i].key = Entries(map)[j].key => i = j

-----------------------------------------------------------------------------
(* DisjointSet, with which the assembler groups fragments into partitions  *)
(* and flag zones.  A class has a value, which is that of its root.  Which *)
(* root survives a union depends on the values and, when both have one, on *)
(* the addresses.                                                          *)

CONSTANTS
  Node              \* The sets, as their addresses.

VARIABLES
  parent,
  value,            \* DisjointSet::value: TRUE if it is not the default.
  valued            \* The nodes whose class has been given a value: for ValuesKept.

disjointVars == <<parent, value, valued>>

DisjointInit ==
  /\ parent = [n \in Node |-> n]
  /\ value = [n \in Node |-> FALSE]
  /\ valued = {}

\* Find: the root, and the parents after it has been passed: every node on the way
\* then points to the root.
Ancestors(par, n) ==
  LET up[i \in 0..Cardinality(Node)] == IF i = 0 THEN n ELSE par[up[i - 1]]
  IN  {up[i] : i \in DOMAIN up}
Root(par, n) == CHOOSE r \in Ancestors(par, n) : par[r] = r
Found(par, n) ==
  LET path == Ancestors(par, n) IN [m \in Node |-> IF m \in path THEN Root(par, n) ELSE par[m]]

Find(n) ==
  /\ parent' = Found(parent, n)
  /\ UNCHANGED <<value, valued>>

\* Union: the root with a default value goes below the other, otherwise the one
\* at the higher address.
UnionOf(n, that) ==
  LET found == Found(Found(parent, n), that)
      r == Root(parent, n)
      s == Root(parent, that)
  IN  /\ parent' = IF r = s THEN found
                   ELSE IF ~value[r] \/ (value[s] /\ r > s) THEN [found EXCEPT ![r] = s]
                   ELSE [found EXCEPT ![s] = r]
      /\ UNCHANGED <<value, valued>>

\* Value() = x, where the class has no value yet, as for partitions and zones.
SetValue(n) ==
  /\ ~value[Root(parent, n)]
  /\ value' = [value EXCEPT ![Root(parent, n)] = TRUE]
  /\ parent' = Found(parent, n)
  /\ valued' = valued \cup {n}

DisjointNext ==
  \/ \E n \in Node : Find(n) \/ SetValue(n)
  \/ \E n, that \in Node : UnionOf(n, that)
-----------------------------------------------------------------------------
Classes ==
  LET root == [n \in Node |-> Root(parent, n)] IN {{m \in Node : root[m] = root[n]} : n \in Node}

\* A class that was given a value keeps one in every later union, whichever root
\* survives (disjoint_set.h:47-63): a partition does not lose its frame, nor a
\* zone its flags.
ValuesKept == \A n \in valued : value[Root(parent, n)]
=============================================================================
