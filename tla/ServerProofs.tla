---------------------------- MODULE ServerProofs ----------------------------
(***************************************************************************)
(* The worker threads of one server leave its table sorted, complete and   *)
(* unlocked, for every number of threads, lists, keys and values and       *)
(* whatever allocations fail.  First what the steps of list.c do to one    *)
(* list, then the threads.                                                 *)
(***************************************************************************)
EXTENDS Server, Least, SequenceTheorems, FiniteSetTheorems

NodeSeqs == Seq(Entries)

ListShapes == [nodes : NodeSeqs, size : Int]

Sorted(nodes) == \A m, n \in DOMAIN nodes : m < n => nodes[m].key < nodes[n].key

Own(nodes, i) == \A n \in DOMAIN nodes : hashValue(nodes[n].key) = i

(* The list with entry x in node p. *)
Replaced(l, p, x) == [nodes |-> [l.nodes EXCEPT ![p] = x], size |-> l.size]

(* The list with the entry of node p destroyed. *)
Destroyed(l, p) == [l EXCEPT !.nodes[p].value = Freed]

(* The entries of a list. *)
Held(l) == ToSet(l.nodes)

(* The two lists agree on every key but k. *)
OnlyAt(l, r, k) == \A x \in Entries : x.key # k => (x \in Held(l) <=> x \in Held(r))

(* What every list is at every moment. *)
InOrder(l, i) == l \in ListShapes /\ Sorted(l.nodes) /\ Own(l.nodes, i)

(* What a list is when nobody is changing it, *)
Whole(l) == l.size = Len(l.nodes) /\ \A n \in DOMAIN l.nodes : l.nodes[n].value # Freed

(* between the steps of list_add, *)
HalfAdded(l, e) == \E p \in DOMAIN l.nodes :
    /\ l.nodes[p].key = e.key
    /\ \A n \in DOMAIN l.nodes : n # p => l.nodes[n].value # Freed
    /\ \/ l.nodes[p].value = Freed /\ l.size = Len(l.nodes)
       \/ l.nodes[p] = e /\ l.size = Len(l.nodes) - 1

(* and between those of list_remove. *)
HalfRemoved(l, k) == \E p \in DOMAIN l.nodes :
    /\ l.nodes[p].key = k
    /\ \A n \in DOMAIN l.nodes : n # p => l.nodes[n].value # Freed
    /\ l.nodes[p].value = Freed /\ l.size = Len(l.nodes)
---------------------------------------------------------------------------
LEMMA InsertAtIs ==
  ASSUME NEW s \in NodeSeqs, NEW i \in 1 .. Len(s) + 1, NEW e \in Entries
  PROVE  /\ InsertAt(s, i, e) \in NodeSeqs
         /\ Len(InsertAt(s, i, e)) = Len(s) + 1
         /\ \A j \in 1 .. Len(s) + 1 :
               InsertAt(s, i, e)[j] = IF j < i THEN s[j] ELSE IF j = i THEN e ELSE s[j - 1]
<1> DEFINE a == SubSeq(s, 1, i - 1)
           b == SubSeq(s, i, Len(s))
<1>1. Len(s) \in Nat /\ i \in Int /\ i - 1 \in Int
  BY LenProperties DEF NodeSeqs
<1>2. a \in NodeSeqs /\ Len(a) = i - 1 /\ \A j \in 1 .. i - 1 : a[j] = s[j]
  <2>1. \A j \in 1 .. i - 1 : s[j] \in Entries
    BY <1>1, ElementOfSeq DEF NodeSeqs
  <2>2. /\ a \in NodeSeqs /\ Len(a) = IF 1 <= i - 1 THEN i - 1 - 1 + 1 ELSE 0
        /\ \A j \in 1 .. i - 1 - 1 + 1 : a[j] = s[1 + j - 1]
    BY <1>1, <2>1, SubSeqProperties DEF NodeSeqs
  <2>3. QED
    BY <1>1, <2>2
<1>3. /\ b \in NodeSeqs /\ Len(b) = Len(s) - i + 1
      /\ \A j \in 1 .. Len(s) - i + 1 : b[j] = s[i + j - 1]
  <2>1. \A j \in i .. Len(s) : s[j] \in Entries
    BY <1>1, ElementOfSeq DEF NodeSeqs
  <2>2. /\ b \in NodeSeqs /\ Len(b) = IF i <= Len(s) THEN Len(s) - i + 1 ELSE 0
        /\ \A j \in 1 .. Len(s) - i + 1 : b[j] = s[i + j - 1]
    BY <1>1, <2>1, SubSeqProperties DEF NodeSeqs
  <2>3. QED
    BY <1>1, <2>2
<1>4. <<e>> \in NodeSeqs /\ Len(<<e>>) = 1 /\ <<e>>[1] = e
  BY DEF NodeSeqs
<1>5. InsertAt(s, i, e) = a \o <<e>> \o b
  BY DEF InsertAt
<1> HIDE DEF a, b
<1>6. /\ a \o <<e>> \in NodeSeqs /\ Len(a \o <<e>>) = i
      /\ \A j \in 1 .. i : (a \o <<e>>)[j] = IF j < i THEN s[j] ELSE e
  <2>1. /\ a \o <<e>> \in NodeSeqs /\ Len(a \o <<e>>) = Len(a) + 1
        /\ \A j \in 1 .. Len(a) + 1 : (a \o <<e>>)[j] = IF j <= Len(a) THEN a[j] ELSE <<e>>[j - Len(a)]
    BY <1>2, <1>4, ConcatProperties DEF NodeSeqs
  <2>2. QED
    BY <1>1, <1>2, <1>4, <2>1
<1> DEFINE c == a \o <<e>>
<1>7. /\ c \o b \in NodeSeqs /\ Len(c \o b) = i + Len(b)
      /\ \A j \in 1 .. i + Len(b) : (c \o b)[j] = IF j <= i THEN c[j] ELSE b[j - i]
  <2>1. c \in NodeSeqs /\ Len(c) = i
    BY <1>6
  <2> HIDE DEF c
  <2>2. /\ c \o b \in NodeSeqs /\ Len(c \o b) = Len(c) + Len(b)
        /\ \A j \in 1 .. Len(c) + Len(b) : (c \o b)[j] = IF j <= Len(c) THEN c[j] ELSE b[j - Len(c)]
    BY <1>3, <2>1, ConcatProperties DEF NodeSeqs
  <2>3. QED
    BY <2>1, <2>2
<1>8. QED
  BY <1>1, <1>3, <1>5, <1>6, <1>7

LEMMA RemoveAtIs ==
  ASSUME NEW s \in NodeSeqs, NEW i \in 1 .. Len(s)
  PROVE  /\ RemoveAt(s, i) \in NodeSeqs
         /\ Len(RemoveAt(s, i)) = Len(s) - 1
         /\ \A j \in 1 .. Len(s) - 1 : RemoveAt(s, i)[j] = IF j < i THEN s[j] ELSE s[j + 1]
<1> DEFINE a == SubSeq(s, 1, i - 1)
           b == SubSeq(s, i + 1, Len(s))
<1>1. Len(s) \in Nat /\ i \in Int /\ i - 1 \in Int /\ i + 1 \in Int
  BY LenProperties DEF NodeSeqs
<1>2. a \in NodeSeqs /\ Len(a) = i - 1 /\ \A j \in 1 .. i - 1 : a[j] = s[j]
  <2>1. \A j \in 1 .. i - 1 : s[j] \in Entries
    BY <1>1, ElementOfSeq DEF NodeSeqs
  <2>2. /\ a \in NodeSeqs /\ Len(a) = IF 1 <= i - 1 THEN i - 1 - 1 + 1 ELSE 0
        /\ \A j \in 1 .. i - 1 - 1 + 1 : a[j] = s[1 + j - 1]
    BY <1>1, <2>1, SubSeqProperties DEF NodeSeqs
  <2>3. QED
    BY <1>1, <2>2
<1>3. /\ b \in NodeSeqs /\ Len(b) = Len(s) - i
      /\ \A j \in 1 .. Len(s) - i : b[j] = s[i + j]
  <2>1. \A j \in i + 1 .. Len(s) : s[j] \in Entries
    BY <1>1, ElementOfSeq DEF NodeSeqs
  <2>2. /\ b \in NodeSeqs /\ Len(b) = IF i + 1 <= Len(s) THEN Len(s) - (i + 1) + 1 ELSE 0
        /\ \A j \in 1 .. Len(s) - (i + 1) + 1 : b[j] = s[(i + 1) + j - 1]
    BY <1>1, <2>1, SubSeqProperties DEF NodeSeqs
  <2>3. QED
    BY <1>1, <2>2
<1>4. RemoveAt(s, i) = a \o b
  BY DEF RemoveAt
<1> HIDE DEF a, b
<1>5. /\ a \o b \in NodeSeqs /\ Len(a \o b) = Len(a) + Len(b)
      /\ \A j \in 1 .. Len(a) + Len(b) : (a \o b)[j] = IF j <= Len(a) THEN a[j] ELSE b[j - Len(a)]
  BY <1>2, <1>3, ConcatProperties DEF NodeSeqs
<1>6. QED
  BY <1>1, <1>2, <1>3, <1>4, <1>5
---------------------------------------------------------------------------
LEMMA NodesAreEntries ==
  ASSUME NEW nodes \in NodeSeqs
  PROVE  /\ Len(nodes) \in Nat /\ DOMAIN nodes = 1 .. Len(nodes)
         /\ \A n \in 1 .. Len(nodes) : nodes[n] \in Entries /\ nodes[n].key \in Nat
<1>1. Len(nodes) \in Nat /\ DOMAIN nodes = 1 .. Len(nodes)
  BY LenProperties DEF NodeSeqs
<1>2. \A n \in 1 .. Len(nodes) : nodes[n] \in Entries
  BY ElementOfSeq DEF NodeSeqs
<1>3. \A x \in Entries : x.key \in Nat
  BY TableAssumption DEF Entries
<1>4. QED
  BY <1>1, <1>2, <1>3

(* The loops of list.c stop somewhere, *)
LEMMA PassedIs ==
  ASSUME NEW nodes \in NodeSeqs, NEW k \in Nat
  PROVE  /\ Passed(nodes, k) \in 0 .. Len(nodes)
         /\ \A i \in 1 .. Passed(nodes, k) : nodes[i].key < k
         /\ Passed(nodes, k) < Len(nodes) => nodes[Passed(nodes, k) + 1].key >= k
<1> DEFINE T == {n \in 1 .. Len(nodes) : nodes[n].key >= k}
<1>1. Len(nodes) \in Nat /\ \A n \in 1 .. Len(nodes) : nodes[n] \in Entries /\ nodes[n].key \in Nat
  BY NodesAreEntries
<1>2. \E n \in 0 .. Len(nodes) :
         /\ \A i \in 1 .. n : nodes[i].key < k
         /\ n < Len(nodes) => nodes[n + 1].key >= k
  <2>1. CASE T = {}
    <3>1. \A i \in 1 .. Len(nodes) : nodes[i].key < k
      BY <1>1, <2>1
    <3>2. QED
      BY <1>1, <3>1
  <2>2. CASE T # {}
    <3>1. T \subseteq Nat
      BY <1>1
    <3>2. PICK m \in T : \A y \in T : m <= y
      <4> HIDE DEF T
      <4> QED BY <2>2, <3>1, LeastExists
    <3>3. m \in 1 .. Len(nodes) /\ nodes[m].key >= k
      BY <3>2
    <3>4. \A i \in 1 .. m - 1 : nodes[i].key < k
      <4> SUFFICES ASSUME NEW i \in 1 .. m - 1, ~ (nodes[i].key < k) PROVE FALSE
        OBVIOUS
      <4>1. i \in 1 .. Len(nodes) /\ i < m
        BY <1>1, <3>3
      <4>2. i \in T
        BY <1>1, <4>1
      <4>3. QED
        BY <3>2, <3>3, <4>1, <4>2
    <3>5. m - 1 \in 0 .. Len(nodes) /\ m - 1 + 1 = m
      BY <1>1, <3>3
    <3>6. QED
      BY <3>3, <3>4, <3>5
  <2>3. QED
    BY <2>1, <2>2
<1>3. QED
  BY <1>2, Zenon DEF Passed

(* and in a sorted list they stop where the key is. *)
LEMMA FoundAt ==
  ASSUME NEW nodes \in NodeSeqs, Sorted(nodes), NEW p \in DOMAIN nodes
  PROVE  Passed(nodes, nodes[p].key) + 1 = p
<1> DEFINE k == nodes[p].key
           n == Passed(nodes, k)
<1>1. DOMAIN nodes = 1 .. Len(nodes) /\ Len(nodes) \in Nat
      /\ \A i \in 1 .. Len(nodes) : nodes[i].key \in Nat
  BY NodesAreEntries
<1>2. /\ n \in 0 .. Len(nodes)
      /\ \A i \in 1 .. n : nodes[i].key < k
      /\ n < Len(nodes) => nodes[n + 1].key >= k
  BY <1>1, PassedIs
<1>3. ~ (p <= n)
  <2> SUFFICES ASSUME p <= n PROVE FALSE
    OBVIOUS
  <2>1. p \in 1 .. n
    BY <1>1, <1>2
  <2>2. nodes[p].key < nodes[p].key /\ nodes[p].key \in Nat
    BY <1>1, <1>2, <2>1
  <2>3. QED
    BY <2>2
<1>4. ~ (n + 1 < p)
  <2> SUFFICES ASSUME n + 1 < p PROVE FALSE
    OBVIOUS
  <2>1. n + 1 \in 1 .. Len(nodes) /\ n < Len(nodes)
    BY <1>1, <1>2
  <2>2. nodes[n + 1].key < nodes[p].key
    BY <1>1, <2>1 DEF Sorted
  <2>3. nodes[n + 1].key \in Nat /\ nodes[p].key \in Nat /\ nodes[n + 1].key >= nodes[p].key
    BY <1>1, <1>2, <2>1
  <2>4. QED
    BY <2>2, <2>3
<1>5. QED
  BY <1>1, <1>2, <1>3, <1>4
---------------------------------------------------------------------------
(* An entry that is destroyed keeps its place and its key; so does one that *)
(* is put there.                                                           *)
LEMMA SetEntry ==
  ASSUME NEW i, NEW l, InOrder(l, i), NEW p \in DOMAIN l.nodes, NEW x \in Entries,
         x.key = l.nodes[p].key, NEW r, r = Replaced(l, p, x)
  PROVE  /\ InOrder(r, i) /\ DOMAIN r.nodes = DOMAIN l.nodes /\ Len(r.nodes) = Len(l.nodes)
         /\ r.nodes[p] = x /\ r.size = l.size
         /\ \A n \in DOMAIN r.nodes : n # p => r.nodes[n] = l.nodes[n]
         /\ OnlyAt(l, r, x.key)
<1>1. l.nodes \in NodeSeqs /\ l.size \in Int /\ l = [nodes |-> l.nodes, size |-> l.size]
  BY DEF InOrder, ListShapes
<1>2. Len(l.nodes) \in Nat /\ DOMAIN l.nodes = 1 .. Len(l.nodes)
  BY <1>1, NodesAreEntries
<1> DEFINE ns == [l.nodes EXCEPT ![p] = x]
<1>3. /\ ns \in NodeSeqs /\ Len(ns) = Len(l.nodes)
      /\ \A j \in 1 .. Len(l.nodes) : ns[j] = IF j = p THEN x ELSE l.nodes[j]
  BY <1>1, <1>2, ExceptSeq DEF NodeSeqs
<1>4. DOMAIN ns = 1 .. Len(l.nodes)
  BY <1>3, NodesAreEntries
<1> HIDE DEF ns
<1>5. r = [nodes |-> ns, size |-> l.size]
  BY <1>1 DEF ns, Replaced
<1>6. \A j \in 1 .. Len(l.nodes) : ns[j].key = l.nodes[j].key
  BY <1>3
<1>7. Sorted(ns)
  BY <1>2, <1>4, <1>6 DEF InOrder, Sorted
<1>8. Own(ns, i)
  BY <1>2, <1>4, <1>6 DEF InOrder, Own
<1>9. r.nodes = ns /\ r.size = l.size /\ r \in ListShapes
  BY <1>1, <1>3, <1>5 DEF ListShapes
<1>10. InOrder(r, i)
  BY <1>7, <1>8, <1>9 DEF InOrder
<1>11. OnlyAt(l, r, x.key)
  <2>1. DOMAIN r.nodes = DOMAIN l.nodes /\ r.nodes[p] = x
        /\ \A n \in DOMAIN r.nodes : n # p => r.nodes[n] = l.nodes[n]
    BY <1>2, <1>3, <1>4, <1>9
  <2>2. QED
    BY <2>1 DEF OnlyAt, Held, ToSet
<1>12. QED
  BY <1>2, <1>3, <1>4, <1>9, <1>10, <1>11

LEMMA DestroyEntry ==
  ASSUME NEW i, NEW l, InOrder(l, i), Whole(l), NEW p \in DOMAIN l.nodes,
         NEW r, r = Destroyed(l, p)
  PROVE  /\ InOrder(r, i) /\ HalfRemoved(r, l.nodes[p].key)
         /\ OnlyAt(l, r, l.nodes[p].key)
<1> DEFINE x == [l.nodes[p] EXCEPT !.value = Freed]
<1>1. l.nodes \in NodeSeqs /\ l.nodes[p] \in Entries
  BY NodesAreEntries DEF InOrder, ListShapes
<1>2. x \in Entries /\ x.key = l.nodes[p].key /\ x.value = Freed
  BY <1>1 DEF Entries
<1>3. r = Replaced(l, p, x)
  BY DEF InOrder, ListShapes, Replaced, Destroyed
<1> HIDE DEF x
<1>4. /\ InOrder(r, i) /\ DOMAIN r.nodes = DOMAIN l.nodes /\ Len(r.nodes) = Len(l.nodes)
      /\ r.nodes[p] = x /\ r.size = l.size
      /\ \A n \in DOMAIN r.nodes : n # p => r.nodes[n] = l.nodes[n]
      /\ OnlyAt(l, r, l.nodes[p].key)
  BY <1>2, <1>3, SetEntry
<1>5. QED
  BY <1>2, <1>4 DEF HalfRemoved, Whole

(* list_add, first step, *)
LEMMA AddBegins ==
  ASSUME NEW i, NEW l, InOrder(l, i), Whole(l),
         NEW e, e \in [key : Keys, value : Vals], hashValue(e.key) = i
  PROVE  /\ InOrder(FirstOfAdd(l, e), i) /\ HalfAdded(FirstOfAdd(l, e), e)
         /\ OnlyAt(l, FirstOfAdd(l, e), e.key)
<1> DEFINE n == Passed(l.nodes, e.key)
           r == FirstOfAdd(l, e)
<1>1. /\ l.nodes \in NodeSeqs /\ l.size \in Int /\ l = [nodes |-> l.nodes, size |-> l.size]
      /\ e \in Entries /\ e.key \in Nat /\ e.value # Freed
  BY TableAssumption DEF InOrder, ListShapes, Entries
<1>2. /\ Len(l.nodes) \in Nat /\ DOMAIN l.nodes = 1 .. Len(l.nodes)
      /\ \A j \in 1 .. Len(l.nodes) : l.nodes[j].key \in Nat
  BY <1>1, NodesAreEntries
<1>3. /\ n \in 0 .. Len(l.nodes)
      /\ \A j \in 1 .. n : l.nodes[j].key < e.key
      /\ n < Len(l.nodes) => l.nodes[n + 1].key >= e.key
  BY <1>1, PassedIs
<1> HIDE DEF n
<1>4. CASE StopsAt(l.nodes, e.key)
  <2>1. n + 1 \in DOMAIN l.nodes /\ l.nodes[n + 1].key = e.key
    BY <1>2, <1>3, <1>4 DEF StopsAt, n
  <2>2. r = Destroyed(l, n + 1)
    BY <1>4 DEF FirstOfAdd, n, Destroyed
  <2>3. InOrder(r, i) /\ HalfRemoved(r, e.key) /\ OnlyAt(l, r, e.key)
    BY <2>1, <2>2, DestroyEntry
  <2>4. QED
    BY <2>3 DEF HalfRemoved, HalfAdded
<1>5. CASE ~ StopsAt(l.nodes, e.key)
  <2> DEFINE ns == InsertAt(l.nodes, n + 1, e)
  <2>1. r = [nodes |-> ns, size |-> l.size]
    BY <1>1, <1>5 DEF FirstOfAdd, n
  <2>2. /\ ns \in NodeSeqs /\ Len(ns) = Len(l.nodes) + 1
        /\ \A j \in 1 .. Len(l.nodes) + 1 :
              ns[j] = IF j < n + 1 THEN l.nodes[j] ELSE IF j = n + 1 THEN e ELSE l.nodes[j - 1]
    <3>1. n + 1 \in 1 .. Len(l.nodes) + 1
      BY <1>2, <1>3
    <3>2. l.nodes \in NodeSeqs /\ e \in Entries
      BY <1>1
    <3>3. QED
      BY <3>1, <3>2, InsertAtIs
  <2> HIDE DEF ns
  <2>3. DOMAIN ns = 1 .. Len(l.nodes) + 1
    BY <2>2, NodesAreEntries
  <2>4. \A j \in 1 .. Len(l.nodes) : j > n => l.nodes[j].key > e.key
    <3> SUFFICES ASSUME NEW j \in 1 .. Len(l.nodes), j > n PROVE l.nodes[j].key > e.key
      OBVIOUS
    <3>1. n + 1 \in 1 .. Len(l.nodes) /\ n < Len(l.nodes)
      BY <1>2, <1>3
    <3>2. l.nodes[n + 1].key > e.key
      BY <1>1, <1>2, <1>3, <1>5, <3>1 DEF StopsAt, n
    <3>3. j = n + 1 \/ l.nodes[n + 1].key < l.nodes[j].key
      <4>1. j = n + 1 \/ n + 1 < j
        BY <1>2, <1>3
      <4>2. QED
        BY <1>2, <3>1, <4>1 DEF InOrder, Sorted
    <3>4. QED
      BY <1>1, <1>2, <3>1, <3>2, <3>3
  <2>5. Sorted(ns)
    <3> SUFFICES ASSUME NEW a \in 1 .. Len(l.nodes) + 1, NEW b \in 1 .. Len(l.nodes) + 1, a < b
                 PROVE  ns[a].key < ns[b].key
      BY <2>3 DEF Sorted
    <3>1. \A x, y \in 1 .. Len(l.nodes) : x < y => l.nodes[x].key < l.nodes[y].key
      BY <1>2 DEF InOrder, Sorted
    <3>2. CASE b < n + 1
      BY <1>2, <1>3, <2>2, <3>1, <3>2
    <3>3. CASE b = n + 1
      BY <1>2, <1>3, <2>2, <3>3
    <3>4. CASE b > n + 1
      <4>1. b - 1 \in 1 .. Len(l.nodes) /\ b - 1 > n /\ ns[b] = l.nodes[b - 1]
        BY <1>2, <1>3, <2>2, <3>4
      <4>2. CASE a = n + 1
        BY <1>1, <1>2, <2>2, <2>4, <4>1, <4>2
      <4>3. CASE a < n + 1
        <5>1. a \in 1 .. Len(l.nodes) /\ ns[a] = l.nodes[a] /\ a < b - 1
          BY <1>2, <1>3, <2>2, <3>4, <4>3
        <5>2. QED
          BY <3>1, <4>1, <5>1
      <4>4. CASE a > n + 1
        <5>1. a - 1 \in 1 .. Len(l.nodes) /\ ns[a] = l.nodes[a - 1] /\ a - 1 < b - 1
          BY <1>2, <1>3, <2>2, <3>4, <4>4
        <5>2. QED
          BY <3>1, <4>1, <5>1
      <4>5. QED
        BY <1>3, <4>2, <4>3, <4>4
    <3>5. QED
      BY <1>3, <3>2, <3>3, <3>4
  <2>6. \A j \in 1 .. Len(l.nodes) + 1 : j = n + 1 \/ \E m \in 1 .. Len(l.nodes) : ns[j] = l.nodes[m]
    <3> SUFFICES ASSUME NEW j \in 1 .. Len(l.nodes) + 1, j # n + 1
                 PROVE  \E m \in 1 .. Len(l.nodes) : ns[j] = l.nodes[m]
      OBVIOUS
    <3>1. CASE j < n + 1
      <4>1. j \in 1 .. Len(l.nodes) /\ ns[j] = l.nodes[j]
        BY <1>2, <1>3, <2>2, <3>1
      <4>2. QED
        BY <4>1
    <3>2. CASE j > n + 1
      <4>1. j - 1 \in 1 .. Len(l.nodes) /\ ns[j] = l.nodes[j - 1]
        BY <1>2, <1>3, <2>2, <3>2
      <4>2. QED
        BY <4>1
    <3>3. QED
      BY <1>3, <3>1, <3>2
  <2>7. n + 1 \in 1 .. Len(l.nodes) + 1 /\ ns[n + 1] = e
    BY <1>2, <1>3, <2>2
  <2>8. Own(ns, i)
    BY <1>2, <2>3, <2>6, <2>7 DEF InOrder, Own
  <2>9. HalfAdded(r, e)
    <3>1. \A j \in DOMAIN ns : j # n + 1 => ns[j].value # Freed
      BY <1>2, <2>3, <2>6 DEF Whole
    <3>2. l.size = Len(ns) - 1
      BY <1>2, <2>2 DEF Whole
    <3>3. QED
      BY <2>1, <2>3, <2>7, <3>1, <3>2 DEF HalfAdded
  <2>10. OnlyAt(l, r, e.key)
    <3>1. \A m \in 1 .. Len(l.nodes) : \E j \in 1 .. Len(l.nodes) + 1 : ns[j] = l.nodes[m]
      <4> SUFFICES ASSUME NEW m \in 1 .. Len(l.nodes)
                   PROVE  \E j \in 1 .. Len(l.nodes) + 1 : ns[j] = l.nodes[m]
        OBVIOUS
      <4>1. CASE m < n + 1
        <5>1. m \in 1 .. Len(l.nodes) + 1 /\ ns[m] = l.nodes[m]
          BY <1>2, <1>3, <2>2, <4>1
        <5>2. QED
          BY <5>1
      <4>2. CASE ~ (m < n + 1)
        <5>1. m + 1 \in 1 .. Len(l.nodes) + 1 /\ ns[m + 1] = l.nodes[m]
          BY <1>2, <1>3, <2>2, <4>2
        <5>2. QED
          BY <5>1
      <4>3. QED
        BY <4>1, <4>2
    <3>2. Held(l) = {l.nodes[m] : m \in 1 .. Len(l.nodes)} /\ Held(r) = {ns[j] : j \in 1 .. Len(l.nodes) + 1}
      BY <1>2, <2>1, <2>3 DEF Held, ToSet
    <3>3. Held(l) \subseteq Held(r)
      BY <3>1, <3>2
    <3>4. \A x \in Held(r) : x = e \/ x \in Held(l)
      BY <2>6, <2>7, <3>2
    <3>5. QED
      BY <3>3, <3>4 DEF OnlyAt
  <2>11. QED
    BY <1>1, <2>1, <2>2, <2>5, <2>8, <2>9, <2>10 DEF InOrder, ListShapes
<1>6. QED
  BY <1>4, <1>5

(* and second. *)
LEMMA AddEnds ==
  ASSUME NEW i, NEW l, InOrder(l, i), NEW e, e \in [key : Keys, value : Vals], HalfAdded(l, e)
  PROVE  /\ InOrder(SecondOfAdd(l, e), i) /\ Whole(SecondOfAdd(l, e))
         /\ OnlyAt(l, SecondOfAdd(l, e), e.key) /\ e \in Held(SecondOfAdd(l, e))
<1> DEFINE r == SecondOfAdd(l, e)
<1>1. PICK p \in DOMAIN l.nodes :
        /\ l.nodes[p].key = e.key
        /\ \A n \in DOMAIN l.nodes : n # p => l.nodes[n].value # Freed
        /\ \/ l.nodes[p].value = Freed /\ l.size = Len(l.nodes)
           \/ l.nodes[p] = e /\ l.size = Len(l.nodes) - 1
  BY DEF HalfAdded
<1>2. /\ l.nodes \in NodeSeqs /\ l.size \in Int /\ l = [nodes |-> l.nodes, size |-> l.size]
      /\ e \in Entries /\ e.value # Freed /\ Len(l.nodes) \in Nat
  BY TableAssumption, NodesAreEntries DEF InOrder, ListShapes, Entries
<1>3. Passed(l.nodes, e.key) + 1 = p
  BY <1>1, <1>2, FoundAt DEF InOrder
<1>4. CASE l.nodes[p].value = Freed
  <2>1. r = [l EXCEPT !.nodes[p] = e]
    BY <1>3, <1>4 DEF SecondOfAdd
  <2>2. r = Replaced(l, p, e)
    BY <1>2, <2>1 DEF Replaced
  <2>3. /\ InOrder(r, i) /\ DOMAIN r.nodes = DOMAIN l.nodes /\ Len(r.nodes) = Len(l.nodes)
        /\ r.nodes[p] = e /\ r.size = l.size
        /\ \A n \in DOMAIN r.nodes : n # p => r.nodes[n] = l.nodes[n]
        /\ OnlyAt(l, r, e.key)
    <3> HIDE DEF r
    <3>1. e \in Entries /\ e.key = l.nodes[p].key
      BY <1>1, <1>2
    <3>2. QED
      BY <2>2, <3>1, SetEntry
  <2>4. l.size = Len(l.nodes)
    BY <1>1, <1>2, <1>4
  <2>5. e \in Held(r)
    BY <1>1, <2>3 DEF Held, ToSet
  <2>6. Whole(r)
    BY <1>1, <1>2, <2>3, <2>4 DEF Whole
  <2>7. QED
    BY <2>3, <2>5, <2>6
<1>5. CASE l.nodes[p].value # Freed
  <2>1. r = [nodes |-> l.nodes, size |-> l.size + 1]
    BY <1>2, <1>3, <1>5 DEF SecondOfAdd
  <2>2. l.size + 1 = Len(l.nodes) /\ \A n \in DOMAIN l.nodes : l.nodes[n].value # Freed
    BY <1>1, <1>2, <1>5
  <2>3. InOrder(r, i) /\ Whole(r)
    BY <1>2, <2>1, <2>2 DEF InOrder, ListShapes, Whole
  <2>4. l.nodes[p] = e
    BY <1>1, <1>5
  <2>5. OnlyAt(l, r, e.key) /\ e \in Held(r)
    BY <1>1, <2>1, <2>4 DEF OnlyAt, Held, ToSet
  <2>6. QED
    BY <2>3, <2>5
<1>6. QED
  BY <1>4, <1>5

(* list_remove, *)
LEMMA RemoveBegins ==
  ASSUME NEW i, NEW l, InOrder(l, i), Whole(l), NEW k \in Keys, StopsAt(l.nodes, k)
  PROVE  /\ InOrder(FirstOfRemove(l, k), i) /\ HalfRemoved(FirstOfRemove(l, k), k)
         /\ OnlyAt(l, FirstOfRemove(l, k), k)
<1> DEFINE n == Passed(l.nodes, k)
<1>1. l.nodes \in NodeSeqs /\ k \in Nat
  BY TableAssumption DEF InOrder, ListShapes
<1>2. n + 1 \in DOMAIN l.nodes /\ l.nodes[n + 1].key = k
  <2>1. n \in 0 .. Len(l.nodes) /\ Len(l.nodes) \in Nat /\ DOMAIN l.nodes = 1 .. Len(l.nodes)
    BY <1>1, PassedIs, NodesAreEntries
  <2>2. n < Len(l.nodes) /\ l.nodes[n + 1].key = k
    BY DEF StopsAt
  <2>3. QED
    BY <2>1, <2>2
<1>3. FirstOfRemove(l, k) = Destroyed(l, n + 1)
  BY DEF FirstOfRemove, Destroyed
<1> HIDE DEF n
<1>4. QED
  BY <1>2, <1>3, DestroyEntry

LEMMA RemoveEnds ==
  ASSUME NEW i, NEW l, InOrder(l, i), NEW k \in Keys, HalfRemoved(l, k)
  PROVE  /\ InOrder(SecondOfRemove(l, k), i) /\ Whole(SecondOfRemove(l, k))
         /\ OnlyAt(l, SecondOfRemove(l, k), k) /\ \A x \in Held(SecondOfRemove(l, k)) : x.key # k
<1> DEFINE r == SecondOfRemove(l, k)
<1>1. PICK p \in DOMAIN l.nodes :
        /\ l.nodes[p].key = k
        /\ \A n \in DOMAIN l.nodes : n # p => l.nodes[n].value # Freed
        /\ l.size = Len(l.nodes)
  BY DEF HalfRemoved
<1>2. /\ l.nodes \in NodeSeqs /\ l.size \in Int
      /\ Len(l.nodes) \in Nat /\ DOMAIN l.nodes = 1 .. Len(l.nodes)
  BY NodesAreEntries DEF InOrder, ListShapes
<1>3. Passed(l.nodes, k) + 1 = p
  BY <1>1, <1>2, FoundAt DEF InOrder
<1> DEFINE ns == RemoveAt(l.nodes, p)
<1>4. r = [nodes |-> ns, size |-> l.size - 1]
  BY <1>3 DEF SecondOfRemove
<1>5. /\ ns \in NodeSeqs /\ Len(ns) = Len(l.nodes) - 1
      /\ \A j \in 1 .. Len(l.nodes) - 1 : ns[j] = IF j < p THEN l.nodes[j] ELSE l.nodes[j + 1]
  BY <1>1, <1>2, RemoveAtIs
<1> HIDE DEF ns
<1>6. DOMAIN ns = 1 .. Len(l.nodes) - 1
  BY <1>5, NodesAreEntries
<1> DEFINE from(j) == IF j < p THEN j ELSE j + 1
<1>7. \A j \in DOMAIN ns : from(j) \in DOMAIN l.nodes /\ from(j) # p /\ ns[j] = l.nodes[from(j)]
  BY <1>1, <1>2, <1>5, <1>6
<1>8. \A a, b \in DOMAIN ns : a < b => from(a) < from(b)
  BY <1>1, <1>2, <1>6
<1>13. \A m \in DOMAIN l.nodes : m # p => \E j \in DOMAIN ns : ns[j] = l.nodes[m]
  <2> SUFFICES ASSUME NEW m \in DOMAIN l.nodes, m # p PROVE \E j \in DOMAIN ns : ns[j] = l.nodes[m]
    OBVIOUS
  <2> DEFINE j == IF m < p THEN m ELSE m - 1
  <2>1. j \in DOMAIN ns /\ ns[j] = l.nodes[m]
    BY <1>1, <1>2, <1>5, <1>6
  <2>2. QED
    BY <2>1
<1> HIDE DEF from
<1>9. Sorted(ns)
  BY <1>7, <1>8 DEF InOrder, Sorted
<1>10. Own(ns, i)
  BY <1>7 DEF InOrder, Own
<1>11. \A j \in DOMAIN ns : ns[j].value # Freed
  BY <1>1, <1>7
<1>12. InOrder(r, i) /\ Whole(r)
  BY <1>1, <1>2, <1>4, <1>5, <1>9, <1>10, <1>11 DEF InOrder, ListShapes, Whole
<1>14. \A m \in DOMAIN l.nodes : m # p => l.nodes[m].key # k
  <2>1. \A m \in DOMAIN l.nodes : l.nodes[m].key \in Nat
    BY <1>2, NodesAreEntries
  <2>2. QED
    BY <1>1, <1>2, <2>1 DEF InOrder, Sorted
<1>15. r.nodes = ns
  BY <1>4
<1>16. OnlyAt(l, r, k) /\ \A x \in Held(r) : x.key # k
  BY <1>1, <1>7, <1>13, <1>14, <1>15 DEF OnlyAt, Held, ToSet
<1>17. QED
  BY <1>12, <1>16
---------------------------------------------------------------------------
InLock == {"inside", "half", "done"}

Writing(t) == pc[t] = "half" /\ op[t] \in Writes

(* A thread that serves has a request, with a hash that is an index. *)
RequestsOK ==
    /\ pc \in [Threads -> PCs]
    /\ op \in [Threads -> Ops \cup {None}]
    /\ \A t \in Threads : pc[t] \notin {"idle", "gone"} =>
          op[t] \in Ops /\ (op[t].key \in Keys => ListOf(t) \in Indexes)

(* The lock is held as the request needs it, and as RWLockSpec allows. *)
HeldByKind ==
    /\ readers = {t \in Threads : pc[t] = "gone" \/ (pc[t] \in InLock /\ op[t] \in Reads)}
    /\ writers = {t \in Threads : pc[t] \in InLock /\ op[t] \in Writes}
    /\ \A t \in writers : writers = {t} /\ readers = {}

ListsInOrder ==
    /\ lists = [i \in Indexes |-> lists[i]]
    /\ \A i \in Indexes : InOrder(lists[i], i)

(* Only the writer at work has left a list in the middle of a change, and *)
(* it knows which.                                                        *)
OthersWhole == \A i \in Indexes :
    lists[i] = NULL \/ Whole(lists[i]) \/ \E t \in Threads : Writing(t) /\ ListOf(t) = i

HalfKnown == \A t \in Threads : Writing(t) =>
    /\ op[t].type = "put" => HalfAdded(lists[ListOf(t)], EntryOf(t))
    /\ op[t].type = "del" => HalfRemoved(lists[ListOf(t)], op[t].key)

(* The strengthening that every step preserves. *)
IInv == /\ RequestsOK
        /\ HeldByKind
        /\ ListsInOrder
        /\ OthersWhole
        /\ HalfKnown

LEMMA Kinds ==
  /\ \A o \in Ops : /\ o \in Writes <=> o.type \in {"put", "del"}
                    /\ o \in Reads <=> o.type \in {"get", "size", "getkeys", "gettable"}
  /\ \A o \in Writes : o.key \in Keys /\ (o.type = "put" => o.val \in Vals)
  /\ Ops = Writes \cup Reads /\ \A o \in Ops : o \in Writes => o \notin Reads
<1>1. \A o \in Writes : o.type \in {"put", "del"} /\ o.key \in Keys /\ (o.type = "put" => o.val \in Vals)
  BY DEF Writes
<1>2. \A o \in Reads : o.type \in {"get", "size", "getkeys", "gettable"}
  BY DEF Reads
<1>3. QED
  BY <1>1, <1>2 DEF Ops

(* A thread in the lock that neither changes the lists nor is in the middle *)
(* of doing so.                                                             *)
LEMMA QuietMove ==
  ASSUME IInv, NEW t \in Threads, NEW to \in InLock, pc[t] \in InLock,
         pc' = [pc EXCEPT ![t] = to], UNCHANGED <<lists, readers, writers, op>>,
         pc[t] = "half" \/ to = "half" => op[t] \in Reads
  PROVE  IInv'
<1>1. \A u \in Threads : Writing(u)' <=> Writing(u)
  <2>1. op[t] \in Reads => op[t] \notin Writes
    BY Kinds
  <2>2. QED
    BY <2>1 DEF IInv, RequestsOK, Writing
<1>2. \A u \in Threads : ListOf(u)' = ListOf(u) /\ EntryOf(u)' = EntryOf(u)
  BY DEF ListOf, EntryOf
<1>3. RequestsOK'
  BY <1>2 DEF IInv, RequestsOK, InLock, PCs
<1>4. \A u \in Threads : (pc'[u] \in InLock <=> pc[u] \in InLock) /\ (pc'[u] = "gone" <=> pc[u] = "gone")
  BY DEF IInv, RequestsOK, InLock
<1>5. HeldByKind'
  BY <1>4 DEF IInv, HeldByKind
<1>6. ListsInOrder' /\ OthersWhole' /\ HalfKnown'
  BY <1>1, <1>2 DEF IInv, ListsInOrder, OthersWhole, HalfKnown
<1>7. QED
  BY <1>3, <1>5, <1>6 DEF IInv

(* A writer that changes the list of its key. *)
LEMMA ListChange ==
  ASSUME IInv, NEW t \in Threads, pc[t] \in InLock, op[t] \in Writes, NEW to \in InLock,
         pc' = [pc EXCEPT ![t] = to], UNCHANGED <<readers, writers, op>>,
         NEW l, lists' = [lists EXCEPT ![ListOf(t)] = l], InOrder(l, ListOf(t)),
         to = "half" \/ Whole(l),
         to = "half" => /\ op[t].type = "put" => HalfAdded(l, EntryOf(t))
                        /\ op[t].type = "del" => HalfRemoved(l, op[t].key)
  PROVE  IInv'
<1>1. \A u \in Threads : ListOf(u)' = ListOf(u) /\ EntryOf(u)' = EntryOf(u)
  BY DEF ListOf, EntryOf
<1>2. RequestsOK'
  BY <1>1 DEF IInv, RequestsOK, InLock, PCs
<1>3. \A u \in Threads : (pc'[u] \in InLock <=> pc[u] \in InLock) /\ (pc'[u] = "gone" <=> pc[u] = "gone")
  BY DEF IInv, RequestsOK, InLock
<1>4. HeldByKind'
  BY <1>3 DEF IInv, HeldByKind
<1>5. \A u \in Threads : u # t => ~ Writing(u) /\ ~ Writing(u)'
  <2>1. t \in writers /\ writers = {t}
    BY DEF IInv, HeldByKind
  <2>2. \A u \in Threads : u # t => ~ (pc[u] \in InLock /\ op[u] \in Writes)
    BY <2>1 DEF IInv, HeldByKind
  <2>3. QED
    BY <1>3, <2>2 DEF Writing, InLock
<1>6. Writing(t)' <=> to = "half"
  BY DEF Writing, IInv, RequestsOK
<1>7. ListOf(t) \in Indexes
  BY Kinds DEF IInv, RequestsOK, InLock
<1>8. /\ lists'[ListOf(t)] = l
      /\ \A i \in Indexes : i # ListOf(t) => lists'[i] = lists[i]
      /\ lists' = [i \in Indexes |-> lists'[i]]
  BY <1>7 DEF IInv, ListsInOrder
<1>9. ListsInOrder'
  BY <1>8 DEF IInv, ListsInOrder
<1>10. OthersWhole'
  <2> SUFFICES ASSUME NEW i \in Indexes
               PROVE  lists'[i] = NULL \/ Whole(lists'[i]) \/ \E u \in Threads : Writing(u)' /\ ListOf(u)' = i
    BY DEF OthersWhole
  <2>1. CASE i = ListOf(t)
    BY <1>1, <1>6, <1>8, <2>1
  <2>2. CASE i # ListOf(t)
    BY <1>5, <1>8, <2>2 DEF IInv, OthersWhole
  <2>3. QED
    BY <2>1, <2>2
<1>11. HalfKnown'
  BY <1>1, <1>5, <1>6, <1>8 DEF HalfKnown
<1>12. QED
  BY <1>2, <1>4, <1>9, <1>10, <1>11 DEF IInv

(* A writer that begins finds every list whole. *)
LEMMA BeginsWhole ==
  ASSUME IInv, NEW t \in Threads, pc[t] = "inside", op[t] \in Writes
  PROVE  /\ ListOf(t) \in Indexes /\ InOrder(lists[ListOf(t)], ListOf(t))
         /\ lists[ListOf(t)] = NULL \/ Whole(lists[ListOf(t)])
<1>1. ListOf(t) \in Indexes
  BY Kinds DEF IInv, RequestsOK
<1>2. t \in writers /\ writers = {t}
  BY DEF IInv, HeldByKind, InLock
<1>3. \A u \in Threads : ~ Writing(u)
  BY <1>2 DEF IInv, HeldByKind, InLock, Writing
<1>4. QED
  BY <1>1, <1>3 DEF IInv, ListsInOrder, OthersWhole

LEMMA NewLists ==
  ASSUME NEW i \in Indexes
  PROVE  /\ InOrder(NULL, i) /\ InOrder(list_create, i) /\ Whole(list_create)
         /\ \A e \in [key : Keys, value : Vals] : hashValue(e.key) = i =>
               /\ InOrder([nodes |-> <<e>>, size |-> 1], i)
               /\ Whole([nodes |-> <<e>>, size |-> 1])
<1>1. <<>> \in NodeSeqs /\ DOMAIN <<>> = {} /\ Len(<<>>) = 0
  BY DEF NodeSeqs
<1>2. \A e \in [key : Keys, value : Vals] : e \in Entries /\ e.value # Freed
  BY TableAssumption DEF Entries
<1>3. \A e \in Entries : <<e>> \in NodeSeqs /\ DOMAIN <<e>> = {1} /\ Len(<<e>>) = 1 /\ <<e>>[1] = e
  BY DEF NodeSeqs
<1>4. InOrder(NULL, i) /\ InOrder(list_create, i) /\ Whole(list_create)
  BY <1>1 DEF NULL, list_create, InOrder, ListShapes, Sorted, Own, Whole
<1>5. ASSUME NEW e \in [key : Keys, value : Vals], hashValue(e.key) = i
      PROVE  InOrder([nodes |-> <<e>>, size |-> 1], i) /\ Whole([nodes |-> <<e>>, size |-> 1])
  BY <1>2, <1>3, <1>5 DEF InOrder, ListShapes, Sorted, Own, Whole
<1>6. QED
  BY <1>4, <1>5
---------------------------------------------------------------------------
(* A thread in the lock has a request that is a write or a read by its type. *)
LEMMA InLockKinds ==
  ASSUME IInv, NEW t \in Threads, pc[t] \in InLock
  PROVE  /\ op[t] \in Ops /\ op[t] # None
         /\ op[t] \in Writes <=> op[t].type \in {"put", "del"}
         /\ op[t] \in Reads <=> op[t].type \in {"get", "size", "getkeys", "gettable"}
         /\ op[t].type \in {"put", "del"} => op[t].key \in Keys
         /\ op[t].type = "put" => EntryOf(t) \in [key : Keys, value : Vals]
  BY Kinds, ServerAssumption DEF IInv, RequestsOK, InLock, EntryOf

LEMMA PutKeeps ==
  ASSUME IInv, NEW t \in Threads,
         PutFirst(t) \/ PutSecond(t) \/ PutNewList(t) \/ PutFails(t) \/ PutIgnoresFailure(t)
  PROVE  IInv'
<1>1. /\ pc[t] \in InLock /\ op[t] \in Writes /\ op[t].type = "put" /\ UNCHANGED <<readers, writers, op>>
      /\ EntryOf(t) \in [key : Keys, value : Vals] /\ hashValue(EntryOf(t).key) = ListOf(t)
  <2>1. /\ pc[t] \in InLock /\ op[t].type = "put" /\ UNCHANGED <<readers, writers, op>>
    BY DEF PutFirst, PutSecond, PutNewList, PutFails, PutIgnoresFailure, Serving, Goto, InLock, lockVars
  <2>2. QED
    BY <2>1, InLockKinds DEF EntryOf, ListOf
<1>2. CASE PutFirst(t)
  <2> DEFINE l == FirstOfAdd(lists[ListOf(t)], EntryOf(t))
  <2>1. /\ pc[t] = "inside" /\ pc' = [pc EXCEPT ![t] = "half"]
        /\ lists[ListOf(t)] # NULL /\ lists' = [lists EXCEPT ![ListOf(t)] = l]
    BY <1>2 DEF PutFirst, Serving, Goto
  <2>2. InOrder(l, ListOf(t)) /\ HalfAdded(l, EntryOf(t))
    BY <1>1, <2>1, BeginsWhole, AddBegins
  <2> HIDE DEF l
  <2>3. QED
    BY <1>1, <2>1, <2>2, ListChange DEF InLock
<1>3. CASE PutSecond(t)
  <2> DEFINE l == SecondOfAdd(lists[ListOf(t)], EntryOf(t))
  <2>1. /\ pc[t] = "half" /\ pc' = [pc EXCEPT ![t] = "done"] /\ lists' = [lists EXCEPT ![ListOf(t)] = l]
    BY <1>3 DEF PutSecond, Serving, Goto
  <2>2. ListOf(t) \in Indexes /\ InOrder(lists[ListOf(t)], ListOf(t))
    BY <1>1, <2>1, InLockKinds DEF IInv, RequestsOK, ListsInOrder
  <2>3. HalfAdded(lists[ListOf(t)], EntryOf(t))
    BY <1>1, <2>1 DEF IInv, HalfKnown, Writing
  <2>4. InOrder(l, ListOf(t)) /\ Whole(l)
    BY <1>1, <2>2, <2>3, AddEnds
  <2> HIDE DEF l
  <2>5. QED
    BY <1>1, <2>1, <2>4, ListChange DEF InLock
<1>4. CASE PutNewList(t)
  <2> DEFINE l == [nodes |-> <<EntryOf(t)>>, size |-> 1]
  <2>1. /\ pc[t] = "inside" /\ pc' = [pc EXCEPT ![t] = "done"] /\ lists' = [lists EXCEPT ![ListOf(t)] = l]
    BY <1>4 DEF PutNewList, Serving, Goto
  <2>2. InOrder(l, ListOf(t)) /\ Whole(l)
    BY <1>1, <2>1, BeginsWhole, NewLists
  <2> HIDE DEF l
  <2>3. QED
    BY <1>1, <2>1, <2>2, ListChange DEF InLock
<1>5. CASE PutFails(t)
  BY <1>1, <1>5, QuietMove, Kinds DEF PutFails, Serving, Goto, InLock
<1>6. CASE PutIgnoresFailure(t)
  <2> DEFINE l == IF lists[ListOf(t)] = NULL THEN list_create ELSE lists[ListOf(t)]
  <2>1. /\ pc[t] = "inside" /\ pc' = [pc EXCEPT ![t] = "done"] /\ lists' = [lists EXCEPT ![ListOf(t)] = l]
    BY <1>6 DEF PutIgnoresFailure, Serving, Goto
  <2>2. InOrder(l, ListOf(t)) /\ Whole(l)
    BY <1>1, <2>1, BeginsWhole, NewLists
  <2> HIDE DEF l
  <2>3. QED
    BY <1>1, <2>1, <2>2, ListChange DEF InLock
<1>7. QED
  BY <1>2, <1>3, <1>4, <1>5, <1>6

LEMMA DelKeeps ==
  ASSUME IInv, NEW t \in Threads, DelFirst(t) \/ DelSecond(t) \/ DelAbsent(t)
  PROVE  IInv'
<1>1. /\ pc[t] \in InLock /\ op[t] \in Writes /\ op[t].type = "del" /\ UNCHANGED <<readers, writers, op>>
      /\ op[t].key \in Keys
  <2>1. /\ pc[t] \in InLock /\ op[t].type = "del" /\ UNCHANGED <<readers, writers, op>>
    BY DEF DelFirst, DelSecond, DelAbsent, Serving, Goto, InLock, lockVars
  <2>2. QED
    BY <2>1, InLockKinds
<1>2. CASE DelFirst(t)
  <2> DEFINE l == FirstOfRemove(lists[ListOf(t)], op[t].key)
  <2>1. /\ pc[t] = "inside" /\ pc' = [pc EXCEPT ![t] = "half"]
        /\ lists[ListOf(t)] # NULL /\ StopsAt(lists[ListOf(t)].nodes, op[t].key)
        /\ lists' = [lists EXCEPT ![ListOf(t)] = l]
    BY <1>2 DEF DelFirst, Found, Serving, Goto
  <2>2. InOrder(l, ListOf(t)) /\ HalfRemoved(l, op[t].key)
    BY <1>1, <2>1, BeginsWhole, RemoveBegins
  <2> HIDE DEF l
  <2>3. QED
    BY <1>1, <2>1, <2>2, ListChange DEF InLock
<1>3. CASE DelSecond(t)
  <2> DEFINE l == SecondOfRemove(lists[ListOf(t)], op[t].key)
  <2>1. /\ pc[t] = "half" /\ pc' = [pc EXCEPT ![t] = "done"] /\ lists' = [lists EXCEPT ![ListOf(t)] = l]
    BY <1>3 DEF DelSecond, Serving, Goto
  <2>2. ListOf(t) \in Indexes /\ InOrder(lists[ListOf(t)], ListOf(t))
    BY <1>1, <2>1, InLockKinds DEF IInv, RequestsOK, ListsInOrder
  <2>3. HalfRemoved(lists[ListOf(t)], op[t].key)
    BY <1>1, <2>1 DEF IInv, HalfKnown, Writing
  <2>4. InOrder(l, ListOf(t)) /\ Whole(l)
    BY <1>1, <2>2, <2>3, RemoveEnds
  <2> HIDE DEF l
  <2>5. QED
    BY <1>1, <2>1, <2>4, ListChange DEF InLock
<1>4. CASE DelAbsent(t)
  BY <1>1, <1>4, QuietMove, Kinds DEF DelAbsent, Serving, Goto, InLock
<1>5. QED
  BY <1>2, <1>3, <1>4

(* The handlers of the reads, in which also a step may fail. *)
LEMMA ReadKeeps ==
  ASSUME IInv, NEW t \in Threads,
         \/ GetFinds(t) \/ GetCopies(t) \/ GetAbsent(t) \/ GetFails(t) \/ Size(t)
         \/ AllocateArray(t) \/ SendArray(t) \/ ArrayFails(t)
  PROVE  IInv'
<1>1. PICK to \in InLock : /\ pc[t] \in InLock /\ pc' = [pc EXCEPT ![t] = to]
                           /\ UNCHANGED <<lists, readers, writers, op>>
                           /\ op[t].type \in {"get", "size", "getkeys", "gettable"}
  BY DEF GetFinds, GetCopies, GetAbsent, GetFails, Size, AllocateArray, SendArray, ArrayFails,
         Serving, Goto, InLock, lockVars, CopyTypes
<1>2. op[t] \in Reads
  BY <1>1, InLockKinds
<1>3. QED
  BY <1>1, <1>2, QuietMove

LEMMA CopyKeeps == ASSUME IInv, NEW t \in Threads, CopyList(t) PROVE IInv'
<1>1. UNCHANGED <<lists, readers, writers, pc, op>>
  BY DEF CopyList, lockVars
<1>2. \A u \in Threads : ListOf(u)' = ListOf(u) /\ EntryOf(u)' = EntryOf(u) /\ Writing(u)' = Writing(u)
  BY <1>1 DEF ListOf, EntryOf, Writing
<1>3. QED
  BY <1>1, <1>2 DEF IInv, RequestsOK, HeldByKind, ListsInOrder, OthersWhole, HalfKnown

(* What happens outside the handlers leaves the lists alone, and who writes. *)
LEMMA OutsideKeeps ==
  ASSUME IInv, RequestsOK', HeldByKind', UNCHANGED lists, NEW t \in Threads,
         \A u \in Threads : u # t => pc'[u] = pc[u] /\ op'[u] = op[u],
         ~ Writing(t), ~ Writing(t)'
  PROVE  IInv'
<1>1. \A u \in Threads : Writing(u)' <=> Writing(u)
  BY DEF Writing
<1>2. \A u \in Threads : Writing(u) =>
        /\ ListOf(u)' = ListOf(u) /\ EntryOf(u)' = EntryOf(u)
        /\ op'[u].type = op[u].type /\ op'[u].key = op[u].key
  BY DEF ListOf, EntryOf
<1>3. QED
  BY <1>1, <1>2 DEF IInv, ListsInOrder, OthersWhole, HalfKnown

LEMMA CallKeeps == ASSUME IInv, NEW t \in Threads, Receive(t) \/ Return(t) PROVE IInv'
<1>1. UNCHANGED <<lists, readers, writers>>
  BY DEF Receive, Return, lockVars
<1>2. \E to \in {"idle", "called"} : pc[t] \notin InLock /\ pc[t] # "gone" /\ pc' = [pc EXCEPT ![t] = to]
  BY DEF Receive, Return, Goto, InLock
<1>3. \A u \in Threads : u # t => pc'[u] = pc[u] /\ op'[u] = op[u]
  BY DEF Receive, Return, Goto, IInv, RequestsOK
<1>4. RequestsOK'
  <2>1. CASE Receive(t)
    BY <2>1 DEF Receive, Goto, IInv, RequestsOK, PCs, ListOf
  <2>2. CASE Return(t)
    BY <2>2 DEF Return, Goto, IInv, RequestsOK, PCs, ListOf
  <2>3. QED
    BY <2>1, <2>2
<1>5. pc'[t] \notin InLock /\ pc'[t] # "gone"
  BY <1>2 DEF IInv, RequestsOK, InLock
<1>6. HeldByKind'
  BY <1>1, <1>2, <1>3, <1>5 DEF IInv, HeldByKind
<1>7. ~ Writing(t) /\ ~ Writing(t)'
  BY <1>2, <1>5 DEF Writing, InLock
<1>8. QED
  BY <1>1, <1>3, <1>4, <1>6, <1>7, OutsideKeeps

LEMMA LockKeeps ==
  ASSUME IInv, NEW t \in Threads, StartWrite(t) \/ StartRead(t) \/ EndWrite(t) \/ EndRead(t)
  PROVE  IInv'
<1>1. UNCHANGED <<lists, op>> /\ op[t] \in Writes \cup Reads
      /\ \/ pc[t] = "called" /\ pc' = [pc EXCEPT ![t] = "inside"]
         \/ pc[t] = "done" /\ pc' = [pc EXCEPT ![t] = "out"]
  BY DEF StartWrite, StartRead, EndWrite, EndRead, Goto
<1>2. \A u \in Threads : u # t => pc'[u] = pc[u] /\ op'[u] = op[u]
  BY <1>1 DEF IInv, RequestsOK
<1>3. RequestsOK'
  BY <1>1 DEF IInv, RequestsOK, PCs, ListOf
<1>4. op[t] \in Writes => op[t] \notin Reads
  BY Kinds DEF Ops
<1>5. HeldByKind'
  <2>1. CASE StartWrite(t)
    BY <1>1, <1>2, <1>4, <2>1 DEF StartWrite, Lock!EnterWrite, Goto, IInv, RequestsOK, HeldByKind, InLock
  <2>2. CASE StartRead(t)
    BY <1>1, <1>2, <1>4, <2>2 DEF StartRead, Lock!EnterRead, Goto, IInv, RequestsOK, HeldByKind, InLock
  <2>3. CASE EndWrite(t)
    BY <1>1, <1>2, <1>4, <2>3 DEF EndWrite, Lock!LeaveWrite, Goto, IInv, RequestsOK, HeldByKind, InLock
  <2>4. CASE EndRead(t)
    BY <1>1, <1>2, <1>4, <2>4 DEF EndRead, Lock!LeaveRead, Goto, IInv, RequestsOK, HeldByKind, InLock
  <2>5. QED
    BY <2>1, <2>2, <2>3, <2>4
<1>6. ~ Writing(t) /\ ~ Writing(t)'
  BY <1>1 DEF Writing, IInv, RequestsOK
<1>7. QED
  BY <1>1, <1>2, <1>3, <1>5, <1>6, OutsideKeeps

(* A thread that ends inside the read lock goes on counting as a reader. *)
LEMMA EntryFailsKeeps == ASSUME IInv, NEW t \in Threads, EntryFails(t) PROVE IInv'
<1>1. /\ pc[t] = "half" /\ pc' = [pc EXCEPT ![t] = "gone"] /\ op[t].type = "gettable"
      /\ op' = [op EXCEPT ![t] = None] /\ UNCHANGED <<lists, readers, writers>>
  BY DEF EntryFails, Serving, Goto, lockVars
<1>2. op[t] \in Reads /\ op[t] \notin Writes
  BY <1>1, InLockKinds DEF InLock
<1>3. \A u \in Threads : u # t => pc'[u] = pc[u] /\ op'[u] = op[u]
  BY <1>1 DEF IInv, RequestsOK
<1>4. pc'[t] = "gone"
  BY <1>1 DEF IInv, RequestsOK
<1>5. RequestsOK'
  BY <1>1, <1>3, <1>4 DEF IInv, RequestsOK, PCs, ListOf
<1>6. HeldByKind'
  <2>1. \A u \in Threads :
          /\ (pc'[u] = "gone" \/ (pc'[u] \in InLock /\ op'[u] \in Reads)) <=>
                (pc[u] = "gone" \/ (pc[u] \in InLock /\ op[u] \in Reads))
          /\ (pc'[u] \in InLock /\ op'[u] \in Writes) <=> (pc[u] \in InLock /\ op[u] \in Writes)
    BY <1>1, <1>2, <1>3, <1>4 DEF InLock
  <2>2. QED
    BY <1>1, <2>1 DEF IInv, HeldByKind
<1>7. ~ Writing(t) /\ ~ Writing(t)'
  BY <1>2, <1>4 DEF Writing
<1>8. QED
  BY <1>1, <1>3, <1>5, <1>6, <1>7, OutsideKeeps
---------------------------------------------------------------------------
LEMMA InitHolds == Init => IInv
<1> SUFFICES ASSUME Init PROVE IInv
  OBVIOUS
<1>1. \A i \in Indexes : InOrder(NULL, i)
  BY NewLists
<1>2. RequestsOK /\ HeldByKind
  BY DEF Init, Lock!Init, RequestsOK, HeldByKind, PCs, InLock
<1>3. ListsInOrder
  BY <1>1 DEF Init, ListsInOrder
<1>4. OthersWhole /\ HalfKnown
  BY DEF Init, OthersWhole, HalfKnown, Writing
<1>5. QED
  BY <1>2, <1>3, <1>4 DEF IInv

LEMMA ServerInvariant == Spec => []IInv
<1>1. IInv /\ [Next]_vars => IInv'
  <2>1. ASSUME IInv, NEW t \in Threads,
               \/ Receive(t) \/ StartWrite(t) \/ StartRead(t)
               \/ Handle(t) \/ OutOfMemory(t)
               \/ EndWrite(t) \/ EndRead(t) \/ Return(t)
        PROVE  IInv'
    BY <2>1, PutKeeps, DelKeeps, ReadKeeps, CopyKeeps, CallKeeps, LockKeeps, EntryFailsKeeps
    DEF Handle, OutOfMemory
  <2>2. ASSUME IInv, UNCHANGED vars PROVE IInv'
    <3>1. UNCHANGED <<lists, readers, writers, pc, op>>
      BY <2>2 DEF vars
    <3>2. \A u \in Threads : ListOf(u)' = ListOf(u) /\ EntryOf(u)' = EntryOf(u) /\ Writing(u)' = Writing(u)
      BY <3>1 DEF ListOf, EntryOf, Writing
    <3>3. QED
      BY <2>2, <3>1, <3>2 DEF IInv, RequestsOK, HeldByKind, ListsInOrder, OthersWhole, HalfKnown
  <2>3. QED
    BY <2>1, <2>2 DEF Next
<1>2. QED
  BY <1>1, InitHolds, PTL DEF Spec
---------------------------------------------------------------------------
(* Every list of the table is sorted at every moment, between the steps of  *)
(* list_add and list_remove too.                                            *)
THEOREM ServerListsSorted == Spec => []ListsSorted
<1>1. IInv => ListsSorted
  BY DEF IInv, ListsInOrder, InOrder, Sorted, ListsSorted
<1>2. QED
  BY <1>1, ServerInvariant, PTL

(* Every entry is in the list that the hash of its key names. *)
THEOREM ServerInOwnList == Spec => []InOwnList
<1>1. IInv => InOwnList
  BY DEF IInv, ListsInOrder, InOrder, Own, InOwnList
<1>2. QED
  BY <1>1, ServerInvariant, PTL

(* While no thread has the write lock every size field is exact and every   *)
(* node has its entry, whatever allocations have failed.                    *)
THEOREM ServerAtRest == Spec => []AtRest
<1>1. IInv => AtRest
  <2> SUFFICES ASSUME IInv, writers = {}, NEW i \in Created(lists)
               PROVE  /\ lists[i].size = Len(lists[i].nodes)
                      /\ \A e \in ToSet(lists[i].nodes) : e.value # Freed
    BY DEF AtRest
  <2>1. i \in Indexes /\ lists[i] # NULL
    BY DEF Created
  <2>2. \A t \in Threads : ~ Writing(t)
    BY DEF IInv, HeldByKind, InLock, Writing
  <2>3. Whole(lists[i])
    BY <2>1, <2>2 DEF IInv, OthersWhole
  <2>4. QED
    BY <2>3 DEF Whole, ToSet
<1>2. QED
  BY <1>1, ServerInvariant, PTL

(* The threads that hold the lock are those in the middle of a handler and  *)
(* those that GETTABLE has ended there.                                     *)
THEOREM ServerLockHeldInUse == Spec => []LockHeldInUse
<1>1. IInv => LockHeldInUse
  <2> SUFFICES ASSUME IInv PROVE LockHeldInUse
    OBVIOUS
  <2>1. \A t \in Threads : pc[t] \in InLock => op[t] \in Writes \/ op[t] \in Reads
    BY InLockKinds, Kinds
  <2>2. QED
    BY <2>1 DEF IInv, HeldByKind, LockHeldInUse, InLock
<1>2. QED
  BY <1>1, ServerInvariant, PTL
---------------------------------------------------------------------------
(* The counters: what table_size adds up is the number of entries.          *)
LEMMA UpTo ==
  ASSUME NEW n \in Nat, NEW S, 0 \in S, \A m \in 0 .. n - 1 : m \in S => m + 1 \in S
  PROVE  \A m \in 0 .. n : m \in S
<1> DEFINE T == {m \in 0 .. n : m \notin S}
<1>1. SUFFICES ASSUME T # {} PROVE FALSE
  OBVIOUS
<1>2. T \subseteq Nat
  OBVIOUS
<1>3. PICK m \in T : \A y \in T : m <= y
  <2> HIDE DEF T
  <2> QED BY <1>1, <1>2, LeastExists
<1>4. m \in 0 .. n /\ m \notin S /\ m # 0
  BY <1>3
<1>5. m - 1 \in 0 .. n - 1 /\ m - 1 \in 0 .. n /\ m - 1 + 1 = m /\ ~ (m <= m - 1)
  BY <1>4
<1>6. m - 1 \in S
  BY <1>3, <1>5
<1>7. QED
  BY <1>4, <1>5, <1>6

Counted(l) == IF l = NULL THEN 0 ELSE l.size

LEMMA TotalsAre ==
  ASSUME NEW ls, \A i \in Indexes : Counted(ls[i]) \in Nat
  PROVE  /\ Totals(ls) \in [0 .. NumLists -> Nat] /\ Totals(ls)[0] = 0
         /\ \A n \in Indexes : Totals(ls)[n + 1] = Totals(ls)[n] + Counted(ls[n])
<1> DEFINE Is(s, n) == /\ s \in [0 .. n -> Nat] /\ s[0] = 0
                       /\ \A i \in 0 .. n - 1 : s[i + 1] = s[i] + Counted(ls[i])
           S == {n \in 0 .. NumLists : \E s : Is(s, n)}
<1>0. NumLists \in Nat /\ NumLists >= 1 /\ Indexes = 0 .. NumLists - 1
  BY TableAssumption DEF Indexes
<1>1. 0 \in S
  <2>1. Is([i \in 0 .. 0 |-> 0], 0)
    OBVIOUS
  <2>2. 0 \in 0 .. NumLists
    BY <1>0
  <2> HIDE DEF Is
  <2>3. QED
    BY <2>1, <2>2
<1>2. ASSUME NEW m \in 0 .. NumLists - 1, m \in S
      PROVE  m + 1 \in S
  <2>1. PICK s : Is(s, m)
    BY <1>2
  <2> DEFINE u == [i \in 0 .. m + 1 |-> IF i = m + 1 THEN s[m] + Counted(ls[m]) ELSE s[i]]
  <2>2. m \in Nat /\ m \in Indexes /\ m + 1 \in 0 .. NumLists /\ s[m] \in Nat /\ Counted(ls[m]) \in Nat
    BY <1>0, <2>1
  <2>3. u \in [0 .. m + 1 -> Nat]
    BY <2>1, <2>2
  <2>4. u[0] = 0
    BY <2>1, <2>2
  <2>5. ASSUME NEW i \in 0 .. m + 1 - 1 PROVE u[i + 1] = u[i] + Counted(ls[i])
    <3>1. CASE i = m
      BY <2>2, <3>1
    <3>2. CASE i # m
      BY <2>1, <2>2, <3>2
    <3>3. QED
      BY <3>1, <3>2
  <2>6. Is(u, m + 1)
    <3> HIDE DEF u
    <3> QED BY <2>3, <2>4, <2>5
  <2> HIDE DEF Is, u
  <2>7. QED
    BY <2>2, <2>6
<1>3. NumLists \in S
  <2> HIDE DEF S
  <2>1. \A m \in 0 .. NumLists - 1 : m \in S => m + 1 \in S
    BY <1>2
  <2>2. \A m \in 0 .. NumLists : m \in S
    BY ONLY <1>0, <1>1, <2>1, UpTo
  <2>3. QED
    BY <1>0, <2>2
<1>4. PICK s : Is(s, NumLists)
  BY <1>3
<1> DEFINE Loop(f) == [n \in 0 .. NumLists |->
                         IF n = 0 THEN 0
                         ELSE f[n - 1] + (IF ls[n - 1] = NULL THEN 0 ELSE ls[n - 1].size)]
<1>5. s = Loop(s)
  <2>1. \A n \in 0 .. NumLists : n # 0 => n - 1 \in 0 .. NumLists - 1 /\ n - 1 + 1 = n
    BY <1>0
  <2>2. \A n \in 0 .. NumLists : s[n] = IF n = 0 THEN 0 ELSE s[n - 1] + Counted(ls[n - 1])
    BY <1>4, <2>1
  <2>3. QED
    BY <1>4, <2>2 DEF Counted
<1>6. Totals(ls) = Loop(Totals(ls))
  BY <1>5, Zenon DEF Totals
<1> HIDE DEF Is, S
<1> DEFINE T == Totals(ls)
<1>7. DOMAIN T = 0 .. NumLists /\ T = [n \in 0 .. NumLists |-> T[n]] /\ T[0] = 0
      /\ \A n \in Indexes : T[n + 1] = T[n] + Counted(ls[n])
  <2> HIDE DEF T
  <2>1. T = Loop(T)
    BY <1>6 DEF T
  <2>2. 0 \in 0 .. NumLists /\ \A n \in Indexes : n + 1 \in 0 .. NumLists /\ n + 1 # 0 /\ n + 1 - 1 = n
    BY <1>0
  <2>3. DOMAIN T = 0 .. NumLists /\ T = [n \in 0 .. NumLists |-> T[n]]
    BY <2>1
  <2>4. \A n \in 0 .. NumLists : T[n] = IF n = 0 THEN 0 ELSE T[n - 1] + Counted(ls[n - 1])
    BY <2>1 DEF Counted
  <2>5. T[0] = 0
    BY <2>2, <2>4
  <2>6. ASSUME NEW n \in Indexes PROVE T[n + 1] = T[n] + Counted(ls[n])
    <3>1. PICK p \in 0 .. NumLists : p = n + 1 /\ p # 0 /\ p - 1 = n
      BY <1>0, <2>2
    <3>2. T[p] = T[p - 1] + Counted(ls[p - 1])
      BY <2>4, <3>1, Zenon
    <3>3. QED
      BY <3>1, <3>2
  <2>7. QED
    BY <2>3, <2>5, <2>6
<1>8. \A n \in 0 .. NumLists : T[n] \in Nat
  <2> HIDE DEF T
  <2> DEFINE R == {n \in 0 .. NumLists : T[n] \in Nat}
  <2>1. 0 \in R /\ \A m \in 0 .. NumLists - 1 : m \in R => m + 1 \in R
    <3>1. 0 \in R
      BY <1>0, <1>7
    <3>2. ASSUME NEW m \in 0 .. NumLists - 1, m \in R PROVE m + 1 \in R
      <4>1. m \in Indexes /\ T[m] \in Nat /\ Counted(ls[m]) \in Nat /\ m + 1 \in 0 .. NumLists
        BY <1>0, <3>2
      <4>2. T[m + 1] = T[m] + Counted(ls[m])
        BY <1>7, <4>1
      <4>3. T[m + 1] \in Nat
        BY <4>1, <4>2
      <4>4. QED
        BY <4>1, <4>3
    <3>3. QED
      BY <3>1, <3>2
  <2>2. \A m \in 0 .. NumLists : m \in R
    <3> HIDE DEF R
    <3> QED BY <1>0, <2>1, UpTo
  <2>3. QED
    BY <2>2
<1>9. QED
  <2> HIDE DEF T
  <2>1. T \in [0 .. NumLists -> Nat]
    BY <1>7, <1>8
  <2>2. QED
    BY <1>7, <2>1 DEF T
---------------------------------------------------------------------------
(* The entries of the table, list by list.                                  *)
HeldUpTo(ls, n) == UNION {Held(ls[i]) : i \in 0 .. n - 1}

Ordered(ls) == \A i \in Indexes : InOrder(ls[i], i)

AllWhole(ls) == \A i \in Indexes : ls[i] = NULL \/ Whole(ls[i])

LEMMA HeldAre ==
  ASSUME NEW i, NEW l, InOrder(l, i)
  PROVE  /\ Held(l) = {l.nodes[n] : n \in 1 .. Len(l.nodes)} /\ Len(l.nodes) \in Nat
         /\ \A e \in Held(l) : e \in Entries /\ e.key \in Keys /\ e.key \in Nat /\ hashValue(e.key) = i
         /\ \A e, f \in Held(l) : e.key = f.key => e = f
         /\ l = NULL \/ Whole(l) => /\ Counted(l) = Len(l.nodes) 
                                    /\ \A e \in Held(l) : e.value \in Vals /\ e.value # Freed
<1>1. l.nodes \in NodeSeqs /\ Sorted(l.nodes) /\ Own(l.nodes, i)
  BY DEF InOrder, ListShapes
<1>2. /\ Len(l.nodes) \in Nat /\ DOMAIN l.nodes = 1 .. Len(l.nodes)
      /\ \A n \in 1 .. Len(l.nodes) : l.nodes[n] \in Entries /\ l.nodes[n].key \in Nat
  BY <1>1, NodesAreEntries
<1>3. Held(l) = {l.nodes[n] : n \in 1 .. Len(l.nodes)}
  BY <1>2 DEF Held, ToSet
<1>4. \A e \in Held(l) : e \in Entries /\ e.key \in Keys /\ e.key \in Nat /\ hashValue(e.key) = i
  <2>1. \A e \in Entries : e.key \in Keys
    BY DEF Entries
  <2>2. QED
    BY <1>1, <1>2, <1>3, <2>1 DEF Own
<1>5. \A m, n \in 1 .. Len(l.nodes) : l.nodes[m].key = l.nodes[n].key => m = n
  <2> SUFFICES ASSUME NEW m \in 1 .. Len(l.nodes), NEW n \in 1 .. Len(l.nodes),
                      l.nodes[m].key = l.nodes[n].key, m # n
               PROVE  FALSE
    OBVIOUS
  <2>1. m < n \/ n < m
    BY <1>2
  <2>2. QED
    BY <1>1, <1>2, <2>1 DEF Sorted
<1>6. \A e, f \in Held(l) : e.key = f.key => e = f
  BY <1>3, <1>5
<1>7. ASSUME l = NULL \/ Whole(l)
      PROVE  Counted(l) = Len(l.nodes) /\ \A e \in Held(l) : e.value \in Vals /\ e.value # Freed
  <2>0. \A e \in Entries : e.value \in Vals \cup {Freed}
    BY DEF Entries
  <2>1. CASE l = NULL
    <3>1. Len(l.nodes) = 0 /\ Counted(l) = 0
      BY <2>1 DEF NULL, Counted
    <3>2. Held(l) = {}
      BY <1>3, <3>1
    <3>3. QED
      BY <3>1, <3>2
  <2>2. CASE l # NULL
    BY <1>2, <1>3, <1>4, <1>7, <2>0, <2>2 DEF Whole, Counted
  <2>3. QED
    BY <2>1, <2>2
<1>8. QED
  BY <1>2, <1>3, <1>4, <1>6, <1>7

(* The places that are counted are those of the entries. *)
LEMMA HeldGrows ==
  ASSUME NEW ls, NEW n \in Nat
  PROVE  HeldUpTo(ls, n + 1) = HeldUpTo(ls, n) \cup Held(ls[n]) /\ HeldUpTo(ls, 0) = {}
<1>1. 0 .. n + 1 - 1 = (0 .. n - 1) \cup {n} /\ 0 .. 0 - 1 = {}
  OBVIOUS
<1>2. QED
  BY <1>1 DEF HeldUpTo

LEMMA EntriesHeld ==
  ASSUME NEW ls
  PROVE  EntriesOf(ls) = HeldUpTo(ls, NumLists) /\ EntriesOf(ls) = UNION {Held(ls[i]) : i \in Indexes}
<1>1. Held(NULL) = {}
  BY DEF NULL, Held, ToSet
<1>2. QED
  BY <1>1 DEF EntriesOf, Created, HeldUpTo, Indexes, Held

(* A key is in one place of the table. *)
LEMMA OneEntry ==
  ASSUME NEW ls, Ordered(ls)
  PROVE  /\ \A e \in EntriesOf(ls) : /\ e \in Entries /\ e.key \in Keys /\ hashValue(e.key) \in Indexes
                                     /\ e \in Held(ls[hashValue(e.key)])
         /\ \A e, f \in EntriesOf(ls) : e.key = f.key => e = f
<1>1. \A e \in EntriesOf(ls) : /\ e \in Entries /\ e.key \in Keys /\ hashValue(e.key) \in Indexes
                               /\ e \in Held(ls[hashValue(e.key)])
  BY EntriesHeld, HeldAre DEF Ordered
<1>2. QED
  BY <1>1, HeldAre DEF Ordered

LEMMA ContentsAre ==
  ASSUME NEW ls, Ordered(ls), NEW k \in Keys
  PROVE  /\ \A e \in EntriesOf(ls) : e.key = k => Contents(ls)[k] = e.value
         /\ ~ (\E e \in EntriesOf(ls) : e.key = k) => Contents(ls)[k] = NoVal
<1>1. Contents(ls)[k] = IF \E e \in EntriesOf(ls) : e.key = k
                        THEN (CHOOSE e \in EntriesOf(ls) : e.key = k).value ELSE NoVal
  BY DEF Contents
<1>2. ASSUME NEW e \in EntriesOf(ls), e.key = k
      PROVE  (CHOOSE x \in EntriesOf(ls) : x.key = k) = e
  <2>1. (CHOOSE x \in EntriesOf(ls) : x.key = k) \in EntriesOf(ls)
        /\ (CHOOSE x \in EntriesOf(ls) : x.key = k).key = k
    BY <1>2, Zenon
  <2>2. QED
    BY <1>2, <2>1, OneEntry
<1>3. QED
  BY <1>1, <1>2

LEMMA WholeContents ==
  ASSUME NEW ls, Ordered(ls), AllWhole(ls)
  PROVE  /\ Contents(ls) \in Tables /\ \A k \in Keys : Contents(ls)[k] # Freed
         /\ Present(Contents(ls)) = {e.key : e \in EntriesOf(ls)}
<1>1. \A e \in EntriesOf(ls) : e.key \in Keys /\ e.value \in Vals /\ e.value # Freed
  BY OneEntry, HeldAre DEF Ordered, AllWhole
<1>2. \A k \in Keys :
         \/ (\E e \in EntriesOf(ls) : e.key = k) /\ Contents(ls)[k] \in Vals /\ Contents(ls)[k] # Freed
         \/ (~ \E e \in EntriesOf(ls) : e.key = k) /\ Contents(ls)[k] = NoVal
  BY <1>1, ContentsAre
<1>3. NoVal \notin Vals /\ NoVal # Freed
  BY ValuesAssumption, TableAssumption
<1>4. Contents(ls) = [k \in Keys |-> Contents(ls)[k]]
  BY DEF Contents
<1>5. Contents(ls) \in Tables /\ \A k \in Keys : Contents(ls)[k] # Freed
  BY <1>2, <1>3, <1>4 DEF Tables
<1>6. QED
  BY <1>1, <1>2, <1>3, <1>5 DEF Present

(* table_size is the number of keys in the table. *)
LEMMA KeysOfList ==
  ASSUME NEW i, NEW l, InOrder(l, i)
  PROVE  /\ IsFiniteSet({e.key : e \in Held(l)})
         /\ Cardinality({e.key : e \in Held(l)}) = Len(l.nodes)
<1> DEFINE f == [n \in 1 .. Len(l.nodes) |-> l.nodes[n].key]
           S == {e.key : e \in Held(l)}
<1>1. /\ Len(l.nodes) \in Nat /\ Held(l) = {l.nodes[n] : n \in 1 .. Len(l.nodes)}
      /\ \A n \in 1 .. Len(l.nodes) : l.nodes[n].key \in Nat
      /\ \A m, n \in 1 .. Len(l.nodes) : m < n => l.nodes[m].key < l.nodes[n].key
  BY HeldAre, NodesAreEntries DEF InOrder, ListShapes, Sorted
<1>2. \A m, n \in 1 .. Len(l.nodes) : l.nodes[m].key = l.nodes[n].key => m = n
  BY <1>1
<1>3. f \in Bijection(1 .. Len(l.nodes), S)
  <2>1. S = {f[n] : n \in 1 .. Len(l.nodes)}
    BY <1>1
  <2>2. \A m, n \in 1 .. Len(l.nodes) : f[m] = f[n] => m = n
    BY <1>2
  <2>3. f = [n \in 1 .. Len(l.nodes) |-> f[n]]
    OBVIOUS
  <2> HIDE DEF f, S
  <2>4. f \in [1 .. Len(l.nodes) -> S]
    BY <2>1, <2>3
  <2>5. QED
    BY <2>1, <2>2, <2>4 DEF Bijection, Injection, Surjection, IsInjective
<1>4. IsFiniteSet(1 .. Len(l.nodes)) /\ Cardinality(1 .. Len(l.nodes)) = Len(l.nodes)
  BY <1>1, FS_Interval
<1>5. QED
  <2> HIDE DEF f, S
  <2>1. ExistsBijection(1 .. Len(l.nodes), S)
    BY <1>3 DEF ExistsBijection
  <2>2. IsFiniteSet(S) /\ Cardinality(S) = Len(l.nodes)
    BY <1>4, <2>1, FS_Bijection
  <2>3. QED
    BY <2>2 DEF S

KeysUpTo(ls, n) == {e.key : e \in HeldUpTo(ls, n)}

LEMMA CountedNat ==
  ASSUME NEW ls, Ordered(ls), AllWhole(ls)
  PROVE  \A i \in Indexes : Counted(ls[i]) \in Nat /\ Counted(ls[i]) = Len(ls[i].nodes)
  BY HeldAre DEF Ordered, AllWhole

LEMMA TotalKeys ==
  ASSUME NEW ls, Ordered(ls), AllWhole(ls)
  PROVE  \A n \in 0 .. NumLists : /\ IsFiniteSet(KeysUpTo(ls, n))
                                  /\ Cardinality(KeysUpTo(ls, n)) = Totals(ls)[n]
<1> DEFINE S == {n \in 0 .. NumLists : /\ IsFiniteSet(KeysUpTo(ls, n))
                                       /\ Cardinality(KeysUpTo(ls, n)) = Totals(ls)[n]}
<1>0. NumLists \in Nat /\ Indexes = 0 .. NumLists - 1
  BY TableAssumption DEF Indexes
<1>1. /\ Totals(ls)[0] = 0
      /\ \A n \in Indexes : Totals(ls)[n + 1] = Totals(ls)[n] + Counted(ls[n])
  BY CountedNat, TotalsAre
<1>2. 0 \in S
  <2>1. KeysUpTo(ls, 0) = {}
    BY HeldGrows DEF KeysUpTo
  <2>2. IsFiniteSet({}) /\ Cardinality({}) = 0
    BY FS_EmptySet
  <2>3. QED
    BY <1>0, <1>1, <2>1, <2>2
<1>3. ASSUME NEW m \in 0 .. NumLists - 1, m \in S PROVE m + 1 \in S
  <2> DEFINE A == KeysUpTo(ls, m)
             B == {e.key : e \in Held(ls[m])}
  <2>1. m \in Nat /\ m \in Indexes /\ m + 1 \in 0 .. NumLists
    BY <1>0
  <2>2. KeysUpTo(ls, m + 1) = A \cup B
    BY <2>1, HeldGrows DEF KeysUpTo
  <2>3. A \cap B = {}
    <3> SUFFICES ASSUME NEW e \in HeldUpTo(ls, m), NEW f \in Held(ls[m]), e.key = f.key PROVE FALSE
      BY DEF KeysUpTo
    <3>1. PICK i \in 0 .. m - 1 : e \in Held(ls[i])
      BY DEF HeldUpTo
    <3>2. i \in Indexes /\ i # m
      BY <1>0, <2>1
    <3>3. hashValue(e.key) = i /\ hashValue(f.key) = m
      BY <2>1, <3>1, <3>2, HeldAre DEF Ordered
    <3>4. QED
      BY <3>2, <3>3
  <2>4. IsFiniteSet(A) /\ Cardinality(A) = Totals(ls)[m]
    BY <1>3
  <2>5. IsFiniteSet(B) /\ Cardinality(B) = Counted(ls[m])
    BY <2>1, KeysOfList, CountedNat DEF Ordered
  <2> HIDE DEF A, B, S
  <2>6. IsFiniteSet(A \cup B) /\ Cardinality(A \cup B) = Cardinality(A) + Cardinality(B)
    <3>1. IsFiniteSet(A \cup B) /\ Cardinality(A \cup B) = Cardinality(A) + Cardinality(B) - Cardinality(A \cap B)
      BY <2>4, <2>5, FS_Union
    <3>2. Cardinality(A \cap B) = 0
      BY <2>3, FS_EmptySet
    <3>3. Cardinality(A) \in Nat /\ Cardinality(B) \in Nat
      BY <2>4, <2>5, FS_CardinalityType
    <3>4. QED
      BY <3>1, <3>2, <3>3
  <2>7. Cardinality(A \cup B) = Totals(ls)[m + 1]
    BY <1>1, <2>1, <2>4, <2>5, <2>6
  <2>8. QED
    BY <2>1, <2>2, <2>6, <2>7 DEF S
<1>4. \A n \in 0 .. NumLists : n \in S
  <2> HIDE DEF S
  <2>1. \A m \in 0 .. NumLists - 1 : m \in S => m + 1 \in S
    BY <1>3
  <2>2. QED
    BY ONLY <1>0, <1>2, <2>1, UpTo
<1>5. QED
  BY <1>4

LEMMA SizeIsRight ==
  ASSUME NEW ls, Ordered(ls), AllWhole(ls)
  PROVE  table_size(ls) = Cardinality(Present(Contents(ls))) /\ table_size(ls) \in Nat
<1>1. NumLists \in 0 .. NumLists
  BY TableAssumption
<1>2. Present(Contents(ls)) = KeysUpTo(ls, NumLists)
  BY WholeContents, EntriesHeld DEF KeysUpTo
<1>3. QED
  BY <1>1, <1>2, TotalKeys, CountedNat, TotalsAre DEF table_size

(* What a search finds. *)
LEMMA SearchFinds ==
  ASSUME NEW ls, Ordered(ls), NEW k \in Keys, hashValue(k) \in Indexes
  PROVE  LET l == ls[hashValue(k)] IN
         IF l # NULL /\ StopsAt(l.nodes, k)
         THEN \E e \in EntriesOf(ls) : e.key = k /\ list_get(l, k) = e.value
         ELSE \A e \in EntriesOf(ls) : e.key # k
<1> DEFINE l == ls[hashValue(k)]
           n == Passed(l.nodes, k)
<1>1. /\ InOrder(l, hashValue(k)) /\ l.nodes \in NodeSeqs /\ Sorted(l.nodes) /\ k \in Nat
  BY TableAssumption DEF Ordered, InOrder, ListShapes
<1>2. /\ n \in 0 .. Len(l.nodes) /\ Len(l.nodes) \in Nat /\ DOMAIN l.nodes = 1 .. Len(l.nodes)
      /\ Held(l) = {l.nodes[j] : j \in 1 .. Len(l.nodes)}
  BY <1>1, PassedIs, NodesAreEntries, HeldAre
<1>3. \A e \in EntriesOf(ls) : e.key = k => e \in Held(l)
  BY OneEntry
<1>4. Held(l) \subseteq EntriesOf(ls)
  BY EntriesHeld
<1>5. CASE l # NULL /\ StopsAt(l.nodes, k)
  <2>1. n + 1 \in 1 .. Len(l.nodes) /\ l.nodes[n + 1].key = k
    BY <1>2, <1>5 DEF StopsAt
  <2>2. l.nodes[n + 1] \in EntriesOf(ls)
    BY <1>2, <1>4, <2>1
  <2>3. list_get(l, k) = l.nodes[n + 1].value
    BY <1>5 DEF list_get
  <2> HIDE DEF n, l
  <2>4. QED
    BY <1>5, <2>1, <2>2, <2>3 DEF l
<1>6. CASE ~ (l # NULL /\ StopsAt(l.nodes, k))
  <2> SUFFICES ASSUME NEW e \in EntriesOf(ls), e.key = k PROVE FALSE
    BY <1>6
  <2>1. PICK p \in 1 .. Len(l.nodes) : l.nodes[p].key = k
    BY <1>2, <1>3
  <2>2. n + 1 = p
    BY <1>1, <1>2, <2>1, FoundAt
  <2>3. n < Len(l.nodes) /\ l.nodes[n + 1].key = k
    BY <1>2, <2>1, <2>2
  <2>4. l # NULL
    <3>1. Len(NULL.nodes) = 0
      BY DEF NULL
    <3>2. QED
      <4> HIDE DEF l
      <4> QED BY <1>2, <2>1, <3>1
  <2>5. QED
    BY <1>6, <2>3, <2>4 DEF StopsAt
<1>7. QED
  BY <1>5, <1>6

(* A change at a key of one list changes the table at that key. *)
LEMMA OtherKeysStay ==
  ASSUME NEW ls, NEW ms, Ordered(ls), Ordered(ms), NEW i \in Indexes, NEW k,
         OnlyAt(ls[i], ms[i], k), \A j \in Indexes : j # i => ms[j] = ls[j]
  PROVE  \A x \in Keys : x # k => Contents(ms)[x] = Contents(ls)[x]
<1>1. \A e \in Entries : e.key # k => (e \in EntriesOf(ls) <=> e \in EntriesOf(ms))
  BY EntriesHeld DEF OnlyAt
<1>2. SUFFICES ASSUME NEW x \in Keys, x # k PROVE Contents(ms)[x] = Contents(ls)[x]
  OBVIOUS
<1>3. CASE \E e \in EntriesOf(ls) : e.key = x
  BY <1>1, <1>2, <1>3, OneEntry, ContentsAre
<1>4. CASE ~ \E e \in EntriesOf(ls) : e.key = x
  <2>1. ~ \E e \in EntriesOf(ms) : e.key = x
    BY <1>1, <1>2, <1>4, OneEntry
  <2>2. QED
    BY <1>4, <2>1, ContentsAre
<1>5. QED
  BY <1>3, <1>4
---------------------------------------------------------------------------
(* The arrays of GETKEYS and GETTABLE.                                      *)
Looking(t) == pc[t] = "half" /\ op[t] \in Reads

Copying(t) == pc[t] = "half" /\ op[t].type \in CopyTypes

Filling(t) == /\ room[t] = Totals(lists)[NumLists] + 1
              /\ Len(copied[t]) = Totals(lists)[visited[t]]
              /\ ToSet(copied[t]) = HeldUpTo(lists, visited[t])

NoArray(t) == room[t] = 0 /\ copied[t] = <<>> /\ visited[t] = 0

CopyTyped == /\ room \in [Threads -> Nat]
             /\ copied \in [Threads -> Seq(Entries)]
             /\ visited \in [Threads -> 0 .. NumLists]

(* What a reader in the middle of a handler has seen is still so. *)
CopyInv == /\ CopyTyped
           /\ \A t \in Threads : /\ Copying(t) => Filling(t)
                                 /\ ~ Copying(t) => NoArray(t)
                                 /\ pc[t] = "half" /\ op[t].type = "get" => Found(t)

(* A reader sees the table at rest. *)
LEMMA ReaderSees ==
  ASSUME IInv, NEW t \in Threads, pc[t] \in InLock, op[t] \in Reads
  PROVE  AllWhole(lists) /\ Ordered(lists) /\ writers = {} /\ \A u \in Threads : ~ Writing(u)
<1>1. t \in readers
  BY DEF IInv, HeldByKind
<1>2. writers = {}
  BY <1>1 DEF IInv, HeldByKind
<1>3. \A u \in Threads : ~ Writing(u)
  BY <1>2 DEF IInv, HeldByKind, InLock, Writing
<1>4. QED
  BY <1>2, <1>3 DEF IInv, OthersWhole, ListsInOrder, AllWhole, Ordered

(* A writer finds nobody looking. *)
LEMMA WriterAlone ==
  ASSUME IInv, NEW t \in Threads, pc[t] \in InLock, op[t] \in Writes
  PROVE  \A u \in Threads : /\ ~ Looking(u) /\ (u # t => ~ Writing(u))
                            /\ u # t => ~ (pc[u] \in InLock)
<1>1. t \in writers
  BY DEF IInv, HeldByKind
<1>2. readers = {} /\ writers = {t}
  BY <1>1 DEF IInv, HeldByKind
<1>3. \A u \in Threads : pc[u] \in InLock => op[u] \in Reads \cup Writes
  BY InLockKinds DEF Ops
<1>4. QED
  BY <1>2, <1>3 DEF IInv, HeldByKind, InLock, Writing, Looking

LEMMA LookingIs ==
  ASSUME IInv, NEW t \in Threads
  PROVE  /\ Copying(t) => Looking(t)
         /\ pc[t] = "half" /\ op[t].type = "get" => Looking(t)
  BY InLockKinds DEF Copying, Looking, CopyTypes, InLock

(* A step that nobody in the middle of a read can notice. *)
LEMMA CopyQuiet ==
  ASSUME IInv, IInv', CopyInv, NEW t \in Threads, UNCHANGED copyVars,
         \A u \in Threads : u # t => pc'[u] = pc[u] /\ op'[u] = op[u],
         ~ Copying(t), ~ Copying(t)', pc'[t] = "half" /\ op'[t].type = "get" => Found(t)',
         UNCHANGED lists \/ \A u \in Threads : ~ Looking(u)
  PROVE  CopyInv'
<1>1. CopyTyped'
  BY DEF CopyInv, CopyTyped, copyVars
<1>2. ASSUME NEW u \in Threads
      PROVE  /\ Copying(u)' => Filling(u)'
             /\ ~ Copying(u)' => NoArray(u)'
             /\ pc'[u] = "half" /\ op'[u].type = "get" => Found(u)'
  <2>1. Copying(u)' <=> Copying(u)
    BY DEF Copying
  <2>2. NoArray(u)' <=> NoArray(u)
    BY DEF NoArray, copyVars
  <2>3. CASE UNCHANGED lists
    <3>1. Filling(u)' <=> Filling(u)
      BY <2>3 DEF Filling, copyVars
    <3>2. u # t => (Found(u)' <=> Found(u))
      BY <2>3 DEF Found, ListOf
    <3>3. QED
      BY <2>1, <2>2, <3>1, <3>2 DEF CopyInv
  <2>4. CASE \A v \in Threads : ~ Looking(v)
    <3>1. ~ Copying(u) /\ (u # t => ~ (pc[u] = "half" /\ op[u].type = "get"))
      BY <2>4, LookingIs
    <3>2. QED
      BY <2>1, <2>2, <3>1 DEF CopyInv
  <2>5. QED
    BY <2>3, <2>4
<1>3. QED
  BY <1>1, <1>2 DEF CopyInv

(* The running totals grow up to table_size. *)
LEMMA TotalsGrow ==
  ASSUME NEW ls, \A i \in Indexes : Counted(ls[i]) \in Nat, NEW v \in 0 .. NumLists
  PROVE  Totals(ls)[v] <= Totals(ls)[NumLists] /\ Totals(ls)[v] \in Nat /\ Totals(ls)[NumLists] \in Nat
<1> DEFINE T == Totals(ls)
           S == {m \in 0 .. NumLists - v : T[v] <= T[v + m]}
<1>0. NumLists \in Nat /\ Indexes = 0 .. NumLists - 1 /\ NumLists - v \in Nat /\ v + (NumLists - v) = NumLists
  BY TableAssumption DEF Indexes
<1>1. T \in [0 .. NumLists -> Nat] /\ \A n \in Indexes : T[n + 1] = T[n] + Counted(ls[n])
  BY TotalsAre
<1> HIDE DEF T
<1>2. 0 \in S
  BY <1>0, <1>1
<1>3. ASSUME NEW m \in 0 .. (NumLists - v) - 1, m \in S PROVE m + 1 \in S
  <2>1. m \in Nat /\ v + m \in Indexes /\ v + m \in 0 .. NumLists /\ m + 1 \in 0 .. NumLists - v
        /\ v + (m + 1) = (v + m) + 1 /\ v + (m + 1) \in 0 .. NumLists
    BY <1>0
  <2>2. T[(v + m) + 1] = T[v + m] + Counted(ls[v + m]) /\ Counted(ls[v + m]) \in Nat
    BY <1>1, <2>1
  <2>3. T[v] \in Nat /\ T[v + m] \in Nat /\ T[v] <= T[v + m]
    BY <1>1, <1>3, <2>1
  <2>4. T[v] <= T[v + (m + 1)]
    BY <2>1, <2>2, <2>3
  <2>5. QED
    BY <2>1, <2>4
<1>4. \A m \in 0 .. NumLists - v : m \in S
  <2> HIDE DEF S
  <2>1. \A m \in 0 .. (NumLists - v) - 1 : m \in S => m + 1 \in S
    BY <1>3
  <2>2. QED
    BY ONLY <1>0, <1>2, <2>1, UpTo
<1>5. T[v] <= T[v + (NumLists - v)]
  BY <1>0, <1>4
<1>6. QED
  BY <1>0, <1>1, <1>5 DEF T

LEMMA Concatenated ==
  ASSUME NEW a \in NodeSeqs, NEW b \in NodeSeqs
  PROVE  a \o b \in NodeSeqs /\ Len(a \o b) = Len(a) + Len(b) /\ ToSet(a \o b) = ToSet(a) \cup ToSet(b)
<1>1. Len(a) \in Nat /\ Len(b) \in Nat /\ DOMAIN a = 1 .. Len(a) /\ DOMAIN b = 1 .. Len(b)
  BY LenProperties DEF NodeSeqs
<1>2. /\ a \o b \in NodeSeqs /\ Len(a \o b) = Len(a) + Len(b)
      /\ \A j \in 1 .. Len(a) + Len(b) : (a \o b)[j] = IF j <= Len(a) THEN a[j] ELSE b[j - Len(a)]
  BY ConcatProperties DEF NodeSeqs
<1>3. DOMAIN (a \o b) = 1 .. Len(a) + Len(b)
  BY <1>2, LenProperties DEF NodeSeqs
<1> DEFINE c == a \o b
<1> HIDE DEF c
<1>4. \A j \in 1 .. Len(a) : j \in DOMAIN c /\ c[j] = a[j]
  BY <1>1, <1>2, <1>3 DEF c
<1>5. \A j \in 1 .. Len(b) : Len(a) + j \in DOMAIN c /\ c[Len(a) + j] = b[j]
  BY <1>1, <1>2, <1>3 DEF c
<1>6. \A j \in DOMAIN c : c[j] \in ToSet(a) \cup ToSet(b)
  <2>1. \A j \in DOMAIN c : j \in 1 .. Len(a) \/ (j - Len(a) \in 1 .. Len(b) /\ c[j] = b[j - Len(a)])
    BY <1>1, <1>2, <1>3 DEF c
  <2>2. QED
    BY <1>1, <1>4, <2>1 DEF ToSet
<1>7. ToSet(c) = ToSet(a) \cup ToSet(b)
  BY <1>1, <1>4, <1>5, <1>6 DEF ToSet
<1>8. QED
  BY <1>2, <1>7 DEF c
---------------------------------------------------------------------------
LEMMA WriteCopies ==
  ASSUME IInv, IInv', CopyInv, NEW t \in Threads,
         \/ PutFirst(t) \/ PutSecond(t) \/ PutNewList(t) \/ PutFails(t) \/ PutIgnoresFailure(t)
         \/ DelFirst(t) \/ DelSecond(t) \/ DelAbsent(t)
  PROVE  CopyInv'
<1>1. /\ UNCHANGED copyVars /\ UNCHANGED op /\ pc[t] \in InLock /\ op[t].type \in {"put", "del"}
      /\ \E to \in InLock : pc' = [pc EXCEPT ![t] = to]
  BY DEF PutFirst, PutSecond, PutNewList, PutFails, PutIgnoresFailure, DelFirst, DelSecond, DelAbsent,
         Serving, Goto, InLock, lockVars, copyVars
<1>2. op[t] \in Writes
  BY <1>1, InLockKinds
<1>3. \A u \in Threads : ~ Looking(u)
  BY <1>1, <1>2, WriterAlone
<1>4. \A u \in Threads : u # t => pc'[u] = pc[u] /\ op'[u] = op[u]
  BY <1>1 DEF IInv, RequestsOK
<1>5. ~ Copying(t) /\ ~ Copying(t)' /\ op'[t].type # "get"
  BY <1>1 DEF Copying, CopyTypes
<1>6. QED
  BY <1>1, <1>3, <1>4, <1>5, CopyQuiet

LEMMA GetCopiesKeeps ==
  ASSUME IInv, IInv', CopyInv, NEW t \in Threads,
         GetFinds(t) \/ GetCopies(t) \/ GetAbsent(t) \/ GetFails(t) \/ Size(t) \/ ArrayFails(t)
  PROVE  CopyInv'
<1>1. /\ UNCHANGED copyVars /\ UNCHANGED <<lists, op>> /\ pc[t] \in InLock
      /\ \E to \in InLock : pc' = [pc EXCEPT ![t] = to]
      /\ \/ op[t].type \in {"get", "size"}
         \/ pc[t] = "inside" /\ pc' = [pc EXCEPT ![t] = "done"]
  BY DEF GetFinds, GetCopies, GetAbsent, GetFails, Size, ArrayFails,
         Serving, Goto, InLock, lockVars, copyVars
<1>2. \A u \in Threads : u # t => pc'[u] = pc[u] /\ op'[u] = op[u]
  BY <1>1 DEF IInv, RequestsOK
<1>3. ~ Copying(t) /\ ~ Copying(t)'
  BY <1>1 DEF Copying, CopyTypes, IInv, RequestsOK
<1>4. pc'[t] = "half" /\ op'[t].type = "get" => Found(t)'
  <2>1. CASE GetFinds(t)
    BY <1>1, <2>1 DEF GetFinds, Found, ListOf
  <2>2. CASE ~ GetFinds(t)
    <3>1. pc' = [pc EXCEPT ![t] = "done"]
      BY <2>2 DEF GetCopies, GetAbsent, GetFails, Size, ArrayFails, Serving, Goto
    <3>2. QED
      BY <3>1 DEF IInv, RequestsOK
  <2>3. QED
    BY <2>1, <2>2
<1>5. QED
  BY <1>1, <1>2, <1>3, <1>4, CopyQuiet

LEMMA OutsideCopies ==
  ASSUME IInv, IInv', CopyInv, NEW t \in Threads,
         \/ Receive(t) \/ Return(t) \/ StartWrite(t) \/ StartRead(t) \/ EndWrite(t) \/ EndRead(t)
  PROVE  CopyInv'
<1>1. /\ UNCHANGED copyVars /\ UNCHANGED lists /\ pc[t] # "half"
      /\ \E to \in PCs : to # "half" /\ pc' = [pc EXCEPT ![t] = to]
  BY DEF Receive, Return, StartWrite, StartRead, EndWrite, EndRead, Goto, PCs
<1>2. \A u \in Threads : u # t => pc'[u] = pc[u] /\ op'[u] = op[u]
  BY <1>1 DEF Receive, Return, StartWrite, StartRead, EndWrite, EndRead, IInv, RequestsOK
<1>3. pc'[t] # "half"
  BY <1>1 DEF IInv, RequestsOK
<1>4. ~ Copying(t) /\ ~ Copying(t)'
  BY <1>1, <1>3 DEF Copying
<1>5. QED
  BY <1>1, <1>2, <1>3, <1>4, CopyQuiet

(* A step of a thread that fills an array. *)
LEMMA ArrayMove ==
  ASSUME IInv, CopyInv, NEW t \in Threads, UNCHANGED lists,
         \A u \in Threads : u # t => /\ pc'[u] = pc[u] /\ op'[u] = op[u]
                                     /\ room'[u] = room[u] /\ copied'[u] = copied[u]
                                     /\ visited'[u] = visited[u],
         CopyTyped', IF Copying(t)' THEN Filling(t)' ELSE NoArray(t)',
         ~ (pc'[t] = "half" /\ op'[t].type = "get")
  PROVE  CopyInv'
<1>1. ASSUME NEW u \in Threads, u # t
      PROVE  /\ Copying(u)' <=> Copying(u)
             /\ Filling(u)' <=> Filling(u)
             /\ NoArray(u)' <=> NoArray(u)
             /\ Found(u)' <=> Found(u)
  BY <1>1 DEF Copying, Filling, NoArray, Found, ListOf
<1>2. ASSUME NEW u \in Threads
      PROVE  /\ Copying(u)' => Filling(u)'
             /\ ~ Copying(u)' => NoArray(u)'
             /\ pc'[u] = "half" /\ op'[u].type = "get" => Found(u)'
  <2>1. CASE u = t
    BY <2>1
  <2>2. CASE u # t
    BY <1>1, <2>2 DEF CopyInv
  <2>3. QED
    BY <2>1, <2>2
<1>3. QED
  BY <1>2 DEF CopyInv

(* AllocateArray, SendArray and EntryFails. *)
LEMMA ArrayComesAndGoes ==
  ASSUME IInv, IInv', CopyInv, NEW t \in Threads, AllocateArray(t) \/ SendArray(t) \/ EntryFails(t)
  PROVE  CopyInv'
<1>0. /\ pc \in [Threads -> PCs] /\ op \in [Threads -> Ops \cup {None}] /\ CopyTyped
      /\ NumLists \in Nat /\ 0 \in 0 .. NumLists
  BY TableAssumption DEF IInv, RequestsOK, CopyInv
<1>1. CASE AllocateArray(t)
  <2>1. /\ pc[t] = "inside" /\ op[t].type \in CopyTypes /\ pc' = [pc EXCEPT ![t] = "half"]
        /\ room' = [room EXCEPT ![t] = table_size(lists) + 1] /\ UNCHANGED <<lists, op, copied, visited>>
    BY <1>1 DEF AllocateArray, Goto
  <2>2. op[t] \in Reads
    BY <2>1, InLockKinds DEF InLock, CopyTypes
  <2>3. AllWhole(lists) /\ Ordered(lists)
    BY <2>1, <2>2, ReaderSees DEF InLock
  <2>4. table_size(lists) \in Nat /\ table_size(lists) = Totals(lists)[NumLists] /\ Totals(lists)[0] = 0
    BY <2>3, SizeIsRight, CountedNat, TotalsAre DEF table_size
  <2>5. CopyTyped'
    BY <1>0, <2>1, <2>4 DEF CopyTyped
  <2>6. \A u \in Threads : u # t => /\ pc'[u] = pc[u] /\ op'[u] = op[u]
                                    /\ room'[u] = room[u] /\ copied'[u] = copied[u]
                                    /\ visited'[u] = visited[u]
    BY <1>0, <2>1 DEF CopyTyped
  <2>7. NoArray(t)
    BY <2>1 DEF CopyInv, Copying
  <2>8. Copying(t)' /\ op'[t].type # "get"
    BY <1>0, <2>1 DEF Copying, CopyTypes
  <2>9. Filling(t)'
    <3>1. Len(<<>>) = 0 /\ ToSet(<<>>) = {} /\ HeldUpTo(lists, 0) = {}
      BY HeldGrows DEF ToSet
    <3>2. copied'[t] = <<>> /\ visited'[t] = 0 /\ room'[t] = Totals(lists)[NumLists] + 1
      BY <1>0, <2>1, <2>4, <2>7 DEF NoArray, CopyTyped
    <3>3. QED
      BY <2>1, <2>4, <3>1, <3>2 DEF Filling
  <2>10. QED
    BY <2>1, <2>5, <2>6, <2>8, <2>9, ArrayMove
<1>2. CASE SendArray(t) \/ EntryFails(t)
  <2>1. /\ \E to \in {"done", "gone"} : pc' = [pc EXCEPT ![t] = to]
        /\ \A u \in Threads : u # t => op'[u] = op[u]
        /\ LeaveArray(t) /\ UNCHANGED lists
    BY <1>0, <1>2 DEF SendArray, EntryFails, Serving, Goto
  <2>2. CopyTyped'
    BY <1>0, <2>1 DEF CopyTyped, LeaveArray
  <2>3. \A u \in Threads : u # t => /\ pc'[u] = pc[u] /\ op'[u] = op[u]
                                    /\ room'[u] = room[u] /\ copied'[u] = copied[u]
                                    /\ visited'[u] = visited[u]
    BY <1>0, <2>1 DEF CopyTyped, LeaveArray
  <2>4. pc'[t] # "half" /\ ~ Copying(t)'
    BY <1>0, <2>1 DEF Copying
  <2>5. NoArray(t)'
    BY <1>0, <2>1 DEF NoArray, LeaveArray, CopyTyped
  <2>6. QED
    BY <2>1, <2>2, <2>3, <2>4, <2>5, ArrayMove
<1>3. QED
  BY <1>1, <1>2

LEMMA CopyListCopies ==
  ASSUME IInv, IInv', CopyInv, NEW t \in Threads, CopyList(t)
  PROVE  CopyInv'
<1> DEFINE v == visited[t]
<1>0. /\ pc \in [Threads -> PCs] /\ op \in [Threads -> Ops \cup {None}] /\ CopyTyped
      /\ NumLists \in Nat /\ v \in 0 .. NumLists
  BY TableAssumption DEF IInv, RequestsOK, CopyInv, CopyTyped
<1>1. /\ pc[t] = "half" /\ op[t].type \in CopyTypes /\ v < NumLists
      /\ copied' = [copied EXCEPT ![t] = copied[t] \o lists[v].nodes]
      /\ visited' = [visited EXCEPT ![t] = v + 1] /\ UNCHANGED <<lists, pc, op, room>>
  BY DEF CopyList
<1>2. Copying(t) /\ Copying(t)' /\ op'[t].type # "get"
  BY <1>1 DEF Copying, CopyTypes
<1>3. AllWhole(lists) /\ Ordered(lists)
  BY <1>1, <1>2, LookingIs, ReaderSees DEF Looking, InLock
<1>4. v \in Indexes /\ v \in Nat /\ v + 1 \in 0 .. NumLists
  BY <1>0, <1>1 DEF Indexes
<1>5. copied[t] \in NodeSeqs /\ lists[v].nodes \in NodeSeqs
  BY <1>0, <1>3, <1>4 DEF Ordered, InOrder, ListShapes, CopyTyped, NodeSeqs
<1> DEFINE c == copied[t] \o lists[v].nodes
<1>6. c \in NodeSeqs /\ Len(c) = Len(copied[t]) + Len(lists[v].nodes) /\ ToSet(c) = ToSet(copied[t]) \cup Held(lists[v])
  BY <1>5, Concatenated DEF Held
<1>7. /\ Totals(lists)[v + 1] = Totals(lists)[v] + Len(lists[v].nodes)
      /\ HeldUpTo(lists, v + 1) = HeldUpTo(lists, v) \cup Held(lists[v])
  BY <1>3, <1>4, CountedNat, TotalsAre, HeldGrows
<1> HIDE DEF c
<1>8. copied' = [copied EXCEPT ![t] = c]
  BY <1>1 DEF c
<1> HIDE DEF v
<1>9. CopyTyped'
  BY <1>0, <1>1, <1>4, <1>6, <1>8 DEF CopyTyped, NodeSeqs
<1>10. \A u \in Threads : u # t => /\ pc'[u] = pc[u] /\ op'[u] = op[u]
                                   /\ room'[u] = room[u] /\ copied'[u] = copied[u]
                                   /\ visited'[u] = visited[u]
  BY <1>0, <1>1, <1>8 DEF CopyTyped
<1>11. copied'[t] = c /\ visited'[t] = v + 1 /\ room'[t] = room[t]
  BY <1>0, <1>1, <1>8 DEF CopyTyped
<1>12. Filling(t)'
  <2>1. Filling(t)
    BY <1>2 DEF CopyInv
  <2>2. room[t] = Totals(lists)[NumLists] + 1 /\ Len(copied[t]) = Totals(lists)[v] /\ ToSet(copied[t]) = HeldUpTo(lists, v)
    BY <2>1 DEF Filling, v
  <2>3. lists' = lists
    BY <1>1
  <2>4. QED
    BY <1>6, <1>7, <1>11, <2>2, <2>3 DEF Filling
<1>13. QED
  BY <1>1, <1>2, <1>9, <1>10, <1>12, ArrayMove

LEMMA CopyHolds == Spec => [](IInv /\ CopyInv)
<1>1. Init => CopyInv
  BY TableAssumption DEF Init, CopyInv, CopyTyped, Copying, NoArray
<1>2. IInv /\ IInv' /\ CopyInv /\ [Next]_vars => CopyInv'
  <2>1. ASSUME IInv, IInv', CopyInv, NEW t \in Threads,
               \/ Receive(t) \/ StartWrite(t) \/ StartRead(t)
               \/ Handle(t) \/ OutOfMemory(t)
               \/ EndWrite(t) \/ EndRead(t) \/ Return(t)
        PROVE  CopyInv'
    BY <2>1, WriteCopies, GetCopiesKeeps, OutsideCopies, ArrayComesAndGoes, CopyListCopies
    DEF Handle, OutOfMemory
  <2>2. ASSUME CopyInv, UNCHANGED vars PROVE CopyInv'
    <3>1. UNCHANGED <<lists, pc, op, room, copied, visited>>
      BY <2>2 DEF vars, copyVars
    <3>2. \A u \in Threads : /\ Copying(u)' <=> Copying(u)
                             /\ Filling(u)' <=> Filling(u)
                             /\ NoArray(u)' <=> NoArray(u)
                             /\ Found(u)' <=> Found(u)
      BY <3>1 DEF Copying, Filling, NoArray, Found, ListOf
    <3>3. QED
      BY <2>2, <3>1, <3>2 DEF CopyInv, CopyTyped
  <2>3. QED
    BY <2>1, <2>2 DEF Next
<1>3. QED
  BY <1>1, <1>2, ServerInvariant, PTL DEF Spec

(* The size field of a list is never below zero, not even in the middle of  *)
(* a change, and what the threads and the arrays hold has its type.         *)
THEOREM ServerTypes == Spec => []TypeOK
<1>1. IInv /\ CopyInv => TypeOK
  <2> SUFFICES ASSUME IInv, CopyInv PROVE TypeOK
    OBVIOUS
  <2>1. ASSUME NEW i \in Created(lists)
        PROVE  lists[i].nodes \in Seq(Entries) /\ lists[i].size \in Nat
    <3> DEFINE l == lists[i]
    <3>1. i \in Indexes /\ l # NULL /\ l.nodes \in NodeSeqs /\ l.size \in Int
      BY DEF Created, IInv, ListsInOrder, InOrder, ListShapes
    <3>2. Len(l.nodes) \in Nat /\ DOMAIN l.nodes = 1 .. Len(l.nodes)
      BY <3>1, NodesAreEntries
    <3>3. ASSUME NEW u \in Threads, Writing(u), ListOf(u) = i
          PROVE  HalfAdded(l, EntryOf(u)) \/ HalfRemoved(l, op[u].key)
      BY <3>3, InLockKinds DEF IInv, HalfKnown, Writing, InLock
    <3>4. Whole(l) \/ (\E e : HalfAdded(l, e)) \/ (\E k : HalfRemoved(l, k))
      BY <3>1, <3>3 DEF IInv, OthersWhole
    <3> HIDE DEF l
    <3>5. l.size \in Nat
      BY <3>1, <3>2, <3>4 DEF Whole, HalfAdded, HalfRemoved
    <3>6. QED
      BY <3>1, <3>5 DEF NodeSeqs, l
  <2>2. readers \subseteq Threads /\ writers \subseteq Threads
    BY DEF IInv, HeldByKind
  <2>3. QED
    BY <2>1, <2>2 DEF IInv, RequestsOK, CopyInv, CopyTyped, TypeOK
<1>2. QED
  BY <1>1, CopyHolds, PTL

(* No array of GETKEYS or GETTABLE is written beyond the place that was     *)
(* allocated by the counters: the lists are as they were counted.           *)
THEOREM ServerCopyFits == Spec => []CopyFits
<1>1. IInv /\ CopyInv => CopyFits
  <2> SUFFICES ASSUME IInv, CopyInv, NEW t \in Threads, room[t] > 0
               PROVE  Len(copied[t]) < room[t]
    BY DEF CopyFits
  <2>1. Copying(t)
    BY DEF CopyInv, NoArray
  <2>2. Filling(t) /\ visited[t] \in 0 .. NumLists
    BY <2>1 DEF CopyInv, CopyTyped
  <2>3. AllWhole(lists) /\ Ordered(lists)
    BY <2>1, LookingIs, ReaderSees DEF Looking, InLock
  <2>4. /\ Totals(lists)[visited[t]] <= Totals(lists)[NumLists]
        /\ Totals(lists)[visited[t]] \in Nat /\ Totals(lists)[NumLists] \in Nat
    BY <2>2, <2>3, CountedNat, TotalsGrow
  <2>5. QED
    BY <2>2, <2>4 DEF Filling
<1>2. QED
  BY <1>1, CopyHolds, PTL
---------------------------------------------------------------------------
(* What the other threads will see, for lists ls, places p and requests o.  *)
SeenOf(ls, p, o) == [k \in Keys |->
    IF Contents(ls)[k] = Freed
    THEN o[CHOOSE t \in Threads : p[t] = "half" /\ o[t] \in Writes /\ o[t].key = k].val
    ELSE Contents(ls)[k]]

LEMMA SeenWhole ==
  ASSUME NEW ls, Ordered(ls), AllWhole(ls), NEW p, NEW o
  PROVE  SeenOf(ls, p, o) = Contents(ls) /\ Contents(ls) \in Tables
<1>1. \A k \in Keys : Contents(ls)[k] # Freed
  BY WholeContents
<1>2. Contents(ls) = [k \in Keys |-> Contents(ls)[k]]
  BY DEF Contents
<1>3. SeenOf(ls, p, o) = [k \in Keys |-> Contents(ls)[k]]
  BY <1>1 DEF SeenOf
<1>4. QED
  BY <1>2, <1>3, WholeContents

(* In the middle of a change the key of the writer has its value already.   *)
LEMMA SeenHalf ==
  ASSUME NEW ls, Ordered(ls), NEW p, NEW o, NEW t \in Threads, NEW k \in Keys,
         hashValue(k) \in Indexes, o[t].key = k,
         \A u \in Threads : p[u] = "half" /\ o[u] \in Writes <=> u = t,
         \A i \in Indexes : i # hashValue(k) => ls[i] = NULL \/ Whole(ls[i]),
         \/ HalfRemoved(ls[hashValue(k)], k)
         \/ HalfAdded(ls[hashValue(k)], [key |-> k, value |-> o[t].val])
  PROVE  SeenOf(ls, p, o) = [x \in Keys |-> IF x = k THEN o[t].val ELSE Contents(ls)[x]]
<1> DEFINE h == hashValue(k)
           l == ls[h]
<1>1. InOrder(l, h) /\ Held(l) = {l.nodes[n] : n \in DOMAIN l.nodes}
  BY DEF Ordered, Held, ToSet
<1>2. PICK q \in DOMAIN l.nodes :
        /\ l.nodes[q].key = k
        /\ \A n \in DOMAIN l.nodes : n # q => l.nodes[n].value # Freed
        /\ \/ l.nodes[q].value = Freed
           \/ l.nodes[q] = [key |-> k, value |-> o[t].val]
  BY DEF HalfAdded, HalfRemoved
<1>3. l.nodes[q] \in EntriesOf(ls)
  BY <1>1, EntriesHeld
<1>4. Contents(ls)[k] = l.nodes[q].value
  BY <1>2, <1>3, ContentsAre
<1>5. Contents(ls)[k] = Freed \/ Contents(ls)[k] = o[t].val
  BY <1>2, <1>4
<1>6. (CHOOSE u \in Threads : p[u] = "half" /\ o[u] \in Writes /\ o[u].key = k) = t
  BY Zenon
<1>7. SeenOf(ls, p, o)[k] = o[t].val
  BY <1>5, <1>6 DEF SeenOf
<1>8. ASSUME NEW x \in Keys, x # k PROVE Contents(ls)[x] # Freed
  <2>1. ASSUME NEW e \in EntriesOf(ls), e.key = x PROVE e.value # Freed
    <3>1. hashValue(x) \in Indexes /\ e \in Held(ls[hashValue(x)]) /\ InOrder(ls[hashValue(x)], hashValue(x))
      BY <2>1, OneEntry DEF Ordered
    <3>2. CASE hashValue(x) = h
      <4>1. PICK n \in DOMAIN l.nodes : e = l.nodes[n]
        BY <1>1, <3>1, <3>2
      <4>2. n # q
        BY <1>2, <1>8, <2>1, <4>1
      <4>3. QED
        BY <1>2, <4>1, <4>2
    <3>3. CASE hashValue(x) # h
      BY <3>1, <3>3, HeldAre
    <3>4. QED
      BY <3>2, <3>3
  <2>2. NoVal # Freed
    BY TableAssumption
  <2>3. QED
    BY <2>1, <2>2, ContentsAre
<1>9. QED
  BY <1>7, <1>8 DEF SeenOf
---------------------------------------------------------------------------
(* The same of the states: nobody writes, *)
LEMMA SeenAtRest ==
  ASSUME IInv, \A u \in Threads : ~ Writing(u)
  PROVE  Seen = Contents(lists) /\ Seen \in Tables /\ AllWhole(lists) /\ Ordered(lists)
<1>1. AllWhole(lists) /\ Ordered(lists)
  BY DEF IInv, OthersWhole, ListsInOrder, AllWhole, Ordered
<1>2. Seen = SeenOf(lists, pc, op)
  BY DEF Seen, SeenOf
<1>3. QED
  BY <1>1, <1>2, SeenWhole

LEMMA SeenAtRestNext ==
  ASSUME IInv', \A u \in Threads : ~ Writing(u)'
  PROVE  Seen' = Contents(lists') /\ AllWhole(lists') /\ Ordered(lists')
<1>1. AllWhole(lists') /\ Ordered(lists')
  BY DEF IInv, OthersWhole, ListsInOrder, AllWhole, Ordered
<1>2. Seen' = SeenOf(lists', pc', op')
  BY DEF Seen, SeenOf
<1>3. QED
  BY <1>1, <1>2, SeenWhole

(* or somebody does. *)
SeenWith(ls, o) == [x \in Keys |-> IF x = o.key THEN o.val ELSE Contents(ls)[x]]

LEMMA SeenInChange ==
  ASSUME IInv, NEW t \in Threads, Writing(t)
  PROVE  Seen = SeenWith(lists, op[t])
<1>1. pc[t] \in InLock /\ op[t] \in Writes /\ op[t] \in Ops
  BY InLockKinds DEF Writing, InLock
<1>2. op[t].key \in Keys /\ hashValue(op[t].key) \in Indexes /\ op[t].type \in {"put", "del"}
  BY <1>1, Kinds DEF IInv, RequestsOK, InLock, ListOf
<1>3. \A u \in Threads : pc[u] = "half" /\ op[u] \in Writes <=> u = t
  BY <1>1, WriterAlone DEF Writing
<1>4. Ordered(lists)
  BY DEF IInv, ListsInOrder, Ordered
<1>5. \A i \in Indexes : i # hashValue(op[t].key) => lists[i] = NULL \/ Whole(lists[i])
  BY <1>3 DEF IInv, OthersWhole, Writing, ListOf
<1>6. \/ HalfRemoved(lists[hashValue(op[t].key)], op[t].key)
      \/ HalfAdded(lists[hashValue(op[t].key)], [key |-> op[t].key, value |-> op[t].val])
  BY <1>2 DEF IInv, HalfKnown, ListOf, EntryOf
<1>7. Seen = SeenOf(lists, pc, op)
  BY DEF Seen, SeenOf
<1>8. QED
  BY <1>2, <1>3, <1>4, <1>5, <1>6, <1>7, SeenHalf DEF SeenWith

LEMMA SeenInChangeNext ==
  ASSUME IInv', NEW t \in Threads, Writing(t)', op'[t] \in Ops, op'[t].key \in Keys,
         hashValue(op'[t].key) \in Indexes, op'[t].type \in {"put", "del"},
         \A u \in Threads : pc'[u] = "half" /\ op'[u] \in Writes <=> u = t
  PROVE  Seen' = SeenWith(lists', op'[t])
<1>1. Ordered(lists')
  BY DEF IInv, ListsInOrder, Ordered
<1>2. \A i \in Indexes : i # hashValue(op'[t].key) => lists'[i] = NULL \/ Whole(lists'[i])
  BY DEF IInv, OthersWhole, Writing, ListOf
<1>3. \/ HalfRemoved(lists'[hashValue(op'[t].key)], op'[t].key)
      \/ HalfAdded(lists'[hashValue(op'[t].key)], [key |-> op'[t].key, value |-> op'[t].val])
  BY DEF IInv, HalfKnown, ListOf, EntryOf
<1>4. Seen' = SeenOf(lists', pc', op')
  BY DEF Seen, SeenOf
<1>5. QED
  BY <1>1, <1>2, <1>3, <1>4, SeenHalf DEF SeenWith
---------------------------------------------------------------------------
(* What a search of the table at rest tells. *)
LEMMA FoundMeans ==
  ASSUME IInv, \A u \in Threads : ~ Writing(u), NEW t \in Threads,
         op[t].key \in Keys, ListOf(t) \in Indexes
  PROVE  /\ Found(t) => /\ op[t].key \in Present(Seen)
                        /\ list_get(lists[ListOf(t)], op[t].key) = Seen[op[t].key]
         /\ ~ Found(t) => op[t].key \notin Present(Seen) /\ Seen[op[t].key] = NoVal
<1> DEFINE k == op[t].key
<1>1. Seen = Contents(lists) /\ AllWhole(lists) /\ Ordered(lists)
  BY SeenAtRest
<1>2. hashValue(k) \in Indexes /\ k \in Keys
  BY DEF ListOf
<1>3. CASE Found(t)
  <2>1. PICK e \in EntriesOf(lists) : e.key = k /\ list_get(lists[hashValue(k)], k) = e.value
    BY <1>1, <1>2, <1>3, SearchFinds DEF Found, ListOf
  <2>2. Seen[k] = e.value
    BY <1>1, <1>2, <2>1, ContentsAre
  <2>3. k \in Present(Seen)
    BY <1>1, <1>2, <2>1, WholeContents
  <2>4. QED
    BY <1>3, <2>1, <2>2, <2>3 DEF ListOf
<1>4. CASE ~ Found(t)
  <2>1. \A e \in EntriesOf(lists) : e.key # k
    BY <1>1, <1>2, <1>4, SearchFinds DEF Found, ListOf
  <2>2. Seen[k] = NoVal
    BY <1>1, <1>2, <2>1, ContentsAre
  <2>3. QED
    BY <1>4, <2>2 DEF Present
<1>5. QED
  BY <1>3, <1>4

(* A writer in the lock: what it may rely on. *)
LEMMA WriterKnows ==
  ASSUME IInv, NEW t \in Threads, pc[t] \in InLock, op[t] \in Writes
  PROVE  /\ op[t] \in Ops /\ op[t].key \in Keys /\ ListOf(t) \in Indexes
         /\ hashValue(op[t].key) = ListOf(t)
         /\ op[t].type = "put" => EntryOf(t) \in [key : Keys, value : Vals]
         /\ op[t].type = "del" => op[t].val = NoVal
         /\ EntryOf(t).key = op[t].key /\ EntryOf(t).value = op[t].val
         /\ InOrder(lists[ListOf(t)], ListOf(t)) /\ Ordered(lists)
         /\ pc[t] = "inside" => /\ \A u \in Threads : ~ Writing(u)
                                /\ lists[ListOf(t)] = NULL \/ Whole(lists[ListOf(t)])
<1>1. op[t] \in Ops /\ op[t].key \in Keys /\ ListOf(t) \in Indexes
  BY InLockKinds, Kinds DEF IInv, RequestsOK, InLock
<1>2. op[t].type = "del" => op[t].val = NoVal
  BY DEF Writes
<1>3. op[t].type = "put" => EntryOf(t) \in [key : Keys, value : Vals]
  BY InLockKinds
<1>4. pc[t] = "inside" => \A u \in Threads : ~ Writing(u)
  BY WriterAlone DEF Writing
<1>5. Ordered(lists) /\ InOrder(lists[ListOf(t)], ListOf(t))
  BY <1>1 DEF IInv, ListsInOrder, Ordered
<1>6. QED
  BY <1>1, <1>2, <1>3, <1>4, <1>5, BeginsWhole DEF EntryOf, ListOf

LEMMA WriteSeen ==
  ASSUME IInv, IInv', NEW t \in Threads, pc[t] \in InLock, op[t] \in Writes, UNCHANGED op,
         NEW to \in {"half", "done"}, pc' = [pc EXCEPT ![t] = to],
         NEW l, lists' = [lists EXCEPT ![ListOf(t)] = l],
         OnlyAt(lists[ListOf(t)], l, op[t].key),
         to = "half" \/ Contents(lists')[op[t].key] = op[t].val
  PROVE  Seen' = SeenWith(lists, op[t])
<1> DEFINE k == op[t].key
<1>1. /\ op[t] \in Ops /\ k \in Keys /\ ListOf(t) \in Indexes /\ hashValue(k) = ListOf(t) /\ Ordered(lists)
      /\ op[t].type \in {"put", "del"}
  BY WriterKnows, Kinds
<1>2. Ordered(lists') /\ lists'[ListOf(t)] = l /\ \A j \in Indexes : j # ListOf(t) => lists'[j] = lists[j]
  BY <1>1 DEF IInv, ListsInOrder, Ordered
<1>3. \A x \in Keys : x # k => Contents(lists')[x] = Contents(lists)[x]
  <2>1. OnlyAt(lists[ListOf(t)], lists'[ListOf(t)], k)
    BY <1>2
  <2> HIDE DEF k
  <2>2. QED
    BY ONLY <1>1, <1>2, <2>1, OtherKeysStay
<1>4. pc'[t] = to /\ \A u \in Threads : u # t => pc'[u] = pc[u]
  BY DEF IInv, RequestsOK
<1>5. \A u \in Threads : u # t => ~ (pc'[u] = "half" /\ op'[u] \in Writes)
  BY <1>4, WriterAlone DEF Writing
<1>6. CASE to = "half"
  <2>1. Writing(t)' /\ \A u \in Threads : pc'[u] = "half" /\ op'[u] \in Writes <=> u = t
    BY <1>4, <1>5, <1>6 DEF Writing
  <2>2. Seen' = SeenWith(lists', op[t])
    BY <1>1, <2>1, SeenInChangeNext
  <2>3. QED
    BY <1>3, <2>2 DEF SeenWith
<1>7. CASE to = "done"
  <2>1. \A u \in Threads : ~ Writing(u)'
    BY <1>4, <1>5, <1>7 DEF Writing
  <2>2. Seen' = Contents(lists')
    BY <2>1, SeenAtRestNext
  <2>3. Contents(lists') = [x \in Keys |-> Contents(lists')[x]]
    BY DEF Contents
  <2>4. Contents(lists')[k] = op[t].val
    BY <1>7
  <2>5. Contents(lists') = SeenWith(lists, op[t])
    BY <1>3, <2>3, <2>4 DEF SeenWith
  <2>6. QED
    BY <2>2, <2>5
<1>8. QED
  BY <1>6, <1>7

(* A write that begins has its effect on the table that the others see. *)
LEMMA EffectIs ==
  ASSUME IInv, NEW t \in Threads, pc[t] = "inside", op[t] \in Writes
  PROVE  Effect(Seen, op[t]) = SeenWith(lists, op[t]) /\ Seen \in Tables
<1>1. \A u \in Threads : ~ Writing(u)
  BY WriterKnows DEF InLock
<1>2. Seen = Contents(lists) /\ Seen \in Tables
  BY <1>1, SeenAtRest
<1>3. Contents(lists) = [k \in Keys |-> Contents(lists)[k]]
  BY DEF Contents
<1>4. QED
  BY <1>2, <1>3 DEF Effect, SeenWith

(* The entry that is put in its list is what the table has for its key. *)
LEMMA PutIsSeen ==
  ASSUME IInv', NEW i \in Indexes, NEW e, e.key \in Keys, e \in Held(lists'[i])
  PROVE  Contents(lists')[e.key] = e.value
<1>1. Ordered(lists')
  BY DEF IInv, ListsInOrder, Ordered
<1>2. e \in EntriesOf(lists')
  BY EntriesHeld
<1>3. QED
  BY <1>1, <1>2, ContentsAre

(* The first step of a write takes effect, ... *)
TakesEffect(t) == /\ UNCHANGED op
                  /\ Seen \in Tables
                  /\ reply' = [reply EXCEPT ![t] = Result(Seen, op[t])]
                  /\ Seen' = IF op[t] \in Writes THEN Effect(Seen, op[t]) ELSE Seen

LEMMA PutTakesEffect ==
  ASSUME IInv, IInv', NEW t \in Threads, PutFirst(t) \/ PutNewList(t)
  PROVE  TakesEffect(t)
<1>1. /\ pc[t] = "inside" /\ op[t].type = "put" /\ UNCHANGED op /\ reply' = [reply EXCEPT ![t] = <<"ok">>]
  BY DEF PutFirst, PutNewList, Serving, Goto, Answer
<1>2. op[t] \in Writes /\ pc[t] \in InLock
  BY <1>1, InLockKinds DEF InLock
<1>3. Result(Seen, op[t]) = <<"ok">>
  BY <1>1 DEF Result
<1>4. Seen' = SeenWith(lists, op[t])
  <2>1. CASE PutFirst(t)
    <3> DEFINE l == FirstOfAdd(lists[ListOf(t)], EntryOf(t))
    <3>1. /\ pc' = [pc EXCEPT ![t] = "half"] /\ lists[ListOf(t)] # NULL
          /\ lists' = [lists EXCEPT ![ListOf(t)] = l]
      BY <2>1 DEF PutFirst, Serving, Goto
    <3>2. OnlyAt(lists[ListOf(t)], l, op[t].key)
      BY <1>1, <1>2, <3>1, WriterKnows, AddBegins
    <3> HIDE DEF l
    <3>3. QED
      BY <1>1, <1>2, <3>1, <3>2, WriteSeen
  <2>2. CASE PutNewList(t)
    <3> DEFINE l == [nodes |-> <<EntryOf(t)>>, size |-> 1]
    <3>1. /\ pc' = [pc EXCEPT ![t] = "done"] /\ lists[ListOf(t)] = NULL
          /\ lists' = [lists EXCEPT ![ListOf(t)] = l]
      BY <2>2 DEF PutNewList, Serving, Goto
    <3>2. Held(l) = {EntryOf(t)} /\ Held(NULL) = {}
      BY DEF Held, ToSet, NULL
    <3>3. EntryOf(t).key = op[t].key /\ EntryOf(t).value = op[t].val
          /\ ListOf(t) \in Indexes /\ op[t].key \in Keys
      BY <1>2, WriterKnows
    <3>4. OnlyAt(lists[ListOf(t)], l, op[t].key)
      <4> HIDE DEF l
      <4> QED BY <3>1, <3>2, <3>3 DEF OnlyAt
    <3>5. EntryOf(t) \in Held(lists'[ListOf(t)])
      <4> HIDE DEF l
      <4>1. lists'[ListOf(t)] = l
        BY <3>1, <3>3 DEF IInv, ListsInOrder
      <4>2. QED
        BY <3>2, <4>1
    <3>6. Contents(lists')[op[t].key] = op[t].val
      BY <3>3, <3>5, PutIsSeen
    <3> HIDE DEF l
    <3>7. QED
      BY <1>1, <1>2, <3>1, <3>4, <3>6, WriteSeen
  <2>3. QED
    BY <2>1, <2>2
<1>5. QED
  BY <1>1, <1>2, <1>3, <1>4, EffectIs DEF TakesEffect

LEMMA DelTakesEffect ==
  ASSUME IInv, IInv', NEW t \in Threads, DelFirst(t) \/ DelAbsent(t)
  PROVE  TakesEffect(t)
<1>1. pc[t] = "inside" /\ op[t].type = "del" /\ UNCHANGED op
  BY DEF DelFirst, DelAbsent, Serving, Goto
<1>2. op[t] \in Writes /\ pc[t] \in InLock
  BY <1>1, InLockKinds DEF InLock
<1>3. /\ op[t].key \in Keys /\ ListOf(t) \in Indexes /\ \A u \in Threads : ~ Writing(u)
      /\ InOrder(lists[ListOf(t)], ListOf(t))
      /\ lists[ListOf(t)] = NULL \/ Whole(lists[ListOf(t)])
      /\ op[t].val = NoVal
  BY <1>1, <1>2, WriterKnows
<1>4. CASE DelFirst(t)
  <2> DEFINE l == FirstOfRemove(lists[ListOf(t)], op[t].key)
  <2>1. /\ pc' = [pc EXCEPT ![t] = "half"] /\ lists[ListOf(t)] # NULL
        /\ lists' = [lists EXCEPT ![ListOf(t)] = l] /\ reply' = [reply EXCEPT ![t] = <<"ok">>]
        /\ Found(t) /\ StopsAt(lists[ListOf(t)].nodes, op[t].key)
    BY <1>4 DEF DelFirst, Serving, Goto, Found, Answer
  <2>2. OnlyAt(lists[ListOf(t)], l, op[t].key)
    BY <1>3, <2>1, RemoveBegins
  <2> HIDE DEF l
  <2>3. Seen' = SeenWith(lists, op[t])
    BY <1>1, <1>2, <2>1, <2>2, WriteSeen
  <2>4. Result(Seen, op[t]) = <<"ok">>
    BY <1>1, <1>3, <2>1, FoundMeans DEF Result
  <2>5. QED
    BY <1>1, <1>2, <2>1, <2>3, <2>4, EffectIs DEF TakesEffect
<1>5. CASE DelAbsent(t)
  <2>1. /\ pc' = [pc EXCEPT ![t] = "done"] /\ ~ Found(t) /\ UNCHANGED lists
        /\ reply' = [reply EXCEPT ![t] = <<"error">>]
    BY <1>5 DEF DelAbsent, Serving, Goto, Answer
  <2>2. op[t].key \notin Present(Seen) /\ Seen[op[t].key] = NoVal
    BY <1>3, <2>1, FoundMeans
  <2>3. Result(Seen, op[t]) = <<"error">>
    BY <1>1, <2>2 DEF Result
  <2>4. \A u \in Threads : ~ Writing(u)'
    BY <1>1, <1>3, <2>1 DEF Writing, IInv, RequestsOK
  <2>5. Seen = Contents(lists) /\ Seen \in Tables /\ Seen' = Contents(lists)
    BY <1>3, <2>1, <2>4, SeenAtRest, SeenAtRestNext
  <2>6. Effect(Seen, op[t]) = Seen
    BY <1>3, <2>2, <2>5 DEF Effect, Tables
  <2>7. QED
    BY <1>1, <1>2, <2>1, <2>3, <2>5, <2>6 DEF TakesEffect
<1>6. QED
  BY <1>4, <1>5

(* ... and the other steps leave the table as the others see it. *)
LEMMA SeenKept ==
  ASSUME IInv, IInv', UNCHANGED lists, NEW t \in Threads,
         \A u \in Threads : u # t => pc'[u] = pc[u] /\ op'[u] = op[u],
         ~ Writing(t), ~ Writing(t)'
  PROVE  Seen' = Seen
<1>1. \A u \in Threads : Writing(u)' <=> Writing(u)
  BY DEF Writing
<1>2. CASE \A u \in Threads : ~ Writing(u)
  BY <1>1, <1>2, SeenAtRest, SeenAtRestNext
<1>3. CASE \E u \in Threads : Writing(u)
  <2>1. PICK u \in Threads : Writing(u)
    BY <1>3
  <2>2. u # t /\ op'[u] = op[u] /\ Writing(u)'
    BY <1>1, <2>1
  <2>3. pc[u] \in InLock /\ op[u] \in Writes
    BY <2>1 DEF Writing, InLock
  <2>4. op[u] \in Ops /\ op[u].key \in Keys /\ hashValue(op[u].key) \in Indexes /\ op[u].type \in {"put", "del"}
    BY <2>3, WriterKnows, Kinds
  <2>5. \A v \in Threads : Writing(v) => v = u
    BY <2>3, WriterAlone
  <2>6. \A v \in Threads : pc'[v] = "half" /\ op'[v] \in Writes <=> v = u
    BY <1>1, <2>2, <2>5 DEF Writing
  <2>7. Seen' = SeenWith(lists', op'[u])
    BY <2>2, <2>4, <2>6, SeenInChangeNext
  <2>8. Seen = SeenWith(lists, op[u])
    BY <2>1, SeenInChange
  <2>9. QED
    BY <2>2, <2>7, <2>8 DEF SeenWith
<1>4. QED
  BY <1>2, <1>3

LEMMA WriteEnds ==
  ASSUME IInv, IInv', NEW t \in Threads, PutSecond(t) \/ DelSecond(t)
  PROVE  Seen' = Seen
<1>1. pc[t] = "half" /\ op[t].type \in {"put", "del"} /\ UNCHANGED op /\ pc' = [pc EXCEPT ![t] = "done"]
  BY DEF PutSecond, DelSecond, Serving, Goto
<1>2. op[t] \in Writes /\ pc[t] \in InLock /\ Writing(t)
  BY <1>1, InLockKinds DEF InLock, Writing
<1>3. /\ op[t].key \in Keys /\ ListOf(t) \in Indexes
      /\ InOrder(lists[ListOf(t)], ListOf(t))
      /\ op[t].type = "put" => EntryOf(t) \in [key : Keys, value : Vals]
      /\ op[t].type = "del" => op[t].val = NoVal
      /\ EntryOf(t).key = op[t].key /\ EntryOf(t).value = op[t].val
      /\ hashValue(op[t].key) = ListOf(t)
  BY <1>2, WriterKnows
<1>4. Seen = SeenWith(lists, op[t])
  BY <1>2, SeenInChange
<1>5. CASE PutSecond(t)
  <2> DEFINE l == SecondOfAdd(lists[ListOf(t)], EntryOf(t))
  <2>1. lists' = [lists EXCEPT ![ListOf(t)] = l] /\ op[t].type = "put"
    BY <1>5 DEF PutSecond, Serving
  <2>2. HalfAdded(lists[ListOf(t)], EntryOf(t))
    BY <1>2, <2>1 DEF IInv, HalfKnown
  <2>3. OnlyAt(lists[ListOf(t)], l, op[t].key) /\ EntryOf(t) \in Held(l)
    BY <1>3, <2>1, <2>2, AddEnds
  <2> HIDE DEF l
  <2>4. lists'[ListOf(t)] = l
    BY <1>3, <2>1 DEF IInv, ListsInOrder
  <2>5. Contents(lists')[op[t].key] = op[t].val
    BY <1>3, <2>3, <2>4, PutIsSeen
  <2>6. Seen' = SeenWith(lists, op[t])
    BY <1>1, <1>2, <2>1, <2>3, <2>5, WriteSeen
  <2>7. QED
    BY <1>4, <2>6
<1>6. CASE DelSecond(t)
  <2> DEFINE l == SecondOfRemove(lists[ListOf(t)], op[t].key)
  <2>1. lists' = [lists EXCEPT ![ListOf(t)] = l] /\ op[t].type = "del"
    BY <1>6 DEF DelSecond, Serving
  <2>2. HalfRemoved(lists[ListOf(t)], op[t].key)
    BY <1>2, <2>1 DEF IInv, HalfKnown
  <2>3. OnlyAt(lists[ListOf(t)], l, op[t].key) /\ \A x \in Held(l) : x.key # op[t].key
    BY <1>3, <2>2, RemoveEnds
  <2> HIDE DEF l
  <2>4. lists'[ListOf(t)] = l /\ Ordered(lists')
    BY <1>3, <2>1 DEF IInv, ListsInOrder, Ordered
  <2>5. \A e \in EntriesOf(lists') : e.key # op[t].key
    BY <1>3, <2>3, <2>4, OneEntry
  <2>6. Contents(lists')[op[t].key] = op[t].val
    <3>1. op[t].key \in Keys /\ ~ (\E e \in EntriesOf(lists') : e.key = op[t].key)
      BY <1>3, <2>5
    <3>2. Contents(lists')[op[t].key] = NoVal
      BY ONLY <2>4, <3>1, ContentsAre
    <3>3. QED
      BY <1>3, <2>1, <3>2
  <2>7. Seen' = SeenWith(lists, op[t])
    BY <1>1, <1>2, <2>1, <2>3, <2>6, WriteSeen
  <2>8. QED
    BY <1>4, <2>7
<1>7. QED
  BY <1>5, <1>6

(* The reads. *)
LEMMA ArrayIsTable ==
  ASSUME IInv, CopyInv, NEW t \in Threads, Copying(t), visited[t] = NumLists
  PROVE  ArrayReply(t) = Result(Seen, op[t])
<1>1. pc[t] \in InLock /\ op[t] \in Reads /\ op[t].type \in {"getkeys", "gettable"}
  BY LookingIs DEF Looking, InLock, Copying, CopyTypes
<1>2. Seen = Contents(lists) /\ Seen \in Tables /\ AllWhole(lists) /\ Ordered(lists)
  BY <1>1, ReaderSees, SeenAtRest
<1>3. Len(copied[t]) = table_size(lists) /\ ToSet(copied[t]) = EntriesOf(lists)
  BY EntriesHeld DEF CopyInv, Filling, table_size
<1>4. CASE op[t].type = "getkeys"
  <2>1. ArrayReply(t) = <<"keys", {e.key : e \in EntriesOf(lists)}>>
    BY <1>3, <1>4 DEF ArrayReply
  <2>2. Result(Seen, op[t]) = <<"keys", Present(Seen)>>
    BY <1>4 DEF Result
  <2>3. QED
    BY <1>2, <2>1, <2>2, WholeContents
<1>5. CASE op[t].type = "gettable"
  <2>1. ArrayReply(t) = <<"table", Contents(lists)>>
    BY <1>3, <1>5 DEF ArrayReply, Contents
  <2>2. Result(Seen, op[t]) = <<"table", Seen>>
    BY <1>5 DEF Result
  <2>3. QED
    BY <1>2, <2>1, <2>2
<1>6. QED
  BY <1>1, <1>4, <1>5

LEMMA ReadTakesEffect ==
  ASSUME IInv, IInv', CopyInv, NEW t \in Threads,
         GetCopies(t) \/ GetAbsent(t) \/ Size(t) \/ SendArray(t)
  PROVE  TakesEffect(t)
<1>1. /\ pc[t] \in {"inside", "half"} /\ pc' = [pc EXCEPT ![t] = "done"] /\ UNCHANGED <<lists, op>>
      /\ op[t].type \in {"get", "size", "getkeys", "gettable"}
  BY DEF GetCopies, GetAbsent, Size, SendArray, Serving, Goto, CopyTypes
<1>2. pc[t] \in InLock /\ op[t] \in Reads /\ op[t] \notin Writes /\ op[t] \in Ops
  BY <1>1, InLockKinds DEF InLock
<1>3. AllWhole(lists) /\ Ordered(lists) /\ \A u \in Threads : ~ Writing(u)
  BY <1>2, ReaderSees
<1>4. Seen = Contents(lists) /\ Seen \in Tables
  BY <1>3, SeenAtRest
<1>5. Seen' = Seen
  <2>1. \A u \in Threads : u # t => pc'[u] = pc[u] /\ op'[u] = op[u]
    BY <1>1 DEF IInv, RequestsOK
  <2>2. ~ Writing(t) /\ ~ Writing(t)'
    BY <1>1, <1>2 DEF Writing
  <2>3. QED
    BY <1>1, <2>1, <2>2, SeenKept
<1>6. op[t].type = "get" => op[t].key \in Keys /\ ListOf(t) \in Indexes
  <2>1. op[t].type = "get" => op[t].key \in Keys
    BY <1>2 DEF Reads
  <2>2. QED
    BY <1>2, <2>1 DEF IInv, RequestsOK, InLock
<1>7. CASE GetCopies(t)
  <2>1. op[t].type = "get" /\ pc[t] = "half"
        /\ reply' = [reply EXCEPT ![t] = <<"value", list_get(lists[ListOf(t)], op[t].key)>>]
    BY <1>7 DEF GetCopies, Serving, Goto, Answer
  <2>2. Found(t)
    BY <2>1 DEF CopyInv
  <2>3. Result(Seen, op[t]) = <<"value", list_get(lists[ListOf(t)], op[t].key)>>
    BY <1>3, <1>6, <2>1, <2>2, FoundMeans DEF Result
  <2>4. QED
    BY <1>1, <1>2, <1>4, <1>5, <2>1, <2>3 DEF TakesEffect
<1>8. CASE GetAbsent(t)
  <2>1. op[t].type = "get" /\ ~ Found(t) /\ reply' = [reply EXCEPT ![t] = <<"error">>]
    BY <1>8 DEF GetAbsent, Serving, Goto, Answer
  <2>2. Result(Seen, op[t]) = <<"error">>
    BY <1>3, <1>6, <2>1, FoundMeans DEF Result
  <2>3. QED
    BY <1>1, <1>2, <1>4, <1>5, <2>1, <2>2 DEF TakesEffect
<1>9. CASE Size(t)
  <2>1. op[t].type = "size" /\ reply' = [reply EXCEPT ![t] = <<"size", table_size(lists)>>]
    BY <1>9 DEF Size, Serving, Goto, Answer
  <2>2. Result(Seen, op[t]) = <<"size", table_size(lists)>>
    BY <1>3, <1>4, <2>1, SizeIsRight DEF Result
  <2>3. QED
    BY <1>1, <1>2, <1>4, <1>5, <2>1, <2>2 DEF TakesEffect
<1>10. CASE SendArray(t)
  <2>1. /\ pc[t] = "half" /\ op[t].type \in CopyTypes /\ visited[t] = NumLists
        /\ reply' = [reply EXCEPT ![t] = ArrayReply(t)]
    BY <1>10 DEF SendArray, Goto, Answer
  <2>2. ArrayReply(t) = Result(Seen, op[t])
    BY <2>1, ArrayIsTable DEF Copying
  <2>3. QED
    BY <1>1, <1>2, <1>4, <1>5, <2>1, <2>2 DEF TakesEffect
<1>11. QED
  BY <1>7, <1>8, <1>9, <1>10
---------------------------------------------------------------------------
(* A thread has no answer until its request has taken effect. *)
Early(t) == pc[t] \in {"idle", "called", "inside", "gone"} \/ Looking(t)

ReplyInv == /\ reply = [t \in Threads |-> reply[t]]
            /\ \A t \in Threads : /\ reply[t] = None <=> Early(t)
                                  /\ pc[t] \in {"idle", "gone"} => op[t] = None

LEMMA AnswerGiven ==
  ASSUME IInv, ReplyInv, NEW t \in Threads, UNCHANGED op, pc[t] \in InLock,
         NEW to \in {"half", "done"}, pc' = [pc EXCEPT ![t] = to],
         to = "half" => op[t] \in Writes,
         NEW r, r # None, reply' = [reply EXCEPT ![t] = r]
  PROVE  ReplyInv'
<1>1. pc'[t] = to /\ \A u \in Threads : u # t => pc'[u] = pc[u]
  BY DEF IInv, RequestsOK
<1>2. reply'[t] = r /\ (\A u \in Threads : u # t => reply'[u] = reply[u])
      /\ reply' = [u \in Threads |-> reply'[u]]
  BY DEF ReplyInv
<1>3. ~ Early(t)'
  BY <1>1, Kinds, InLockKinds DEF Early, Looking
<1>4. \A u \in Threads : u # t => (Early(u)' <=> Early(u))
  BY <1>1 DEF Early, Looking
<1>5. \A u \in Threads : reply'[u] = None <=> Early(u)'
  BY <1>2, <1>3, <1>4 DEF ReplyInv
<1>6. \A u \in Threads : pc'[u] \in {"idle", "gone"} => op'[u] = None
  BY <1>1 DEF ReplyInv
<1>7. QED
  BY <1>2, <1>5, <1>6 DEF ReplyInv

LEMMA AnswerKept ==
  ASSUME IInv, ReplyInv, NEW t \in Threads, UNCHANGED reply,
         \A u \in Threads : u # t => pc'[u] = pc[u] /\ op'[u] = op[u],
         Early(t)' <=> Early(t), pc'[t] \in {"idle", "gone"} => op'[t] = None
  PROVE  ReplyInv'
<1>1. \A u \in Threads : Early(u)' <=> Early(u)
  BY DEF Early, Looking
<1>2. \A u \in Threads : pc'[u] \in {"idle", "gone"} => op'[u] = None
  BY DEF ReplyInv
<1>3. QED
  BY <1>1, <1>2 DEF ReplyInv

(* The steps, of the abstract store and of the answers. *)
Implemented == [Abstract!Next \/ \E t \in Threads : OutOfMemory(t)]_(Abstract!vars)

LEMMA SameCardinality == \A S : Abstract!Cardinality(S) = Cardinality(S)
  BY DEF Abstract!Cardinality, Cardinality

LEMMA SameRequests ==
  /\ Abstract!Ops = Ops /\ Abstract!Writes = Writes /\ Abstract!Empty = Empty
  /\ \A tb, o : Abstract!Effect(tb, o) = Effect(tb, o)
  BY DEF Abstract!Ops, Ops, Abstract!Writes, Writes, Abstract!Reads, Reads, Abstract!Empty, Empty,
         Abstract!Effect, Effect

LEMMA SameResults == \A tb, o : Abstract!Result(tb, o) = Result(tb, o)
<1>1. \A tb : Abstract!Present(tb) = Present(tb)
  BY DEF Abstract!Present, Present
<1>2. QED
  BY <1>1, SameCardinality, Zenon DEF Abstract!Result, Result

LEMMA EffectStep ==
  ASSUME IInv, ReplyInv, NEW t \in Threads, TakesEffect(t), pc[t] \in InLock, Early(t),
         NEW to \in {"half", "done"}, pc' = [pc EXCEPT ![t] = to], to = "half" => op[t] \in Writes
  PROVE  ReplyInv' /\ Implemented
<1>1. op[t] \in Ops /\ op[t] # None
  BY InLockKinds
<1>2. Result(Seen, op[t]) # None
  BY <1>1, ServerAssumption DEF TakesEffect
<1>3. ReplyInv'
  BY <1>2, AnswerGiven DEF TakesEffect
<1>4. reply[t] = None
  BY DEF ReplyInv
<1>5. Abstract!TakeEffect(t)
  BY <1>1, <1>4, SameRequests, SameResults DEF TakesEffect, Abstract!TakeEffect
<1>6. QED
  BY <1>3, <1>5 DEF Implemented, Abstract!Next

LEMMA StutterStep ==
  ASSUME UNCHANGED <<op, reply>>, Seen' = Seen
  PROVE  Implemented
  BY DEF Implemented, Abstract!vars

LEMMA WriteStep ==
  ASSUME IInv, IInv', ReplyInv, NEW t \in Threads,
         \/ PutFirst(t) \/ PutSecond(t) \/ PutNewList(t)
         \/ DelFirst(t) \/ DelSecond(t) \/ DelAbsent(t)
  PROVE  ReplyInv' /\ Implemented
<1>1. /\ pc[t] \in InLock /\ op[t].type \in {"put", "del"}
      /\ \E to \in {"half", "done"} : pc' = [pc EXCEPT ![t] = to]
  BY DEF PutFirst, PutSecond, PutNewList, DelFirst, DelSecond, DelAbsent, Serving, Goto, InLock
<1>2. op[t] \in Writes
  BY <1>1, InLockKinds
<1>3. CASE PutFirst(t) \/ PutNewList(t) \/ DelFirst(t) \/ DelAbsent(t)
  <2>1. TakesEffect(t)
    BY <1>3, PutTakesEffect, DelTakesEffect
  <2>2. Early(t)
    BY <1>3 DEF PutFirst, PutNewList, DelFirst, DelAbsent, Serving, Goto, Early
  <2>3. QED
    BY <1>1, <1>2, <2>1, <2>2, EffectStep
<1>4. CASE PutSecond(t) \/ DelSecond(t)
  <2>1. Seen' = Seen
    BY <1>4, WriteEnds
  <2>2. UNCHANGED <<op, reply>> /\ pc[t] = "half" /\ pc' = [pc EXCEPT ![t] = "done"]
    BY <1>4 DEF PutSecond, DelSecond, Serving, Goto
  <2>3. pc'[t] = "done" /\ \A u \in Threads : u # t => pc'[u] = pc[u] /\ op'[u] = op[u]
    BY <2>2 DEF IInv, RequestsOK
  <2>4. ~ Early(t) /\ ~ Early(t)'
    BY <1>1, <1>2, <2>2, <2>3, InLockKinds DEF Early, Looking
  <2>5. ReplyInv'
    BY <2>2, <2>3, <2>4, AnswerKept
  <2>6. QED
    BY <2>1, <2>2, <2>5, StutterStep
<1>5. QED
  BY <1>3, <1>4

LEMMA ReadStep ==
  ASSUME IInv, IInv', CopyInv, ReplyInv, NEW t \in Threads,
         \/ GetFinds(t) \/ GetCopies(t) \/ GetAbsent(t) \/ Size(t)
         \/ AllocateArray(t) \/ CopyList(t) \/ SendArray(t)
  PROVE  ReplyInv' /\ Implemented
<1>1. /\ pc[t] \in {"inside", "half"} /\ UNCHANGED <<lists, op>>
      /\ op[t].type \in {"get", "size", "getkeys", "gettable"}
      /\ \/ pc' = pc
         \/ \E to \in {"half", "done"} : pc' = [pc EXCEPT ![t] = to]
  BY DEF GetFinds, GetCopies, GetAbsent, Size, AllocateArray, CopyList, SendArray, Serving, Goto, CopyTypes
<1>2. pc[t] \in InLock /\ op[t] \in Reads /\ op[t] \notin Writes
  BY <1>1, InLockKinds DEF InLock
<1>3. Early(t)
  BY <1>1, <1>2 DEF Early, Looking
<1>4. CASE GetCopies(t) \/ GetAbsent(t) \/ Size(t) \/ SendArray(t)
  <2>1. TakesEffect(t)
    BY <1>4, ReadTakesEffect
  <2>2. pc' = [pc EXCEPT ![t] = "done"]
    BY <1>4 DEF GetCopies, GetAbsent, Size, SendArray, Serving, Goto
  <2>3. QED
    BY <1>2, <1>3, <2>1, <2>2, EffectStep
<1>5. CASE GetFinds(t) \/ AllocateArray(t) \/ CopyList(t)
  <2>1. UNCHANGED <<lists, op, reply>> /\ (pc' = [pc EXCEPT ![t] = "half"] \/ (pc[t] = "half" /\ pc' = pc))
    BY <1>5 DEF GetFinds, AllocateArray, CopyList, Serving, Goto
  <2>2. pc'[t] = "half" /\ \A u \in Threads : u # t => pc'[u] = pc[u] /\ op'[u] = op[u]
    BY <2>1 DEF IInv, RequestsOK
  <2>3. ~ Writing(t) /\ ~ Writing(t)'
    BY <1>1, <1>2 DEF Writing
  <2>4. Seen' = Seen
    BY <2>1, <2>2, <2>3, SeenKept
  <2>5. Early(t)'
    BY <1>2, <2>1, <2>2 DEF Early, Looking
  <2>6. ReplyInv'
    BY <1>3, <2>1, <2>2, <2>5, AnswerKept
  <2>7. QED
    BY <2>1, <2>4, <2>6, StutterStep
<1>6. QED
  BY <1>4, <1>5

LEMMA LockStep ==
  ASSUME IInv, IInv', ReplyInv, NEW t \in Threads,
         StartWrite(t) \/ StartRead(t) \/ EndWrite(t) \/ EndRead(t)
  PROVE  ReplyInv' /\ Implemented
<1>1. /\ UNCHANGED <<lists, op, reply>>
      /\ \/ pc[t] = "called" /\ pc' = [pc EXCEPT ![t] = "inside"]
         \/ pc[t] = "done" /\ pc' = [pc EXCEPT ![t] = "out"]
  BY DEF StartWrite, StartRead, EndWrite, EndRead, Goto
<1>2. /\ \A u \in Threads : u # t => pc'[u] = pc[u] /\ op'[u] = op[u]
      /\ \/ pc[t] = "called" /\ pc'[t] = "inside"
         \/ pc[t] = "done" /\ pc'[t] = "out"
  BY <1>1 DEF IInv, RequestsOK
<1>3. ~ Writing(t) /\ ~ Writing(t)'
  BY <1>2 DEF Writing
<1>4. Seen' = Seen
  BY <1>1, <1>2, <1>3, SeenKept
<1>5. Early(t)' <=> Early(t)
  BY <1>2 DEF Early, Looking
<1>6. ReplyInv'
  BY <1>1, <1>2, <1>5, AnswerKept
<1>7. QED
  BY <1>1, <1>4, <1>6, StutterStep

LEMMA CallStep ==
  ASSUME IInv, IInv', ReplyInv, NEW t \in Threads, Receive(t)
  PROVE  ReplyInv' /\ Implemented
<1>1. /\ pc[t] = "idle" /\ pc' = [pc EXCEPT ![t] = "called"] /\ UNCHANGED <<lists, reply>>
      /\ \E o \in Ops : op' = [op EXCEPT ![t] = o]
  BY DEF Receive, Goto
<1>2. pc'[t] = "called" /\ \A u \in Threads : u # t => pc'[u] = pc[u] /\ op'[u] = op[u]
  BY <1>1 DEF IInv, RequestsOK
<1>3. ~ Writing(t) /\ ~ Writing(t)'
  BY <1>1, <1>2 DEF Writing
<1>4. Seen' = Seen
  BY <1>1, <1>2, <1>3, SeenKept
<1>5. Early(t) /\ Early(t)'
  BY <1>1, <1>2 DEF Early
<1>6. ReplyInv'
  BY <1>1, <1>2, <1>5, AnswerKept
<1>7. op[t] = None
  BY <1>1 DEF ReplyInv
<1>8. Abstract!Call(t)
  BY <1>1, <1>4, <1>7, SameRequests DEF Abstract!Call
<1>9. QED
  BY <1>6, <1>8 DEF Implemented, Abstract!Next

LEMMA ReturnStep ==
  ASSUME IInv, IInv', ReplyInv, NEW t \in Threads, Return(t)
  PROVE  ReplyInv' /\ Implemented
<1>1. /\ pc[t] = "out" /\ pc' = [pc EXCEPT ![t] = "idle"] /\ UNCHANGED lists
      /\ op' = [op EXCEPT ![t] = None] /\ reply' = [reply EXCEPT ![t] = None]
  BY DEF Return, Goto, Answer
<1>2. pc'[t] = "idle" /\ op'[t] = None /\ \A u \in Threads : u # t => pc'[u] = pc[u] /\ op'[u] = op[u]
  BY <1>1 DEF IInv, RequestsOK
<1>3. ~ Writing(t) /\ ~ Writing(t)'
  BY <1>1, <1>2 DEF Writing
<1>4. Seen' = Seen
  BY <1>1, <1>2, <1>3, SeenKept
<1>5. ~ Early(t) /\ Early(t)'
  BY <1>1, <1>2 DEF Early, Looking
<1>6. reply[t] # None
  BY <1>5 DEF ReplyInv
<1>7. ReplyInv'
  <2>1. /\ reply'[t] = None /\ \A u \in Threads : u # t => reply'[u] = reply[u]
        /\ reply' = [u \in Threads |-> reply'[u]]
    BY <1>1 DEF ReplyInv
  <2>2. \A u \in Threads : u # t => (Early(u)' <=> Early(u))
    BY <1>2 DEF Early, Looking
  <2>3. \A u \in Threads : reply'[u] = None <=> Early(u)'
    BY <1>5, <2>1, <2>2 DEF ReplyInv
  <2>4. \A u \in Threads : pc'[u] \in {"idle", "gone"} => op'[u] = None
    BY <1>2 DEF ReplyInv
  <2>5. QED
    BY <2>1, <2>3, <2>4 DEF ReplyInv
<1>8. Abstract!Return(t)
  BY <1>1, <1>4, <1>6 DEF Abstract!Return
<1>9. QED
  BY <1>7, <1>8 DEF Implemented, Abstract!Next

(* A failed allocation is excused, but its request is answered too. *)
LEMMA FailureStep ==
  ASSUME IInv, IInv', ReplyInv, NEW t \in Threads, OutOfMemory(t)
  PROVE  ReplyInv' /\ Implemented
<1>1. Implemented
  BY DEF Implemented
<1>2. CASE PutFails(t) \/ PutIgnoresFailure(t) \/ GetFails(t) \/ ArrayFails(t)
  <2>1. /\ pc[t] \in InLock /\ pc' = [pc EXCEPT ![t] = "done"] /\ UNCHANGED op
        /\ \/ reply' = [reply EXCEPT ![t] = <<"error">>]
           \/ op[t].type = "put" /\ reply' = [reply EXCEPT ![t] = <<"ok">>]
    BY <1>2 DEF PutFails, PutIgnoresFailure, GetFails, ArrayFails, Serving, Goto, Answer, InLock
  <2>2. op[t].type = "put" => <<"ok">> # None
    <3>1. Empty \in Tables
      BY DEF Empty, Tables
    <3>2. Result(Empty, op[t]) # None
      BY <2>1, <3>1, InLockKinds, ServerAssumption
    <3>3. op[t].type = "put" => Result(Empty, op[t]) = <<"ok">>
      BY DEF Result
    <3>4. QED
      BY <3>2, <3>3
  <2>3. PICK r : r # None /\ reply' = [reply EXCEPT ![t] = r]
    BY <2>1, <2>2, ServerAssumption
  <2>4. ReplyInv'
    BY <2>1, <2>3, AnswerGiven
  <2>5. QED
    BY <1>1, <2>4
<1>3. CASE EntryFails(t)
  <2>1. /\ pc[t] = "half" /\ op[t].type = "gettable" /\ pc' = [pc EXCEPT ![t] = "gone"]
        /\ op' = [op EXCEPT ![t] = None] /\ UNCHANGED reply
    BY <1>3 DEF EntryFails, Serving, Goto
  <2>2. pc'[t] = "gone" /\ op'[t] = None /\ \A u \in Threads : u # t => pc'[u] = pc[u] /\ op'[u] = op[u]
    BY <2>1 DEF IInv, RequestsOK
  <2>3. Early(t) /\ Early(t)'
    BY <2>1, <2>2, InLockKinds DEF Early, Looking, InLock
  <2>4. QED
    BY <1>1, <2>1, <2>2, <2>3, AnswerKept
<1>4. QED
  BY <1>2, <1>3 DEF OutOfMemory

(* The worker threads implement the abstract store: each request takes      *)
(* effect at one step of the handler that serves it, between its arrival    *)
(* and its answer, and only a step in which an allocation fails is excused. *)
THEOREM ServerImplementsStore == Spec => ImplementsStore
<1>1. Init => ReplyInv /\ Abstract!Init
  <2> SUFFICES ASSUME Init PROVE ReplyInv /\ Abstract!Init
    OBVIOUS
  <2>1. ReplyInv
    BY DEF Init, ReplyInv, Early, Looking
  <2>2. IInv
    BY InitHolds
  <2>3. Seen = Contents(lists) /\ Ordered(lists)
    BY <2>2, SeenAtRest DEF Init, Writing
  <2>4. EntriesOf(lists) = {}
    BY DEF Init, EntriesOf, Created
  <2>5. Seen = Empty
    BY <2>3, <2>4 DEF Contents, Empty
  <2>6. QED
    BY <2>1, <2>5, SameRequests DEF Init, Abstract!Init
<1>2. IInv /\ IInv' /\ CopyInv /\ ReplyInv /\ [Next]_vars => ReplyInv' /\ Implemented
  <2>1. ASSUME IInv, IInv', CopyInv, ReplyInv, NEW t \in Threads,
               \/ Receive(t) \/ StartWrite(t) \/ StartRead(t)
               \/ Handle(t) \/ OutOfMemory(t)
               \/ EndWrite(t) \/ EndRead(t) \/ Return(t)
        PROVE  ReplyInv' /\ Implemented
    BY <2>1, WriteStep, ReadStep, LockStep, CallStep, ReturnStep, FailureStep DEF Handle
  <2>2. ASSUME ReplyInv, UNCHANGED vars PROVE ReplyInv' /\ Implemented
    <3>1. UNCHANGED <<lists, pc, op, reply>>
      BY <2>2 DEF vars
    <3>2. Seen' = Seen
      BY <3>1 DEF Seen
    <3>3. ReplyInv'
      BY <2>2, <3>1 DEF ReplyInv, Early, Looking
    <3>4. QED
      BY <3>1, <3>2, <3>3, StutterStep
  <2>3. QED
    BY <2>1, <2>2 DEF Next
<1>3. QED
  BY <1>1, <1>2, CopyHolds, PTL DEF Spec, ImplementsStore, Implemented
=============================================================================
