------------------------------- MODULE Table -------------------------------
(***************************************************************************)
(* The data structure behind the hash table: source/table.c over           *)
(* source/list.c.  A table is an array of lists, each created when its     *)
(* first entry arrives and sorted by key; a list counts its nodes.  The    *)
(* worker threads that use it are in Server.                               *)
(*                                                                         *)
(* A key is a number, its rank in the order of strcmp; all the hash sees   *)
(* of it is the sum of its characters, CharSum[k].  An operator of two     *)
(* steps (First..., then Second...) leaves the list between them as the    *)
(* code has it between two assignments.  Definitions named Slip... are     *)
(* mistakes the properties must notice.                                    *)
(***************************************************************************)
EXTENDS TableOps, Integers, SequencesExt

CONSTANTS
    NumLists, \* n_lists, the second argument of the server
    CharSum   \* CharSum[k]: the sum of the (signed) characters of k

(* The value of a node whose entry has been destroyed. *)
Freed == <<"freed">>

ASSUME TableAssumption == /\ NumLists \in Nat \ {0}
                          /\ Keys \subseteq Nat
                          /\ CharSum \in [Keys -> Int]
                          /\ Freed \notin Vals \cup {NoVal}

Indexes == 0 .. NumLists - 1

Entries == [key : Keys, value : Vals \cup {Freed}]

NULL == [nodes |-> <<>>, size |-> -1]

(* The remainder of C has the sign of the dividend. *)
hashValue(k) == IF CharSum[k] >= 0 THEN CharSum[k] % NumLists
                ELSE - ((- CharSum[k]) % NumLists)
---------------------------------------------------------------------------
(* The nodes that the loops of list.c pass before they stop: those of the  *)
(* longest prefix with keys below k.                                       *)
Passed(nodes, k) ==
    CHOOSE n \in 0 .. Len(nodes) :
        /\ \A i \in 1 .. n : nodes[i].key < k
        /\ n < Len(nodes) => nodes[n + 1].key >= k

(* Whether the loop stops at a node with that very key. *)
StopsAt(nodes, k) == LET n == Passed(nodes, k)
                     IN  n < Len(nodes) /\ nodes[n + 1].key = k

list_create == [nodes |-> <<>>, size |-> 0]

(* An insertion that stops one node late. *)
SlipFirstOfAdd(l, e) ==
    LET n == Passed(l.nodes, e.key) IN
    IF StopsAt(l.nodes, e.key)
    THEN [l EXCEPT !.nodes[n + 1].value = Freed]
    ELSE [l EXCEPT !.nodes = InsertAt(@, IF n < Len(l.nodes) THEN n + 2 ELSE n + 1, e)]

(***************************************************************************)
(* list_add: an entry with the same key is destroyed and then replaced; a  *)
(* node before the first greater key is linked and then counted.           *)
(***************************************************************************)
FirstOfAdd(l, e) == LET n == Passed(l.nodes, e.key) IN
                    IF StopsAt(l.nodes, e.key)
                    THEN [l EXCEPT !.nodes[n + 1].value = Freed]
                    ELSE [l EXCEPT !.nodes = InsertAt(@, n + 1, e)]

SecondOfAdd(l, e) == LET n == Passed(l.nodes, e.key) IN
                     IF l.nodes[n + 1].value = Freed
                     THEN [l EXCEPT !.nodes[n + 1] = e]
                     ELSE [l EXCEPT !.size = @ + 1]

(* list_get *)
list_get(l, k) == IF StopsAt(l.nodes, k) THEN l.nodes[Passed(l.nodes, k) + 1].value ELSE NoVal

(* list_remove, once it has found the key: its entry is destroyed, *)
FirstOfRemove(l, k) == [l EXCEPT !.nodes[Passed(l.nodes, k) + 1].value = Freed]

(* A removal that forgets the counter. *)
SlipSecondOfRemove(l, k) == [l EXCEPT !.nodes = RemoveAt(@, Passed(l.nodes, k) + 1)]

(* then its node is unlinked and no longer counted. *)
SecondOfRemove(l, k) == [nodes |-> RemoveAt(l.nodes, Passed(l.nodes, k) + 1), size |-> l.size - 1]
---------------------------------------------------------------------------
(* Lists that exist, in the order in which table.c visits them. *)
Created(ls) == {i \in Indexes : ls[i] # NULL}

(* The loop of table_size: what it has added up after n lists. *)
Totals(ls) == LET total[n \in 0 .. NumLists] ==
                      IF n = 0 THEN 0
                      ELSE total[n - 1] + (IF ls[n - 1] = NULL THEN 0 ELSE ls[n - 1].size)
              IN  total

table_size(ls) == Totals(ls)[NumLists]

EntriesOf(ls) == UNION {ToSet(ls[i].nodes) : i \in Created(ls)}

(* The table that the lists hold. *)
Contents(ls) == [k \in Keys |->
    IF \E e \in EntriesOf(ls) : e.key = k
    THEN (CHOOSE e \in EntriesOf(ls) : e.key = k).value ELSE NoVal]
===========================================================================
