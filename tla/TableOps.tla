----------------------------- MODULE TableOps -----------------------------
(***************************************************************************)
(* The requests of the wire protocol that read or write the table, and     *)
(* what the handler of each does to one table: the calls of table_* made   *)
(* by invoke (source/server_skeleton.c).  A table is a function from keys  *)
(* to values, NoVal standing for an absent key.                            *)
(***************************************************************************)
EXTENDS Integers, FiniteSets

CONSTANTS Keys, Vals, NoVal

ASSUME ValuesAssumption == NoVal \notin Vals

Tables == [Keys -> Vals \cup {NoVal}]

Empty == [k \in Keys |-> NoVal]

(* A request: its opcode, its key and its value (NoVal where it has none). *)
Writes == [type : {"put"}, key : Keys, val : Vals]
          \cup [type : {"del"}, key : Keys, val : {NoVal}]

Reads == [type : {"get"}, key : Keys, val : {NoVal}]
         \cup {[type |-> t, key |-> NoVal, val |-> NoVal] : t \in {"size", "getkeys", "gettable"}}

Ops == Writes \cup Reads

Present(tb) == {k \in Keys : tb[k] # NoVal}

(* What table_put or table_remove leaves: the value of the key is replaced, *)
(* or the key goes; an absent key is left absent.                           *)
Effect(tb, op) == [tb EXCEPT ![op.key] = op.val]

(* The answer invoke puts in the reply: OP_ERROR for a key that is not there. *)
Result(tb, op) ==
    CASE op.type = "put"      -> <<"ok">>
      [] op.type = "del"      -> IF op.key \in Present(tb) THEN <<"ok">> ELSE <<"error">>
      [] op.type = "get"      -> IF op.key \in Present(tb) THEN <<"value", tb[op.key]>>
                                                           ELSE <<"error">>
      [] op.type = "size"     -> <<"size", Cardinality(Present(tb))>>
      [] op.type = "getkeys"  -> <<"keys", Present(tb)>>
      [] op.type = "gettable" -> <<"table", tb>>

===========================================================================
