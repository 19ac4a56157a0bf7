------------------------------ MODULE Server ------------------------------
(***************************************************************************)
(* The worker threads of one server over its hash table: thread_client of  *)
(* source/server_network.c and the handlers of invoke in                   *)
(* source/server_skeleton.c.  A request is served between start_* and      *)
(* end_* of the readers-writer lock, here the abstract one that RWLock     *)
(* implements; the handler's use of the table takes several steps, and it  *)
(* is the lock that makes them one.  Any allocation may fail.              *)
(*                                                                         *)
(* Forwards to the next server are in Chain, the counters of STATS in      *)
(* Stats.  Definitions named Slip... are mistakes the properties must      *)
(* notice.                                                                 *)
(***************************************************************************)
EXTENDS Table

CONSTANTS Threads, \* the worker threads
          None     \* no request, no answer

ASSUME ServerAssumption == /\ None \notin Ops
                           /\ <<"error">> # None
                           /\ \A tb \in Tables, o \in Ops : Result(tb, o) # None

VARIABLES
    lists,    \* lists[i]: NULL, or the nodes of list i and its size field
    readers,  \* threads inside start_read and end_read
    writers,  \* threads inside start_write and end_write
    pc,       \* where thread t is in serving its request
    op,       \* op[t]: the request it serves
    reply,    \* reply[t]: the answer it has prepared
    room,     \* room[t]: places in the array that GETKEYS or GETTABLE allocated
    copied,   \* copied[t]: the entries it has put there so far
    visited   \* visited[t]: the lists it has walked

vars == <<lists, readers, writers, pc, op, reply, room, copied, visited>>
lockVars == <<readers, writers>>
copyVars == <<room, copied, visited>>

Lock == INSTANCE RWLockSpec

PCs == { "idle",    \* waits in network_receive
         "called",  \* in start_read or start_write
         "inside",  \* has the lock
         "half",    \* has the lock, in the middle of using the table
         "done",    \* has the lock, is through with the table
         "out",     \* has released the lock, about to answer
         "gone" }   \* has ended without end_read

Init == /\ lists = [i \in Indexes |-> NULL]
        /\ Lock!Init
        /\ pc = [t \in Threads |-> "idle"]
        /\ op = [t \in Threads |-> None]
        /\ reply = [t \in Threads |-> None]
        /\ room = [t \in Threads |-> 0]
        /\ copied = [t \in Threads |-> <<>>]
        /\ visited = [t \in Threads |-> 0]

Goto(t, from, to) == pc[t] = from /\ pc' = [pc EXCEPT ![t] = to]

Answer(t, r) == reply' = [reply EXCEPT ![t] = r]

(* A request arrives, for a key whose hash is an index of the array. *)
Receive(t) == /\ Goto(t, "idle", "called")
              /\ \E o \in Ops : /\ o.key \in Keys => hashValue(o.key) \in Indexes
                                /\ op' = [op EXCEPT ![t] = o]
              /\ UNCHANGED <<lists, lockVars, reply, copyVars>>

(* A writer that looks at the other writers only. *)
SlipStartWrite(t) == /\ op[t] \in Writes
                     /\ Goto(t, "called", "inside")
                     /\ writers = {}
                     /\ writers' = {t}
                     /\ UNCHANGED <<lists, readers, op, reply, copyVars>>

StartWrite(t) == /\ op[t] \in Writes
                 /\ Goto(t, "called", "inside")
                 /\ Lock!EnterWrite(t)
                 /\ UNCHANGED <<lists, op, reply, copyVars>>

(* A reader that looks at nobody. *)
SlipStartRead(t) == /\ op[t] \in Reads
                    /\ Goto(t, "called", "inside")
                    /\ readers' = readers \cup {t}
                    /\ UNCHANGED <<lists, writers, op, reply, copyVars>>

StartRead(t) == /\ op[t] \in Reads
                /\ Goto(t, "called", "inside")
                /\ Lock!EnterRead(t)
                /\ UNCHANGED <<lists, op, reply, copyVars>>

Serving(t, from, to, type) == Goto(t, from, to) /\ op[t].type = type
---------------------------------------------------------------------------
EntryOf(t) == [key |-> op[t].key, value |-> op[t].val]

(* A list that depends on the value too. *)
SlipListOf(t) == (hashValue(op[t].key) + (IF op[t].type = "put" THEN 1 ELSE 0)) % NumLists

ListOf(t) == hashValue(op[t].key)

Found(t) == LET l == lists[ListOf(t)] IN l # NULL /\ StopsAt(l.nodes, op[t].key)

(* table_put into a list that exists: list_add in its two steps. *)
PutFirst(t) == /\ Serving(t, "inside", "half", "put")
               /\ lists[ListOf(t)] # NULL
               /\ lists' = [lists EXCEPT ![ListOf(t)] = FirstOfAdd(@, EntryOf(t))]
               /\ Answer(t, <<"ok">>)
               /\ UNCHANGED <<lockVars, op, copyVars>>

PutSecond(t) == /\ Serving(t, "half", "done", "put")
                /\ lists' = [lists EXCEPT ![ListOf(t)] = SecondOfAdd(@, EntryOf(t))]
                /\ UNCHANGED <<lockVars, op, reply, copyVars>>

(* table_put without a list: one is made, filled and then put in the array. *)
PutNewList(t) == /\ Serving(t, "inside", "done", "put")
                 /\ lists[ListOf(t)] = NULL
                 /\ lists' = [lists EXCEPT ![ListOf(t)] = [nodes |-> <<EntryOf(t)>>, size |-> 1]]
                 /\ Answer(t, <<"ok">>)
                 /\ UNCHANGED <<lockVars, op, copyVars>>

(* An error that returns before end_write. *)
SlipPutFails(t) == /\ Serving(t, "inside", "out", "put")
                   /\ Answer(t, <<"error">>)
                   /\ UNCHANGED <<lists, lockVars, op, copyVars>>

(* No memory for the block, the copies, the entry or the list: -1 and      *)
(* nothing is stored.                                                      *)
PutFails(t) == /\ Serving(t, "inside", "done", "put")
               /\ Answer(t, <<"error">>)
               /\ UNCHANGED <<lists, lockVars, op, copyVars>>

(* No memory for the node: list_add says so and table_put does not listen. *)
PutIgnoresFailure(t) ==
    /\ Serving(t, "inside", "done", "put")
    /\ ~ Found(t)
    /\ lists' = [lists EXCEPT ![ListOf(t)] = IF @ = NULL THEN list_create ELSE @]
    /\ Answer(t, <<"ok">>)
    /\ UNCHANGED <<lockVars, op, copyVars>>

(* table_remove: list_remove in its two steps, -1 without a list, 1 without *)
(* the key.                                                                *)
DelFirst(t) == /\ Serving(t, "inside", "half", "del")
               /\ Found(t)
               /\ lists' = [lists EXCEPT ![ListOf(t)] = FirstOfRemove(@, op[t].key)]
               /\ Answer(t, <<"ok">>)
               /\ UNCHANGED <<lockVars, op, copyVars>>

DelSecond(t) == /\ Serving(t, "half", "done", "del")
                /\ lists' = [lists EXCEPT ![ListOf(t)] = SecondOfRemove(@, op[t].key)]
                /\ UNCHANGED <<lockVars, op, reply, copyVars>>

(* A removal that is counted when it finds nothing. *)
SlipDelAbsent(t) == /\ Serving(t, "inside", "done", "del")
                    /\ ~ Found(t)
                    /\ lists' = [lists EXCEPT ![ListOf(t)].size = @ - 1]
                    /\ Answer(t, <<"error">>)
                    /\ UNCHANGED <<lockVars, op, copyVars>>

DelAbsent(t) == /\ Serving(t, "inside", "done", "del")
                /\ ~ Found(t)
                /\ Answer(t, <<"error">>)
                /\ UNCHANGED <<lists, lockVars, op, copyVars>>
---------------------------------------------------------------------------
(* table_get: list_get returns a pointer to the entry; its block is copied *)
(* afterwards.                                                             *)
GetFinds(t) == /\ Serving(t, "inside", "half", "get")
               /\ Found(t)
               /\ UNCHANGED <<lists, lockVars, op, reply, copyVars>>

GetCopies(t) == /\ Serving(t, "half", "done", "get")
                /\ Answer(t, <<"value", list_get(lists[ListOf(t)], op[t].key)>>)
                /\ UNCHANGED <<lists, lockVars, op, copyVars>>

GetAbsent(t) == /\ Serving(t, "inside", "done", "get")
                /\ ~ Found(t)
                /\ Answer(t, <<"error">>)
                /\ UNCHANGED <<lists, lockVars, op, copyVars>>

(* No memory for the copy: as if the key were not there. *)
GetFails(t) == /\ Serving(t, "half", "done", "get")
               /\ Answer(t, <<"error">>)
               /\ UNCHANGED <<lists, lockVars, op, copyVars>>

Size(t) == /\ Serving(t, "inside", "done", "size")
           /\ Answer(t, <<"size", table_size(lists)>>)
           /\ UNCHANGED <<lists, lockVars, op, copyVars>>

CopyTypes == {"getkeys", "gettable"}

(* The array is allocated by the counters of the lists, with one place for  *)
(* the NULL at its end, *)
AllocateArray(t) == /\ op[t] # None /\ op[t].type \in CopyTypes
                    /\ Goto(t, "inside", "half")
                    /\ room' = [room EXCEPT ![t] = table_size(lists) + 1]
                    /\ UNCHANGED <<lists, lockVars, op, reply, copied, visited>>

(* filled list by list, ... *)
CopyList(t) == /\ op[t] # None /\ op[t].type \in CopyTypes
               /\ pc[t] = "half" /\ visited[t] < NumLists
               /\ copied' = [copied EXCEPT ![t] = @ \o lists[visited[t]].nodes]
               /\ visited' = [visited EXCEPT ![t] = @ + 1]
               /\ UNCHANGED <<lists, lockVars, pc, op, reply, room>>

(* and the number of its entries is taken from the counters again. *)
ArrayReply(t) ==
    IF table_size(lists) # Len(copied[t]) THEN <<"garbage">>
    ELSE IF op[t].type = "getkeys" THEN <<"keys", {e.key : e \in ToSet(copied[t])}>>
    ELSE <<"table", [k \in Keys |-> IF \E e \in ToSet(copied[t]) : e.key = k
                                    THEN (CHOOSE e \in ToSet(copied[t]) : e.key = k).value
                                    ELSE NoVal]>>

LeaveArray(t) == /\ room' = [room EXCEPT ![t] = 0]
                 /\ copied' = [copied EXCEPT ![t] = <<>>]
                 /\ visited' = [visited EXCEPT ![t] = 0]

SendArray(t) == /\ op[t] # None /\ op[t].type \in CopyTypes
                /\ visited[t] = NumLists
                /\ Goto(t, "half", "done")
                /\ Answer(t, ArrayReply(t))
                /\ LeaveArray(t)
                /\ UNCHANGED <<lists, lockVars, op>>

(* No memory for the array. *)
ArrayFails(t) == /\ op[t] # None /\ op[t].type \in CopyTypes
                 /\ Goto(t, "inside", "done")
                 /\ Answer(t, <<"error">>)
                 /\ UNCHANGED <<lists, lockVars, op, copyVars>>

(* No memory for an entry of GETTABLE: invoke returns without end_read and  *)
(* thread_client closes the connection.                                     *)
EntryFails(t) == /\ Serving(t, "half", "gone", "gettable")
                 /\ visited[t] < NumLists
                 /\ lists[visited[t]].nodes # <<>>
                 /\ op' = [op EXCEPT ![t] = None]
                 /\ LeaveArray(t)
                 /\ UNCHANGED <<lists, lockVars, reply>>
---------------------------------------------------------------------------
EndWrite(t) == /\ op[t] \in Writes
               /\ Goto(t, "done", "out")
               /\ Lock!LeaveWrite(t)
               /\ UNCHANGED <<lists, op, reply, copyVars>>

EndRead(t) == /\ op[t] \in Reads
              /\ Goto(t, "done", "out")
              /\ Lock!LeaveRead(t)
              /\ UNCHANGED <<lists, op, reply, copyVars>>

(* network_send; when invoke returned -1 the connection is closed instead   *)
(* and a thread for another one takes the place: an error all the same.     *)
Return(t) == /\ Goto(t, "out", "idle")
             /\ op' = [op EXCEPT ![t] = None]
             /\ Answer(t, None)
             /\ UNCHANGED <<lists, lockVars, copyVars>>

OutOfMemory(t) == \/ PutFails(t) \/ PutIgnoresFailure(t) \/ GetFails(t)
                  \/ ArrayFails(t) \/ EntryFails(t)

Handle(t) == \/ PutFirst(t) \/ PutSecond(t) \/ PutNewList(t)
             \/ DelFirst(t) \/ DelSecond(t) \/ DelAbsent(t)
             \/ GetFinds(t) \/ GetCopies(t) \/ GetAbsent(t) \/ Size(t)
             \/ AllocateArray(t) \/ CopyList(t) \/ SendArray(t)

Next == \E t \in Threads : \/ Receive(t) \/ StartWrite(t) \/ StartRead(t)
                           \/ Handle(t) \/ OutOfMemory(t)
                           \/ EndWrite(t) \/ EndRead(t) \/ Return(t)

Spec == Init /\ [][Next]_vars
---------------------------------------------------------------------------
(* The shapes of the variables; the size of a list is never negative. *)
TypeOK == /\ \A i \in Created(lists) : /\ lists[i].nodes \in Seq(Entries)
                                       /\ lists[i].size \in Nat
          /\ readers \subseteq Threads /\ writers \subseteq Threads
          /\ pc \in [Threads -> PCs]
          /\ op \in [Threads -> Ops \cup {None}]
          /\ room \in [Threads -> Nat]
          /\ copied \in [Threads -> Seq(Entries)]
          /\ visited \in [Threads -> 0 .. NumLists]

(* Every list is sorted by key and holds a key once, at every moment: the   *)
(* searches of other threads, which stop at the first greater key, find     *)
(* what is there.                                                           *)
ListsSorted == \A i \in Indexes : \A m, n \in DOMAIN lists[i].nodes :
    m < n => lists[i].nodes[m].key < lists[i].nodes[n].key

(* Every entry is in the list its hash names, so no key is in two lists. *)
InOwnList == \A i \in Indexes : \A n \in DOMAIN lists[i].nodes :
    hashValue(lists[i].nodes[n].key) = i

(* Unless a writer is at work the size fields count the nodes, and no node  *)
(* has an entry that was destroyed: a failed allocation leaves no list in   *)
(* the middle of a change.                                                  *)
AtRest == writers = {} =>
    \A i \in Created(lists) : /\ lists[i].size = Len(lists[i].nodes)
                              /\ \A e \in ToSet(lists[i].nodes) : e.value # Freed

(* GETKEYS and GETTABLE never write beyond the array they allocated by the  *)
(* counters before they walked the lists: nothing is added in between.      *)
CopyFits == \A t \in Threads : room[t] > 0 => Len(copied[t]) < room[t]

(* The threads in the lock are those that use the table and those that      *)
(* EntryFails has ended: no other way out of a handler, those of its errors *)
(* included, leaves the lock held for ever or gives it up too early.        *)
LockHeldInUse == readers \cup writers =
                   {t \in Threads : pc[t] \in {"inside", "half", "done", "gone"}}

(* The table that other threads will see: a destroyed entry stands for what *)
(* the writer at work puts in its place.                                    *)
Seen == [k \in Keys |->
    IF Contents(lists)[k] = Freed
    THEN op[CHOOSE t \in Threads : pc[t] = "half" /\ op[t] \in Writes /\ op[t].key = k].val
    ELSE Contents(lists)[k]]

(* The worker threads together implement the abstract store, one table on   *)
(* which requests take effect one at a time, in every step in which no      *)
(* allocation fails, those that come after a failed one included.           *)
Abstract == INSTANCE KVStore WITH
    Clients <- Threads, store <- Seen, request <- op, answer <- reply
ImplementsStore == Abstract!Init /\ [][Abstract!Next \/ \E t \in Threads : OutOfMemory(t)]_(Abstract!vars)

(* The hash of a key is an index of the array. *)
IndexInBounds == \A k \in Keys : hashValue(k) \in Indexes

(* A put that is answered with success has stored its value. *)
PutOkIsStored == \A t \in Threads :
    pc[t] = "done" /\ op[t].type = "put" /\ reply[t] = <<"ok">> => Seen[op[t].key] = op[t].val

(* A thread that has ended has left the lock. *)
EndedLeavesLock == \A t \in Threads : pc[t] = "gone" => t \notin readers \cup writers
===========================================================================
