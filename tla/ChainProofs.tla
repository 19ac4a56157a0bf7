---------------------------- MODULE ChainProofs ----------------------------
(***************************************************************************)
(* Chain replication keeps its copies together for every number of servers, *)
(* every set of clients and every set of keys and values.                  *)
(***************************************************************************)
EXTENDS Chain, TLAPS

(* A request is a read or a write, never both. *)
LEMMA ReadsNotWrites == \A o \in Reads : o \notin Writes
  BY DEF Reads, Writes

(* Writes keep tables well formed. *)
LEMMA EffectType ==
  ASSUME NEW tb \in Tables, NEW o \in Writes
  PROVE  Effect(tb, o) \in Tables
  BY DEF Tables, Effect, Writes

(* The only thread that writes at a server behind the head is the one that *)
(* serves the connection from its predecessor.                             *)
LEMMA LinkWriters ==
  ASSUME TypeOK, RequestOK, NEW j \in Links, NEW t
  PROVE  t \in WritersAt(j) <=> t = j /\ pc[j] \in {"forwarding", "written"}
<1>1. j # 1 /\ j \in Threads
  BY ChainAssumption DEF Links, Threads
<1>2. CASE t \in Links
  BY <1>2, <1>1 DEF WritersAt, AtServer, Server, Threads
<1>3. CASE t \in Clients
  BY <1>3, <1>1, ChainAssumption DEF WritersAt, AtServer, Server, RequestOK, Threads
<1>4. QED
  BY <1>1, <1>2, <1>3 DEF WritersAt, Threads

(* The writers at the head are clients' threads. *)
LEMMA HeadWriters ==
  ASSUME TypeOK, RequestOK, NEW t
  PROVE  t \in WritersAt(1) <=> t \in Clients /\ pc[t] \in {"forwarding", "written"}
<1>1. 1 \notin Links
  BY ChainAssumption DEF Links
<1>2. QED
  BY <1>1, ChainAssumption DEF WritersAt, AtServer, Server, Threads, RequestOK

(* Readers are clients' threads at the tail. *)
LEMMA TailReaders ==
  ASSUME TypeOK, RequestOK, NEW i \in Servers, NEW t \in ReadersAt(i)
  PROVE  i = N /\ t \in Clients /\ pc[t] = "reading" /\ op[t] \in Reads
  BY ReadsNotWrites, ChainAssumption
     DEF ReadersAt, AtServer, Server, TypeOK, RequestOK, Threads

(* Two links are never both waiting to apply a write. *)
LEMMA OneSent ==
  ASSUME TypeOK, RequestOK, OneWriteInFlight, NEW j \in Links, NEW k \in Links,
         pc[j] # "idle", j < k
  PROVE  pc[k] # "idle" => pc[j] = "forwarding" /\ op[j] = op[k]
<1> SUFFICES ASSUME pc[k] # "idle" PROVE pc[j] = "forwarding" /\ op[j] = op[k]
  OBVIOUS
<1>1. j \in 1 .. k - 1
  BY ChainAssumption DEF Links
<1>2. PICK t \in WritersAt(j) : pc[t] = "forwarding" /\ op[t] = op[k]
  BY <1>1 DEF OneWriteInFlight
<1>3. QED
  BY <1>2, LinkWriters

LEMMA InitIInv == Init => IInv
<1> SUFFICES ASSUME Init PROVE IInv
  OBVIOUS
<1>1. TypeOK
  BY DEF Init, TypeOK, Tables, Empty, PCs, Threads
<1>2. \A i : WritersAt(i) = {} /\ ReadersAt(i) = {}
  BY DEF Init, WritersAt, ReadersAt, AtServer
<1>3. RequestOK /\ LockOK
  BY <1>2 DEF Init, RequestOK, LockOK
<1>4. OneWriteInFlight
  BY <1>2 DEF Init, OneWriteInFlight, Threads
<1>5. ReplicasAgree
  BY DEF Init, ReplicasAgree, Threads
<1>6. QED
  BY <1>1, <1>3, <1>4, <1>5 DEF IInv

(* Steps of a client's thread that neither take nor release a write lock:  *)
(* the links, the writers and the tables stay as they were.                *)
LEMMA ClientQuiet ==
  ASSUME IInv, NEW c \in Clients, UNCHANGED table,
         TypeOK', RequestOK',
         pc' = [pc EXCEPT ![c] = pc'[c]], op' = [op EXCEPT ![c] = op'[c]],
         pc[c] \notin {"forwarding", "written"}, pc'[c] \notin {"forwarding", "written"},
         pc'[c] = "reading" => WritersAt(N) = {} \/ (pc[c] = "reading" /\ op'[c] = op[c])
  PROVE  LockOK' /\ OneWriteInFlight' /\ ReplicasAgree'
<1> USE DEF IInv
<1>1. c \in Threads /\ c \notin Links /\ Links \subseteq Threads
  BY ChainAssumption DEF Threads
<1>2. \A j \in Links : pc'[j] = pc[j] /\ op'[j] = op[j]
  BY <1>1 DEF TypeOK
<1>3. \A i : WritersAt(i)' = WritersAt(i)
  BY <1>1 DEF TypeOK, WritersAt, AtServer, Server
<1>4. \A i : \A t \in WritersAt(i) : t # c /\ pc'[t] = pc[t] /\ op'[t] = op[t]
  BY <1>1 DEF TypeOK, WritersAt
<1>5. LockOK'
  <2> SUFFICES ASSUME NEW i \in Servers, NEW t \in WritersAt(i)'
               PROVE  WritersAt(i)' = {t} /\ ReadersAt(i)' = {}
    BY DEF LockOK
  <2>1. t \in WritersAt(i) /\ WritersAt(i) = {t} /\ ReadersAt(i) = {}
    BY <1>3 DEF LockOK
  <2>2. \A u \in ReadersAt(i)' : u = c /\ i = N /\ pc'[c] = "reading"
    <3> SUFFICES ASSUME NEW u \in ReadersAt(i)'
                 PROVE  u = c /\ i = N /\ pc'[c] = "reading"
      OBVIOUS
    <3>1. CASE u # c
      BY <3>1, <2>1 DEF TypeOK, ReadersAt, AtServer, Server
    <3>2. CASE u = c
      BY <3>2, <1>1, ReadsNotWrites DEF TypeOK, RequestOK, ReadersAt, AtServer, Server
    <3>3. QED
      BY <3>1, <3>2
  <2>3. ReadersAt(i)' = {}
    <3>1. CASE pc'[c] = "reading" /\ WritersAt(N) = {}
      BY <3>1, <2>1, <2>2
    <3>2. CASE pc'[c] = "reading" /\ pc[c] = "reading" /\ op'[c] = op[c]
      BY <3>2, <2>1, <2>2, <1>1 DEF TypeOK, ReadersAt, AtServer, Server
    <3>3. CASE pc'[c] # "reading"
      BY <3>3, <2>2
    <3>4. QED
      BY <3>1, <3>2, <3>3
  <2>4. QED
    BY <1>3, <2>1, <2>3
<1>6. OneWriteInFlight'
  BY <1>2, <1>3, <1>4 DEF OneWriteInFlight
<1>7. ReplicasAgree'
  BY <1>2 DEF ReplicasAgree
<1>8. QED
  BY <1>5, <1>6, <1>7

LEMMA CallStep ==
  ASSUME IInv, NEW c \in Clients, Call(c)
  PROVE  IInv'
<1> USE DEF IInv
<1>1. c \in Threads /\ c \notin Links
  BY ChainAssumption DEF Threads
<1>2. TypeOK'
  BY <1>1, ChainAssumption DEF Call, TypeOK, PCs
<1>3. RequestOK'
  BY <1>1 DEF Call, TypeOK, RequestOK, Server
<1>4. QED
  BY <1>1, <1>2, <1>3, ClientQuiet DEF Call, TypeOK

LEMMA ClientStepStep ==
  ASSUME IInv, NEW c \in Clients, ClientStep(c)
  PROVE  IInv'
<1> USE DEF IInv
<1>1. c \in Threads /\ c \notin Links
  BY ChainAssumption DEF Threads
<1>2. CASE StartRead(c)
  <2>1. TypeOK'
    BY <1>1, <1>2 DEF StartRead, TypeOK, PCs
  <2>2. RequestOK'
    BY <1>1, <1>2 DEF StartRead, TypeOK, RequestOK, Server
  <2>3. QED
    BY <1>1, <1>2, <2>1, <2>2, ClientQuiet DEF StartRead, TypeOK
<1>3. CASE EndRead(c)
  <2>1. TypeOK'
    BY <1>1, <1>3 DEF EndRead, TypeOK, PCs
  <2>2. RequestOK'
    BY <1>1, <1>3 DEF EndRead, TypeOK, RequestOK, Server
  <2>3. QED
    BY <1>1, <1>3, <2>1, <2>2, ClientQuiet DEF EndRead, TypeOK
<1>4. CASE Return(c)
  <2>1. TypeOK'
    BY <1>1, <1>4 DEF Return, TypeOK, PCs
  <2>2. RequestOK'
    BY <1>1, <1>4 DEF Return, TypeOK, RequestOK, Server
  <2>3. QED
    BY <1>1, <1>4, <2>1, <2>2, ClientQuiet DEF Return, TypeOK
<1>5. QED
  BY <1>2, <1>3, <1>4 DEF ClientStep

(* end_write: the writer leaves; nobody was waiting for it to forward. *)
LEMMA EndWriteStep ==
  ASSUME IInv, NEW t \in Threads, EndWrite(t)
  PROVE  IInv'
<1> USE DEF IInv, EndWrite
<1>1. Links \subseteq Threads
  BY DEF Threads
<1>2. TypeOK'
  BY <1>1 DEF TypeOK, PCs
<1>3. RequestOK'
  BY DEF TypeOK, RequestOK, Server
<1>4. \A i : WritersAt(i)' = WritersAt(i) \ {t} /\ ReadersAt(i)' = ReadersAt(i)
  BY DEF TypeOK, WritersAt, ReadersAt, AtServer, Server
<1>5. LockOK'
  BY <1>4 DEF LockOK
<1>6. OneWriteInFlight'
  <2>1. \A u \in Threads : u # t => pc'[u] = pc[u]
    BY DEF TypeOK
  <2>2. \A j \in Links : pc'[j] = "idle" <=> pc[j] = "idle"
    BY <1>1 DEF TypeOK
  <2>3. \A i : \A u \in WritersAt(i) : u \in Threads
    BY DEF WritersAt
  <2>4. QED
    BY <1>4, <2>1, <2>2, <2>3 DEF OneWriteInFlight
<1>7. ReplicasAgree'
  <2>1. \A j \in Links : pc'[j] = "sent" <=> pc[j] = "sent"
    BY <1>1 DEF TypeOK
  <2>2. QED
    BY <2>1 DEF ReplicasAgree
<1>8. QED
  BY <1>2, <1>3, <1>5, <1>6, <1>7

(* The reply of server j: only the last busy link can reply, so no link     *)
(* behind it is busy, and the thread it answers is the one that forwarded.  *)
LEMMA ReplyStep ==
  ASSUME IInv, NEW j \in Links, Reply(j)
  PROVE  IInv'
<1> USE DEF IInv
<1>1. j \in Threads /\ Links \subseteq Threads /\ None \notin Writes
  BY ChainAssumption DEF Threads, Ops
<1>2. \A i : j \notin WritersAt(i) /\ j \notin ReadersAt(i)
  BY DEF Reply, WritersAt, ReadersAt
<1>3. \A t \in Threads : pc'[t] = IF t = j THEN "idle"
                                 ELSE IF t \in WritersAt(j - 1) THEN "written" ELSE pc[t]
  BY DEF Reply
<1>4. \A t \in Threads : op'[t] = IF t = j THEN None ELSE op[t]
  BY DEF Reply, TypeOK
<1>5. TypeOK'
  <2>1. op' \in [Threads -> Ops \cup {None}] /\ pc' \in [Threads -> PCs]
    BY DEF Reply, TypeOK, PCs
  <2>2. \A t \in Threads : op'[t] = None <=> pc'[t] = "idle"
    BY <1>3, <1>4 DEF TypeOK, WritersAt, AtServer
  <2>3. \A k \in Links : op'[k] \in Writes \cup {None} /\ pc'[k] # "reading"
    BY <1>1, <1>3, <1>4 DEF TypeOK
  <2>4. QED
    BY <2>1, <2>2, <2>3 DEF TypeOK, Reply
<1>6. \A t \in Threads : t # j => Server(t)' = Server(t)
  BY <1>4 DEF Server
<1>7. RequestOK'
  BY <1>1, <1>3, <1>4, <1>6 DEF RequestOK, WritersAt
<1>8. \A i : WritersAt(i)' = WritersAt(i) /\ ReadersAt(i)' = ReadersAt(i)
  <2> SUFFICES ASSUME NEW i, NEW t \in Threads
               PROVE  /\ t \in WritersAt(i)' <=> t \in WritersAt(i)
                      /\ t \in ReadersAt(i)' <=> t \in ReadersAt(i)
    BY DEF WritersAt, ReadersAt
  <2>1. CASE t = j
    BY <2>1, <1>2, <1>3 DEF WritersAt, ReadersAt, AtServer
  <2>2. CASE t # j
    BY <2>2, <1>3, <1>6 DEF WritersAt, ReadersAt, AtServer
  <2>3. QED
    BY <2>1, <2>2
<1>9. LockOK'
  BY <1>8 DEF LockOK
<1>10. OneWriteInFlight'
  <2> SUFFICES ASSUME NEW k \in Links
               PROVE  /\ pc'[k] # "idle" =>
                            \A i \in 1 .. k - 1 : \E t \in WritersAt(i) :
                                pc'[t] = "forwarding" /\ op'[t] = op'[k]
                      /\ pc'[k] = "idle" => \A t \in WritersAt(k - 1) : pc'[t] = "written"
    BY <1>8 DEF OneWriteInFlight
  <2>1. CASE k > j
    <3>1. pc[k] = "idle"
      BY <2>1, OneSent, ChainAssumption DEF Reply, Links
    <3>2. pc'[k] = "idle"
      BY <3>1, <2>1, <1>1, <1>3, ChainAssumption DEF WritersAt, AtServer, Links
    <3>3. \A t \in WritersAt(k - 1) : pc'[t] = "written"
      BY <3>1, <1>2, <1>3 DEF OneWriteInFlight, WritersAt
    <3>4. QED
      BY <3>2, <3>3
  <2>2. CASE k = j
    BY <2>2, <1>1, <1>2, <1>3 DEF WritersAt
  <2>3. CASE k < j
    <3>1. pc'[k] = "idle" <=> pc[k] = "idle"
      BY <2>3, <1>1, <1>3, ChainAssumption DEF WritersAt, AtServer, Links
    <3>2. ASSUME pc'[k] # "idle", NEW i \in 1 .. k - 1
          PROVE  \E t \in WritersAt(i) : pc'[t] = "forwarding" /\ op'[t] = op'[k]
      <4>1. PICK t \in WritersAt(i) : pc[t] = "forwarding" /\ op[t] = op[k]
        BY <3>1, <3>2 DEF OneWriteInFlight
      <4>2. i # j - 1 /\ t # j /\ k # j /\ t \in Threads
        BY <2>3, <4>1, <1>2, ChainAssumption DEF Links, WritersAt
      <4>3. t \notin WritersAt(j - 1)
        BY <4>1, <4>2 DEF WritersAt, AtServer
      <4>4. QED
        BY <4>1, <4>2, <4>3, <1>1, <1>3, <1>4
    <3>3. ASSUME pc'[k] = "idle", NEW t \in WritersAt(k - 1)
          PROVE  pc'[t] = "written"
      BY <3>1, <3>3, <1>2, <1>3 DEF OneWriteInFlight, WritersAt
    <3>4. QED
      BY <3>2, <3>3
  <2>4. QED
    BY <2>1, <2>2, <2>3, ChainAssumption DEF Links
<1>11. ReplicasAgree'
  <2>1. \A k \in Links : pc'[k] = "sent" <=> pc[k] = "sent"
    BY <1>1, <1>3 DEF Reply, WritersAt
  <2>2. \A k \in Links : pc'[k] = "sent" => op'[k] = op[k]
    BY <2>1, <1>1, <1>4 DEF Reply
  <2>3. table' = table
    BY DEF Reply
  <2>4. QED
    BY <2>1, <2>2, <2>3 DEF ReplicasAgree
<1>12. QED
  BY <1>5, <1>7, <1>9, <1>10, <1>11

(* A write reaches the next server only when every link behind the writer  *)
(* is idle, and, past the head, the servers before it all have it already.  *)
LEMMA WriteStep ==
  ASSUME IInv, NEW t \in Threads, Write(t)
  PROVE  IInv'
<1> USE DEF IInv
<1>1. /\ Links \subseteq Threads /\ Links \subseteq Servers /\ 1 \in Servers
      /\ N \in Nat \ {0} /\ Servers \subseteq Int
  BY ChainAssumption DEF Threads, Links, Servers
<1>0. PICK i : i = Server(t)
  OBVIOUS
<1>2. /\ pc[t] = "sent" /\ op[t] \in Writes /\ WritersAt(i) = {} /\ ReadersAt(i) = {}
      /\ table' = [table EXCEPT ![i] = Effect(table[i], op[t])]
  BY <1>0 DEF Write
<1>3. i \in Int /\ 1 <= i /\ i <= N /\ i \in Servers /\ (t \in Links => i = t) /\ (t \notin Links => i = 1)
  BY <1>0, <1>1, <1>2 DEF Server, Servers
<1>4. \A k \in Links : k > i => pc[k] = "idle"
  <2> SUFFICES ASSUME NEW k \in Links, k > i, pc[k] # "idle" PROVE FALSE
    OBVIOUS
  <2>1. i \in 1 .. k - 1
    BY <1>1, <1>3 DEF Servers
  <2>2. QED
    BY <2>1, <1>2 DEF OneWriteInFlight
<1>5. \A k \in Links : k # i => pc[k] # "sent"
  <2> SUFFICES ASSUME NEW k \in Links, k < i PROVE pc[k] # "sent"
    BY <1>1, <1>3, <1>4
  <2>1. t \in Links /\ i = t
    BY <1>1, <1>3 DEF Links
  <2>2. k \in 1 .. t - 1
    BY <2>1, <1>1 DEF Links
  <2>3. WritersAt(k) # {}
    BY <2>1, <2>2, <1>2 DEF OneWriteInFlight
  <2>4. QED
    BY <2>3, LinkWriters
<1>6. i < N => i + 1 \in Links /\ i + 1 # t /\ pc[i + 1] = "idle"
  BY <1>1, <1>2, <1>3, <1>4 DEF Links, Servers
<1>7. /\ pc' \in [Threads -> PCs] /\ op' \in [Threads -> Ops \cup {None}]
      /\ \A u \in Threads : pc'[u] = IF u = t
                                     THEN IF i = N THEN "written" ELSE "forwarding"
                                     ELSE IF i < N /\ u = i + 1 THEN "sent" ELSE pc[u]
      /\ \A u \in Threads : op'[u] = IF i < N /\ u = i + 1 THEN op[t] ELSE op[u]
  <2>1. CASE i = N
    BY <2>1, <1>0, <1>1, <1>2, <1>3 DEF Write, TypeOK, PCs
  <2>2. CASE i < N
    <3>1. i + 1 \in Threads /\ i # N /\ op[t] \in Ops
      BY <2>2, <1>1, <1>2, <1>3, <1>6 DEF Ops
    <3>2. /\ pc' = [pc EXCEPT ![t] = "forwarding", ![i + 1] = "sent"]
          /\ op' = [op EXCEPT ![i + 1] = op[t]]
      BY <3>1, <1>0 DEF Write
    <3>3. QED
      BY <2>2, <3>1, <3>2, <1>6 DEF TypeOK, PCs
  <2>3. QED
    BY <2>1, <2>2, <1>1, <1>3
<1>8. TypeOK'
  <2>1. table' \in [Servers -> Tables]
    BY <1>2, <1>3, EffectType DEF TypeOK
  <2>2. \A u \in Threads : op'[u] = None <=> pc'[u] = "idle"
    BY <1>2, <1>7, ChainAssumption DEF TypeOK, Ops
  <2>3. \A k \in Links : op'[k] \in Writes \cup {None} /\ pc'[k] # "reading"
    BY <1>1, <1>2, <1>7 DEF TypeOK
  <2>4. QED
    BY <1>7, <2>1, <2>2, <2>3 DEF TypeOK
<1>9. \A u \in Threads : u \in Links \/ op'[u] = op[u]
  BY <1>6, <1>7
<1>10. \A u \in Threads : Server(u)' = Server(u)
  BY <1>9 DEF Server
<1>11. RequestOK'
  <2> SUFFICES ASSUME NEW u \in Threads
               PROVE  /\ pc'[u] \in {"forwarding", "written"} => op'[u] \in Writes
                      /\ pc'[u] = "forwarding" => Server(u)' < N
                      /\ pc'[u] = "reading" => op'[u] \in Reads
    BY DEF RequestOK
  <2>1. CASE u = t
    BY <2>1, <1>0, <1>1, <1>2, <1>3, <1>6, <1>7, <1>10
  <2>2. CASE u # t
    BY <2>2, <1>7, <1>10 DEF RequestOK
  <2>3. QED
    BY <2>1, <2>2
<1>12. \A m : \A u \in Threads :
         /\ u \in WritersAt(m)' <=> (u = t /\ m = i) \/ u \in WritersAt(m)
         /\ u \in ReadersAt(m)' <=> u \in ReadersAt(m)
  BY <1>0, <1>2, <1>6, <1>7, <1>10 DEF WritersAt, ReadersAt, AtServer
<1>13. /\ WritersAt(i)' = {t}
       /\ \A m : m # i => WritersAt(m)' = WritersAt(m)
       /\ \A m : ReadersAt(m)' = ReadersAt(m)
  BY <1>2, <1>12 DEF WritersAt, ReadersAt
<1>14. LockOK'
  BY <1>2, <1>13 DEF LockOK
<1>15. \A m : \A u \in WritersAt(m) : /\ u \in Threads
                                      /\ pc'[u] = pc[u] /\ op'[u] = op[u]
  BY <1>2, <1>6, <1>7 DEF WritersAt
<1>16. OneWriteInFlight'
  <2> SUFFICES ASSUME NEW k \in Links
               PROVE  /\ pc'[k] # "idle" =>
                            \A m \in 1 .. k - 1 : \E u \in WritersAt(m)' :
                                pc'[u] = "forwarding" /\ op'[u] = op'[k]
                      /\ pc'[k] = "idle" => \A u \in WritersAt(k - 1)' : pc'[u] = "written"
    BY DEF OneWriteInFlight
  <2>1. CASE k <= i
    <3>1. op'[k] = op[k] /\ (pc'[k] = "idle" <=> pc[k] = "idle")
      BY <2>1, <1>1, <1>2, <1>3, <1>7
    <3>2. k - 1 # i /\ \A m \in 1 .. k - 1 : m # i
      BY <2>1, <1>1, <1>3
    <3>3. QED
      BY <3>1, <3>2, <1>13, <1>15 DEF OneWriteInFlight
  <2>2. CASE k = i + 1 /\ i < N
    <3>1. pc'[k] = "sent" /\ op'[k] = op[t]
      BY <2>2, <1>1, <1>6, <1>7
    <3>2. pc'[t] = "forwarding" /\ op'[t] = op[t] /\ t \in WritersAt(i)'
      BY <2>2, <1>1, <1>6, <1>7, <1>13
    <3>3. ASSUME NEW m \in 1 .. k - 1
          PROVE  \E u \in WritersAt(m)' : pc'[u] = "forwarding" /\ op'[u] = op'[k]
      <4>1. CASE m = i
        BY <4>1, <3>1, <3>2
      <4>2. CASE m # i
        <5>1. i = t /\ t \in Links /\ m \in 1 .. t - 1
          BY <4>2, <2>2, <1>1, <1>3
        <5>2. PICK u \in WritersAt(m) : pc[u] = "forwarding" /\ op[u] = op[t]
          BY <5>1, <1>2 DEF OneWriteInFlight
        <5>3. QED
          BY <4>2, <5>2, <3>1, <1>13, <1>15
      <4>3. QED
        BY <4>1, <4>2
    <3>4. QED
      BY <3>1, <3>3
  <2>3. CASE k > i + 1
    <3>1. pc[k] = "idle" /\ pc'[k] = "idle"
      BY <2>3, <1>1, <1>3, <1>4, <1>7
    <3>2. k - 1 # i
      BY <2>3, <1>1, <1>3
    <3>3. QED
      BY <3>1, <3>2, <1>13, <1>15 DEF OneWriteInFlight
  <2>4. QED
    BY <2>1, <2>2, <2>3, <1>1, <1>3 DEF Links, Servers
<1>17. ReplicasAgree'
  <2>1. \A m \in Servers : table'[m] = IF m = i THEN Effect(table[i], op[t]) ELSE table[m]
    BY <1>2 DEF TypeOK
  <2>2. \A m \in Servers : m > i => table[m] = table[i]
    BY <1>1, <1>2, <1>3, <1>5 DEF ReplicasAgree
  <2>3. \A m \in Servers : m < i => table[m] = Effect(table[i], op[t])
    <3> SUFFICES ASSUME NEW m \in Servers, m < i
                 PROVE  table[m] = Effect(table[i], op[t])
      OBVIOUS
    <3>1. t \in Links /\ i = t
      BY <1>1, <1>3 DEF Servers
    <3>2. QED
      BY <3>1, <1>2 DEF ReplicasAgree
  <2>4. \A k \in Links : pc'[k] = "sent" <=> i < N /\ k = i + 1
    BY <1>1, <1>3, <1>5, <1>6, <1>7 DEF Links
  <2>5. CASE i = N
    <3>1. \A m \in Servers : table'[m] = Effect(table[i], op[t])
      BY <2>1, <2>3, <2>5, <1>1 DEF Servers
    <3>2. QED
      <4>1. \A k \in Links : pc'[k] # "sent"
        BY <2>4, <2>5, <1>1
      <4>2. QED
        BY <3>1, <4>1 DEF ReplicasAgree
  <2>6. CASE i < N
    <3>1. op'[i + 1] = op[t] /\ table'[i + 1] = table[i] /\ i + 1 \in Links
      BY <2>1, <2>2, <2>6, <1>1, <1>3, <1>6, <1>7
    <3>2. \A m \in Servers : m < i + 1 => table'[m] = Effect(table[i], op[t])
      BY <2>1, <2>3, <1>1, <1>3 DEF Servers
    <3>3. \A m \in Servers : m >= i + 1 => table'[m] = table[i]
      BY <2>1, <2>2, <1>1, <1>3
    <3>4. QED
      BY <3>1, <3>2, <3>3, <2>4, <2>6 DEF ReplicasAgree
  <2>7. QED
    BY <2>5, <2>6, <1>1, <1>3 DEF Servers
<1>18. QED
  BY <1>8, <1>11, <1>14, <1>16, <1>17

LEMMA NextIInv == IInv /\ [Next]_vars => IInv'
<1> SUFFICES ASSUME IInv, [Next]_vars PROVE IInv'
  OBVIOUS
<1>1. CASE UNCHANGED vars
  <2>1. \A i : WritersAt(i)' = WritersAt(i) /\ ReadersAt(i)' = ReadersAt(i)
    BY <1>1 DEF vars, WritersAt, ReadersAt, AtServer, Server
  <2>2. QED
    BY <1>1, <2>1 DEF vars, IInv, TypeOK, RequestOK, Server, LockOK, OneWriteInFlight,
                      ReplicasAgree
<1>2. ASSUME NEW c \in Clients, Call(c) \/ ClientStep(c)
      PROVE  IInv'
  BY <1>2, CallStep, ClientStepStep
<1>3. CASE ServerStep
  BY <1>3, WriteStep, EndWriteStep, ReplyStep DEF ServerStep
<1>4. QED
  BY <1>1, <1>2, <1>3 DEF Next

(* The inductive invariant holds in every reachable state of the chain. *)
THEOREM ChainInvariant == Spec => []IInv
  BY InitIInv, NextIInv, PTL DEF Spec

(* Type correctness of the chain. *)
THEOREM ChainTypeOK == Spec => []TypeOK
<1>1. IInv => TypeOK
  BY DEF IInv
<1>2. QED
  BY <1>1, ChainInvariant, PTL

(* A link is busy exactly while every server before it waits, locked, for   *)
(* the same write: writes travel one at a time and never overtake.          *)
THEOREM ChainOneWriteInFlight == Spec => []OneWriteInFlight
<1>1. IInv => OneWriteInFlight
  BY DEF IInv
<1>2. QED
  BY <1>1, ChainInvariant, PTL

(* The copies of the table differ only by the one write in flight. *)
THEOREM ChainReplicasAgree == Spec => []ReplicasAgree
<1>1. IInv => ReplicasAgree
  BY DEF IInv
<1>2. QED
  BY <1>1, ChainInvariant, PTL

(* When the head stops waiting, every server of the chain has the write. *)
THEOREM ChainAnsweredIsReplicated == Spec => []AnsweredIsReplicated
<1>1. IInv => AnsweredIsReplicated
  <2> SUFFICES ASSUME IInv, \A t \in WritersAt(1) : pc[t] # "forwarding"
               PROVE  \A i, k \in Servers : table[i] = table[k]
    BY DEF AnsweredIsReplicated
  <2>1. \A j \in Links : pc[j] # "sent"
    <3> SUFFICES ASSUME NEW j \in Links, pc[j] = "sent" PROVE FALSE
      OBVIOUS
    <3>1. 1 \in 1 .. j - 1
      BY ChainAssumption DEF Links
    <3>2. \E t \in WritersAt(1) : pc[t] = "forwarding"
      BY <3>1 DEF IInv, OneWriteInFlight
    <3>3. QED
      BY <3>2
  <2>2. QED
    BY <2>1 DEF IInv, ReplicasAgree
<1>2. QED
  BY <1>1, ChainInvariant, PTL
---------------------------------------------------------------------------
(***************************************************************************)
(* The chain is one linearizable table: a write takes effect when the tail *)
(* applies it, a read when the tail reads.                                 *)
(***************************************************************************)

(* The requests of the clients, and the answers to those in effect. *)
Requested == [c \in Clients |-> op[c]]
Given == [c \in Clients |-> IF InEffect(c) THEN ans[c] ELSE None]

(* A thread past the table has its answer, and the answer that the head has *)
(* prepared for a write on its way is the one the tail would give.          *)
AnswersOK ==
    /\ ans = [t \in Threads |-> ans[t]]
    /\ \A c \in Clients : pc[c] \in {"forwarding", "written", "answered"} => ans[c] # None
    /\ \A c \in Clients, j \in Links :
          pc[c] = "forwarding" /\ pc[j] = "sent" => ans[c] = Result(table[N], op[c])

(* The abstract store and the chain have the same requests and answers. *)
LEMMA SameCardinality == \A S : Abstract!Cardinality(S) = Cardinality(S)
  BY DEF Abstract!Cardinality, Cardinality

LEMMA SameRequests ==
  /\ Abstract!Ops = Ops /\ Abstract!Writes = Writes /\ Abstract!Empty = Empty
  /\ \A tb, o : Abstract!Effect(tb, o) = Effect(tb, o)
  BY DEF Abstract!Ops, Ops, Abstract!Writes, Writes, Abstract!Reads, Reads, Abstract!Empty, Empty,
         Abstract!Effect, Effect

LEMMA SameResults == \A tb, o : Abstract!Result(tb, o) = Result(tb, o)
<1>1. \A tb : Abstract!Present(tb) = Present(tb)
  BY DEF Abstract!Present, Present
<1>2. QED
  BY <1>1, SameCardinality, Zenon DEF Abstract!Result, Result

(* One client at a time has a write at the head, *)
LEMMA OneClientWrites ==
  ASSUME IInv, NEW c \in Clients, NEW d \in Clients,
         pc[c] \in {"forwarding", "written"}, pc[d] \in {"forwarding", "written"}
  PROVE  c = d
<1>1. c \in WritersAt(1) /\ d \in WritersAt(1) /\ 1 \in Servers
  BY HeadWriters, ChainAssumption DEF IInv, Servers
<1>2. WritersAt(1) = {c} /\ WritersAt(1) = {d}
  BY <1>1 DEF IInv, LockOK
<1>3. QED
  BY <1>2

(* and a write on a link is that of a client that waits. *)
LEMMA SentForClient ==
  ASSUME IInv, NEW j \in Links, pc[j] # "idle"
  PROVE  \E c \in Clients : pc[c] = "forwarding" /\ op[c] = op[j]
<1>1. 1 \in 1 .. j - 1
  BY ChainAssumption DEF Links
<1>2. PICK t \in WritersAt(1) : pc[t] = "forwarding" /\ op[t] = op[j]
  BY <1>1 DEF IInv, OneWriteInFlight
<1>3. QED
  BY <1>2, HeadWriters DEF IInv

(* Where a write is applied, no other link has one to apply. *)
LEMMA WriteLinks ==
  ASSUME IInv, NEW t \in Threads, Write(t)
  PROVE  /\ Server(t) \in Servers /\ Server(t) <= N /\ N \in Servers
         /\ t \in Links => Server(t) = t
         /\ t \notin Links => t \in Clients /\ Server(t) = 1
         /\ \A k \in Links : k # Server(t) => pc[k] # "sent"
         /\ Server(t) < N => Server(t) + 1 \in Links /\ Server(t) + 1 # t
<1> DEFINE i == Server(t)
<1>1. N \in Nat \ {0} /\ Servers \subseteq Int /\ Links \subseteq Servers
  BY ChainAssumption DEF Links, Servers
<1>2. pc[t] = "sent" /\ op[t] \in Writes /\ WritersAt(i) = {}
  BY DEF Write
<1>3. /\ i \in Servers /\ i <= N /\ N \in Servers
      /\ t \in Links => i = t
      /\ t \notin Links => t \in Clients /\ i = 1
  BY <1>1, <1>2 DEF Server, Servers, Threads, Links
<1>4. \A k \in Links : k > i => pc[k] = "idle"
  <2> SUFFICES ASSUME NEW k \in Links, k > i, pc[k] # "idle" PROVE FALSE
    OBVIOUS
  <2>1. i \in 1 .. k - 1
    BY <1>1, <1>3 DEF Servers
  <2>2. QED
    BY <2>1, <1>2 DEF IInv, OneWriteInFlight
<1>5. \A k \in Links : k < i => pc[k] # "sent"
  <2> SUFFICES ASSUME NEW k \in Links, k < i PROVE pc[k] # "sent"
    OBVIOUS
  <2>1. t \in Links /\ i = t
    BY <1>1, <1>3 DEF Links
  <2>2. pc[k] # "idle" => pc[k] = "forwarding"
    BY <1>2, <2>1, OneSent DEF IInv
  <2>3. QED
    BY <2>2
<1>6. i < N => i + 1 \in Links /\ i + 1 # t
  <2> SUFFICES ASSUME i < N PROVE i + 1 \in Links /\ i + 1 # t
    OBVIOUS
  <2>1. i + 1 \in Links
    BY <1>1, <1>3 DEF Servers, Links
  <2>2. QED
    BY <1>1, <1>3, <2>1, ChainAssumption DEF Servers
<1>7. \A k \in Links : k # i => pc[k] # "sent"
  <2> SUFFICES ASSUME NEW k \in Links, k # i PROVE pc[k] # "sent"
    OBVIOUS
  <2>1. k < i \/ k > i
    <3>1. k \in Int /\ i \in Int
      BY <1>1, <1>3
    <3>2. QED
      BY <3>1
  <2>2. QED
    BY <2>1, <1>4, <1>5
<1>8. QED
  BY <1>3, <1>6, <1>7

(* What a write leaves of the requests and of the threads that wait. *)
LEMMA WriteState ==
  ASSUME IInv, NEW t \in Threads, Write(t)
  PROVE  /\ \A c \in Clients : c # t => pc'[c] = pc[c] /\ op'[c] = op[c]
         /\ op'[t] = op[t]
         /\ \A c \in Clients : op'[c] = op[c]
         /\ Server(t) < N => pc'[t] = "forwarding" /\ pc'[Server(t) + 1] = "sent"
         /\ Server(t) = N => pc'[t] = "written"
         /\ \A j \in Links : pc'[j] = "sent" => Server(t) < N /\ j = Server(t) + 1
<1> DEFINE i == Server(t)
<1>1. /\ i \in Int /\ N \in Int /\ i <= N
      /\ Links \subseteq Threads /\ Clients \subseteq Threads
      /\ \A c \in Clients : c \notin Links
      /\ pc \in [Threads -> PCs] /\ op \in [Threads -> Ops \cup {None}]
  BY WriteLinks, ChainAssumption DEF IInv, TypeOK, Threads, Servers
<1>2. \A k \in Links : k # i => pc[k] # "sent"
  BY WriteLinks
<1>3. i \in Links => i = t
  <2>1. t \notin Links => i = 1
    BY WriteLinks
  <2>2. 1 \notin Links
    BY DEF Links
  <2>3. QED
    BY <2>1, <2>2, WriteLinks
<1>4. CASE i = N
  <2>1. pc' = [pc EXCEPT ![t] = "written"] /\ op' = op
    BY <1>4 DEF Write
  <2>2. \A j \in Links : pc'[j] # "sent"
    BY <1>1, <1>2, <1>3, <2>1
  <2>3. QED
    BY <1>1, <1>4, <2>1, <2>2
<1>5. CASE i < N
  <2>1. /\ pc' = [pc EXCEPT ![t] = "forwarding", ![i + 1] = "sent"]
        /\ op' = [op EXCEPT ![i + 1] = op[t]]
    BY <1>1, <1>5 DEF Write
  <2>2. i + 1 \in Links /\ i + 1 # t
    BY <1>5, WriteLinks
  <2>3. \A j \in Links : pc'[j] = "sent" => j = i + 1
    <3> SUFFICES ASSUME NEW j \in Links, j # i + 1 PROVE pc'[j] # "sent"
      OBVIOUS
    <3>1. CASE j = t
      BY <1>1, <2>1, <2>2, <3>1
    <3>2. CASE j # t
      BY <1>1, <1>2, <1>3, <2>1, <3>2
    <3>3. QED
      BY <3>1, <3>2
  <2>4. \A c \in Clients : c # i + 1
    BY <1>1, <2>2
  <2>5. \A c \in Clients : (c # t => pc'[c] = pc[c]) /\ op'[c] = op[c]
    BY <1>1, <2>1, <2>4
  <2>6. pc'[t] = "forwarding" /\ pc'[i + 1] = "sent" /\ op'[t] = op[t]
    BY <1>1, <2>1, <2>2
  <2>7. QED
    BY <1>1, <1>5, <2>3, <2>5, <2>6
<1>6. QED
  BY <1>1, <1>4, <1>5
---------------------------------------------------------------------------
LEMMA WriteAnswers ==
  ASSUME IInv, AnswersOK, NEW t \in Threads, Write(t)
  PROVE  AnswersOK'
<1> DEFINE i == Server(t)
<1>1. /\ pc[t] = "sent" /\ op[t] \in Writes /\ WritersAt(i) = {}
      /\ table' = [table EXCEPT ![i] = Effect(table[i], op[t])]
      /\ ans' = [ans EXCEPT ![t] = Result(table[i], op[t])]
  BY DEF Write
<1>2. /\ i \in Servers /\ N \in Servers /\ i <= N /\ table[i] \in Tables /\ op[t] \in Ops
      /\ Links \subseteq Threads /\ Clients \subseteq Threads
      /\ \A c \in Clients : c \notin Links
      /\ table \in [Servers -> Tables] /\ pc \in [Threads -> PCs]
      /\ op \in [Threads -> Ops \cup {None}]
  BY <1>1, WriteLinks, ChainAssumption DEF IInv, TypeOK, Threads, Ops
<1>3. /\ ans' = [u \in Threads |-> ans'[u]] /\ ans'[t] = Result(table[i], op[t]) /\ ans'[t] # None
      /\ \A u \in Threads : u # t => ans'[u] = ans[u]
  BY <1>1, <1>2, ChainAssumption DEF AnswersOK
<1>4. /\ \A c \in Clients : c # t => pc'[c] = pc[c] /\ op'[c] = op[c]
      /\ op'[t] = op[t]
      /\ \A j \in Links : pc'[j] = "sent" => i < N /\ j = i + 1
  BY WriteState
<1>5. \A c \in Clients : pc'[c] \in {"forwarding", "written", "answered"} => ans'[c] # None
  BY <1>2, <1>3, <1>4 DEF AnswersOK
<1>6. ASSUME NEW c \in Clients, NEW j \in Links, pc'[c] = "forwarding", pc'[j] = "sent"
      PROVE  ans'[c] = Result(table'[N], op'[c])
  <2>1. i < N /\ table'[N] = table[N]
    BY <1>1, <1>2, <1>4, <1>6 DEF Servers
  <2>2. CASE c = t
    <3>1. i = 1 /\ WritersAt(1) = {} /\ 1 \in Servers
      BY <1>1, <1>2, <2>2, WriteLinks
    <3>2. \A k \in Links : pc[k] # "sent"
      BY <3>1, SentForClient, HeadWriters DEF IInv
    <3>3. table[i] = table[N]
      BY <1>2, <3>2 DEF IInv, ReplicasAgree
    <3>4. QED
      BY <1>3, <1>4, <2>1, <2>2, <3>3
  <2>3. CASE c # t
    <3>1. pc[c] = "forwarding" /\ ans'[c] = ans[c] /\ op'[c] = op[c]
      BY <1>2, <1>3, <1>4, <1>6, <2>3
    <3>2. t \in Links
      BY <1>1, <1>2, <3>1, WriteLinks, HeadWriters DEF IInv
    <3>3. QED
      BY <1>1, <2>1, <3>1, <3>2 DEF AnswersOK
  <2>4. QED
    BY <2>2, <2>3
<1>7. QED
  BY <1>3, <1>5, <1>6 DEF AnswersOK

LEMMA NextAnswers == IInv /\ AnswersOK /\ [Next]_vars => AnswersOK'
<1> SUFFICES ASSUME IInv, AnswersOK, [Next]_vars PROVE AnswersOK'
  OBVIOUS
<1>1. /\ Links \subseteq Threads /\ Clients \subseteq Threads /\ \A c \in Clients : c \notin Links
      /\ table \in [Servers -> Tables] /\ pc \in [Threads -> PCs]
      /\ op \in [Threads -> Ops \cup {None}] /\ N \in Servers
  BY ChainAssumption DEF IInv, TypeOK, Threads, Servers
<1>2. CASE UNCHANGED vars
  BY <1>2 DEF vars, AnswersOK
<1>3. ASSUME NEW c \in Clients, Call(c) \/ StartRead(c) PROVE AnswersOK'
  BY <1>1, <1>3 DEF Call, StartRead, AnswersOK
<1>4. ASSUME NEW c \in Clients, EndRead(c) PROVE AnswersOK'
  <2>1. op[c] \in Ops /\ table[N] \in Tables
    BY <1>1, <1>4 DEF EndRead, IInv, TypeOK
  <2>2. QED
    BY <1>1, <1>4, <2>1, ChainAssumption DEF EndRead, AnswersOK
<1>5. ASSUME NEW c \in Clients, Return(c) PROVE AnswersOK'
  BY <1>1, <1>5 DEF Return, AnswersOK
<1>6. ASSUME NEW t \in Threads, EndWrite(t) PROVE AnswersOK'
  BY <1>1, <1>6 DEF EndWrite, AnswersOK
<1>7. ASSUME NEW j \in Links, Reply(j) PROVE AnswersOK'
  <2>1. \A u \in Threads :
           \/ pc'[u] \in {pc[u], "idle"}
           \/ (pc[u] \in {"forwarding", "written"} /\ pc'[u] = "written")
    <3>1. pc' = [u \in Threads |-> IF u = j THEN "idle"
                                   ELSE IF u \in WritersAt(j - 1) THEN "written"
                                   ELSE pc[u]]
      BY <1>7 DEF Reply
    <3>2. \A u \in WritersAt(j - 1) : pc[u] \in {"forwarding", "written"}
      BY DEF WritersAt
    <3>3. QED
      BY <3>1, <3>2
  <2>2. \A c \in Clients : ans'[c] = ans[c] /\ op'[c] = op[c]
    BY <1>1, <1>7 DEF Reply, AnswersOK
  <2>3. ans' = [t \in Threads |-> ans'[t]] /\ UNCHANGED table
    BY <1>7 DEF Reply, AnswersOK
  <2>4. \A k \in Links : pc'[k] = "sent" => pc[k] = "sent"
    BY <1>1, <2>1
  <2>5. \A c \in Clients :
           /\ pc'[c] \in {"forwarding", "written", "answered"} =>
                 pc[c] \in {"forwarding", "written", "answered"}
           /\ pc'[c] = "forwarding" => pc[c] = "forwarding"
    BY <1>1, <2>1
  <2>6. QED
    BY <2>2, <2>3, <2>4, <2>5 DEF AnswersOK
<1>8. QED
  BY <1>2, <1>3, <1>4, <1>5, <1>6, <1>7, WriteAnswers DEF Next, ClientStep, ServerStep
---------------------------------------------------------------------------
(* Each step is one of the abstract store, or a stutter. *)
LEMMA WriteImplements ==
  ASSUME IInv, AnswersOK, NEW t \in Threads, Write(t)
  PROVE  [Abstract!Next]_(Abstract!vars)
<1> DEFINE i == Server(t)
<1>1. /\ pc[t] = "sent" /\ op[t] \in Writes /\ WritersAt(i) = {}
      /\ table' = [table EXCEPT ![i] = Effect(table[i], op[t])]
      /\ ans' = [ans EXCEPT ![t] = Result(table[i], op[t])]
  BY DEF Write
<1>2. /\ i \in Servers /\ N \in Servers /\ i <= N /\ None \notin Ops
      /\ Links \subseteq Threads /\ Clients \subseteq Threads
      /\ \A c \in Clients : c \notin Links
      /\ table \in [Servers -> Tables] /\ pc \in [Threads -> PCs]
      /\ op \in [Threads -> Ops \cup {None}] /\ op[t] \in Ops
  BY <1>1, WriteLinks, ChainAssumption DEF IInv, TypeOK, Threads, Ops
<1>3. /\ ans'[t] = Result(table[i], op[t])
      /\ \A u \in Threads : u # t => ans'[u] = ans[u]
  BY <1>1, <1>2 DEF AnswersOK
<1>4. /\ \A c \in Clients : c # t => pc'[c] = pc[c]
      /\ i < N => pc'[t] = "forwarding" /\ pc'[i + 1] = "sent"
      /\ i = N => pc'[t] = "written"
      /\ \A j \in Links : pc'[j] = "sent" => i < N /\ j = i + 1
      /\ Requested' = Requested
  BY <1>2, WriteState DEF Requested
<1>5. CASE i < N
  <2>1. table'[N] = table[N]
    BY <1>1, <1>2, <1>5 DEF Servers
  <2>2. i + 1 \in Links /\ pc'[i + 1] = "sent"
    BY <1>4, <1>5, WriteLinks
  <2>3. \A c \in Clients : InEffect(c)' = InEffect(c) /\ (InEffect(c) => ans'[c] = ans[c])
    <3> SUFFICES ASSUME NEW c \in Clients
                 PROVE  InEffect(c)' = InEffect(c) /\ (InEffect(c) => ans'[c] = ans[c])
      OBVIOUS
    <3>1. CASE c = t
      BY <1>1, <1>4, <1>5, <2>2, <3>1, <1>2 DEF InEffect, Servers
    <3>2. CASE c # t /\ pc[c] = "forwarding"
      <4>1. t \in Links
        BY <1>1, <3>2, WriteLinks, HeadWriters DEF IInv
      <4>2. QED
        BY <1>1, <1>2, <1>3, <1>4, <2>2, <3>2, <4>1 DEF InEffect
    <3>3. CASE c # t /\ pc[c] # "forwarding"
      BY <1>2, <1>3, <1>4, <3>3 DEF InEffect
    <3>4. QED
      BY <3>1, <3>2, <3>3
  <2>4. Given' = Given
    BY <2>3 DEF Given
  <2>5. QED
    BY <1>4, <2>1, <2>4 DEF Abstract!vars, Requested, Given
<1>6. CASE i = N
  <2>1. \A j \in Links : pc'[j] # "sent"
    <3>1. ~ (i < N)
      BY <1>6, ChainAssumption
    <3>2. QED
      BY <1>4, <3>1
  <2>2. \E c \in Clients : /\ ~ InEffect(c) /\ InEffect(c)' /\ op[c] = op[t]
                           /\ ans'[c] = Result(table[N], op[c])
                           /\ \A d \in Clients : d # c => pc[d] # "forwarding" /\ d # t
    <3>1. CASE t \in Links
      <4>1. PICK c \in Clients : pc[c] = "forwarding" /\ op[c] = op[t]
        BY <1>1, <3>1, SentForClient
      <4>2. c # t /\ pc'[c] = "forwarding" /\ ans'[c] = ans[c]
        BY <1>2, <1>3, <1>4, <3>1, <4>1
      <4>3. ans[c] = Result(table[N], op[c])
        BY <1>1, <3>1, <4>1 DEF AnswersOK
      <4>4. ~ InEffect(c) /\ InEffect(c)'
        BY <1>1, <2>1, <3>1, <4>1, <4>2 DEF InEffect
      <4>5. \A d \in Clients : d # c => pc[d] # "forwarding" /\ d # t
        BY <1>2, <3>1, <4>1, OneClientWrites
      <4>6. QED
        BY <4>1, <4>2, <4>3, <4>4, <4>5
    <3>2. CASE t \notin Links
      <4>1. t \in Clients /\ WritersAt(1) = {}
        BY <1>1, <3>2, WriteLinks
      <4>2. \A d \in Clients : pc[d] # "forwarding"
        BY <4>1, HeadWriters DEF IInv
      <4>3. ~ InEffect(t) /\ InEffect(t)'
        BY <1>1, <1>4, <1>6 DEF InEffect
      <4>4. QED
        BY <1>3, <1>6, <4>1, <4>2, <4>3
    <3>3. QED
      BY <3>1, <3>2
  <2>3. PICK c \in Clients : /\ ~ InEffect(c) /\ InEffect(c)' /\ op[c] = op[t]
                             /\ ans'[c] = Result(table[N], op[c])
                             /\ \A d \in Clients : d # c => pc[d] # "forwarding" /\ d # t
    BY <2>2
  <2>4. \A d \in Clients : d # c => InEffect(d)' = InEffect(d) /\ ans'[d] = ans[d]
    BY <1>2, <1>3, <1>4, <2>3 DEF InEffect
  <2>5. Given' = [Given EXCEPT ![c] = Result(table[N], op[c])]
    BY <2>3, <2>4 DEF Given
  <2>6. Requested[c] = op[c] /\ op[c] # None /\ op[c] \in Writes /\ Given[c] = None
    BY <1>1, <1>2, <2>3 DEF Requested, Given
  <2>7. table'[N] = Effect(table[N], op[c])
    BY <1>1, <1>2, <1>6, <2>3
  <2>8. Abstract!TakeEffect(c)
    BY <1>4, <2>5, <2>6, <2>7, SameRequests, SameResults
       DEF Abstract!TakeEffect, Requested, Given
  <2>9. QED
    BY <2>8 DEF Abstract!Next
<1>7. QED
  BY <1>2, <1>5, <1>6 DEF Servers

LEMMA ClientImplements ==
  ASSUME IInv, AnswersOK, NEW c \in Clients, Call(c) \/ ClientStep(c)
  PROVE  [Abstract!Next]_(Abstract!vars)
<1>1. /\ Links \subseteq Threads /\ Clients \subseteq Threads /\ \A d \in Clients : d \notin Links
      /\ table \in [Servers -> Tables] /\ pc \in [Threads -> PCs] /\ N \in Servers
      /\ op \in [Threads -> Ops \cup {None}] /\ None \notin Ops
      /\ \A t \in Threads : op[t] = None <=> pc[t] = "idle"
      /\ ans = [t \in Threads |-> ans[t]]
  BY ChainAssumption DEF IInv, TypeOK, Threads, Servers, AnswersOK
<1>2. UNCHANGED table
  BY DEF Call, ClientStep, StartRead, EndRead, Return
<1>3. /\ \A j \in Links : pc'[j] = pc[j]
      /\ \A d \in Clients : d # c => InEffect(d)' = InEffect(d) /\ ans'[d] = ans[d] /\ op'[d] = op[d]
  BY <1>1 DEF Call, ClientStep, StartRead, EndRead, Return, InEffect
<1>4. CASE Call(c)
  <2>1. PICK o \in Ops : op' = [op EXCEPT ![c] = o]
    BY <1>4 DEF Call
  <2>2. ~ InEffect(c) /\ ~ InEffect(c)' /\ op[c] = None
    BY <1>1, <1>4 DEF Call, InEffect
  <2>3. Given' = Given
    BY <1>3, <2>2 DEF Given
  <2>4. Requested' = [Requested EXCEPT ![c] = o] /\ Requested[c] = None
    BY <1>1, <2>1, <2>2 DEF Requested
  <2>5. Abstract!Call(c)
    BY <1>2, <2>3, <2>4, SameRequests DEF Abstract!Call, Requested, Given
  <2>6. QED
    BY <2>5 DEF Abstract!Next
<1>5. CASE StartRead(c)
  <2>1. InEffect(c)' = InEffect(c) /\ UNCHANGED <<op, ans>>
    BY <1>1, <1>5 DEF StartRead, InEffect
  <2>2. Given' = Given /\ Requested' = Requested
    BY <1>3, <2>1 DEF Given, Requested
  <2>3. QED
    BY <1>2, <2>2 DEF Abstract!vars, Given, Requested
<1>6. CASE EndRead(c)
  <2>1. /\ ~ InEffect(c) /\ InEffect(c)' /\ UNCHANGED op /\ op[c] # None
        /\ ans'[c] = Result(table[N], op[c])
    BY <1>1, <1>6 DEF EndRead, InEffect
  <2>2. op[c] \notin Writes
    BY <1>1, <1>6, ReadsNotWrites DEF EndRead, IInv, RequestOK
  <2>3. Given' = [Given EXCEPT ![c] = Result(table[N], op[c])] /\ Given[c] = None
    BY <1>3, <2>1 DEF Given
  <2>4. Requested' = Requested /\ Requested[c] = op[c]
    BY <2>1 DEF Requested
  <2>5. Abstract!TakeEffect(c)
    BY <1>2, <2>1, <2>2, <2>3, <2>4, SameRequests, SameResults
       DEF Abstract!TakeEffect, Requested, Given
  <2>6. QED
    BY <2>5 DEF Abstract!Next
<1>7. CASE Return(c)
  <2>1. InEffect(c) /\ ~ InEffect(c)' /\ ans[c] # None /\ op'[c] = None
    BY <1>1, <1>7 DEF Return, InEffect, AnswersOK
  <2>2. Given' = [Given EXCEPT ![c] = None] /\ Given[c] # None
    BY <1>3, <2>1 DEF Given
  <2>3. Requested' = [Requested EXCEPT ![c] = None]
    BY <1>3, <2>1 DEF Requested
  <2>4. Abstract!Return(c)
    BY <1>2, <2>2, <2>3 DEF Abstract!Return, Requested, Given
  <2>5. QED
    BY <2>4 DEF Abstract!Next
<1>8. QED
  BY <1>4, <1>5, <1>6, <1>7 DEF ClientStep

LEMMA QuietImplements ==
  ASSUME IInv, AnswersOK,
         (\E t \in Threads : EndWrite(t)) \/ (\E j \in Links : Reply(j))
  PROVE  [Abstract!Next]_(Abstract!vars)
<1>1. /\ Links \subseteq Threads /\ Clients \subseteq Threads /\ \A d \in Clients : d \notin Links
      /\ pc \in [Threads -> PCs] /\ op \in [Threads -> Ops \cup {None}]
      /\ ans = [t \in Threads |-> ans[t]]
  BY ChainAssumption DEF IInv, TypeOK, Threads, AnswersOK
<1>2. \A c \in Clients : ans'[c] = ans[c] /\ op'[c] = op[c]
  BY <1>1 DEF EndWrite, Reply
<1>3. \A c \in Clients : InEffect(c)' = InEffect(c)
  <2> SUFFICES ASSUME NEW c \in Clients PROVE InEffect(c)' = InEffect(c)
    OBVIOUS
  <2>1. ASSUME NEW t \in Threads, EndWrite(t) PROVE InEffect(c)' = InEffect(c)
    BY <1>1, <2>1 DEF EndWrite, InEffect
  <2>2. ASSUME NEW j \in Links, Reply(j) PROVE InEffect(c)' = InEffect(c)
    <3>1. \A k \in Links : pc'[k] = "sent" <=> pc[k] = "sent"
      BY <1>1, <2>2 DEF Reply, WritersAt
    <3>2. CASE c \in WritersAt(j - 1)
      <4>1. pc[c] \in {"forwarding", "written"} /\ pc'[c] = "written"
        BY <1>1, <2>2, <3>2 DEF Reply, WritersAt
      <4>2. pc[c] = "forwarding" => \A k \in Links : pc[k] # "sent"
        <5> SUFFICES ASSUME NEW k \in Links, pc[k] = "sent" PROVE FALSE
          OBVIOUS
        <5>1. j = 2
          BY <3>2, LinkWriters, ChainAssumption DEF IInv, Links
        <5>2. k > j
          BY <2>2, <5>1, ChainAssumption DEF Reply, Links
        <5>3. QED
          BY <2>2, <5>2, OneSent DEF Reply, IInv
      <4>3. QED
        BY <4>1, <4>2 DEF InEffect
    <3>3. CASE c \notin WritersAt(j - 1)
      BY <1>1, <2>2, <3>1, <3>3 DEF Reply, InEffect
    <3>4. QED
      BY <3>2, <3>3
  <2>3. QED
    BY <2>1, <2>2
<1>4. UNCHANGED table
  BY DEF EndWrite, Reply
<1>5. Given' = Given /\ Requested' = Requested
  BY <1>2, <1>3 DEF Given, Requested
<1>6. QED
  BY <1>4, <1>5 DEF Abstract!vars, Given, Requested

(* Chain replication implements the abstract store: whatever clients call   *)
(* and however the threads of the servers interleave, each request takes    *)
(* effect once, at one instant between its call and its return, on one      *)
(* table, and the answers are those of that table.                          *)
THEOREM ChainLinearizable == Spec => Linearizable
<1>1. Init => AnswersOK
  BY DEF Init, AnswersOK, Threads
<1>2. Init => Abstract!Init
  <2> SUFFICES ASSUME Init PROVE Abstract!Init
    OBVIOUS
  <2>1. N \in Servers /\ Clients \subseteq Threads
    BY ChainAssumption DEF Servers, Threads
  <2>2. table[N] = Empty
    BY <2>1 DEF Init
  <2>3. Requested = [c \in Clients |-> None] /\ Given = [c \in Clients |-> None]
    BY <2>1 DEF Init, Requested, Given, InEffect
  <2>4. QED
    BY <2>2, <2>3, SameRequests DEF Abstract!Init, Requested, Given
<1>3. IInv /\ AnswersOK /\ [Next]_vars => [Abstract!Next]_(Abstract!vars)
  <2> SUFFICES ASSUME IInv, AnswersOK, [Next]_vars PROVE [Abstract!Next]_(Abstract!vars)
    OBVIOUS
  <2>1. CASE UNCHANGED vars
    <3>1. \A c \in Clients : InEffect(c)' = InEffect(c)
      BY <2>1 DEF vars, InEffect
    <3>2. Given' = Given /\ Requested' = Requested
      BY <2>1, <3>1 DEF vars, Given, Requested
    <3>3. QED
      BY <2>1, <3>2 DEF vars, Abstract!vars, Given, Requested
  <2>2. CASE Next
    BY <2>2, WriteImplements, ClientImplements, QuietImplements DEF Next, ServerStep
  <2>3. QED
    BY <2>1, <2>2
<1>4. QED
  BY <1>1, <1>2, <1>3, NextAnswers, ChainInvariant, PTL DEF Spec, Linearizable, Abstract!Spec
=============================================================================
