------------------------------ MODULE Framing ------------------------------
(***************************************************************************)
(* Messages over the byte stream of one connection: write_all and read_all *)
(* of source/message-private.c, network_send_receive at the client's end   *)
(* (source/client_network.c) and the loop of thread_client with            *)
(* network_receive and network_send at the server's (server_network.c).    *)
(* A message goes as two bytes of length, the higher one first, and its    *)
(* contents; the kernel takes and gives any number of bytes at a time.     *)
(*                                                                         *)
(* A byte of a message is its message, its place in it and the message's   *)
(* length; a byte has Base values, 256 in the code, so that the length     *)
(* that is sent is the real one modulo Base * Base.  A byte of a message   *)
(* that is read as one of a length may have any value.  Definitions named  *)
(* Slip... are mistakes the properties must notice.                        *)
(***************************************************************************)
EXTENDS Integers, Sequences

CONSTANTS
    Base,         \* values of a byte
    Cap,          \* bytes the kernel keeps for a direction of the connection
    RequestLens,  \* lengths of packed requests
    ReplyLens,    \* lengths of packed replies
    MaxRequests   \* bound: calls

ASSUME FramingAssumption == /\ Base \in Nat \ {0, 1}
                            /\ Cap \in Nat \ {0}
                            /\ RequestLens \subseteq Nat \ {0}
                            /\ ReplyLens \subseteq Nat \ {0}
                            /\ MaxRequests \in Nat

VARIABLES
    at,      \* at[e]: what end e is doing
    open,    \* the ends whose socket is open
    out,     \* out[e]: bytes e has still to write
    wire,    \* wire[e]: bytes written by e and not yet read
    got,     \* got[e]: bytes read by the read_all that e is in
    need,    \* need[e]: bytes that read_all is to read
    made,    \* calls the client has made
    handled, \* the number of the last request that invoke was given
    result,  \* what the last call has returned
    skewed   \* history: bytes were left in a stream that are part of no length or message

streamVars == <<out, wire, got, need>>
vars == <<at, open, streamVars, made, handled, result, skewed>>

(* The two ends, and the other one. *)
Ends == {"client", "server"}
Peer(e) == IF e = "client" THEN "server" ELSE "client"

Places == { "idle",    \* client: no call in progress
            "write",   \* in write_all
            "length",  \* in read_all for the length
            "body",    \* in read_all for the message
            "end" }    \* the thread or the client is through with the connection

Rpc == INSTANCE Rpc

Request(n) == <<"request", n>>
Garbage == <<"garbage">>

Init == /\ at = [e \in Ends |-> IF e = "client" THEN "idle" ELSE "length"]
        /\ open = Ends
        /\ out = [e \in Ends |-> <<>>]
        /\ wire = [e \in Ends |-> <<>>]
        /\ got = [e \in Ends |-> <<>>]
        /\ need = [e \in Ends |-> 2]
        /\ Rpc!Init
        /\ skewed = FALSE
---------------------------------------------------------------------------
Contents(m, len) == [i \in 1 .. len |-> [msg |-> m, place |-> i, len |-> len]]

Digit(d) == [msg |-> <<"length">>, place |-> d, len |-> 0]

(* htons(len) in a short: the length modulo Base * Base, higher byte first. *)
Frame(m, len) == <<Digit((len \div Base) % Base), Digit(len % Base)>> \o Contents(m, len)

TooLong(len) == len >= Base * Base

(* The values that a byte read as part of a length may have. *)
Values(b) == IF b.msg = <<"length">> THEN {b.place} ELSE 0 .. Base - 1

(* A length that is not put in the order of the host. *)
SlipLengths(bytes) == {lo + Base * hi : lo \in Values(bytes[1]), hi \in Values(bytes[2])}

(* ntohs *)
Lengths(bytes) == {Base * hi + lo : hi \in Values(bytes[1]), lo \in Values(bytes[2])}

(* What message_t__unpack may make of the bytes: the message they are, or   *)
(* else nothing or something.                                               *)
Unpacked(bytes) == IF bytes # <<>> /\ bytes = Contents(bytes[1].msg, bytes[1].len)
                   THEN {bytes[1].msg} ELSE {Rpc!Error, Garbage}

Goto(e, from, to) == at[e] = from /\ at' = [at EXCEPT ![e] = to]

(* End e starts to send a message and will read the answer, or the next     *)
(* request, when it is written.                                             *)
Send(e, m, len) == /\ out' = [out EXCEPT ![e] = Frame(m, len)]
                   /\ skewed' = (skewed \/ TooLong(len))

(* A read_all that goes on in the bytes of the last one. *)
SlipStartRead(e, n) == need' = [need EXCEPT ![e] = n] /\ UNCHANGED got

(* read_all is called again, for n bytes. *)
StartRead(e, n) == /\ got' = [got EXCEPT ![e] = <<>>]
                   /\ need' = [need EXCEPT ![e] = n]

(* End e closes its socket. *)
Close(e) == open' = open \ {e}
---------------------------------------------------------------------------
(* write in write_all: the kernel takes some of the bytes. *)
Write(e) == /\ at[e] = "write" /\ out[e] # <<>> /\ Peer(e) \in open
            /\ \E k \in 1 .. Len(out[e]) :
                  /\ Len(wire[e]) + k <= Cap
                  /\ wire' = [wire EXCEPT ![e] = @ \o SubSeq(out[e], 1, k)]
                  /\ out' = [out EXCEPT ![e] = SubSeq(@, k + 1, Len(@))]
            /\ UNCHANGED <<at, open, got, need, made, handled, result, skewed>>

(* All is written: both ends read a length next. *)
Written(e) == /\ Goto(e, "write", "length")
              /\ out[e] = <<>>
              /\ StartRead(e, 2)
              /\ UNCHANGED <<open, out, wire, made, handled, result, skewed>>

(* read in read_all: the kernel gives some of the bytes there are. *)
Read(e) == /\ at[e] \in {"length", "body"}
           /\ \E k \in 1 .. need[e] - Len(got[e]) :
                 /\ k <= Len(wire[Peer(e)])
                 /\ got' = [got EXCEPT ![e] = @ \o SubSeq(wire[Peer(e)], 1, k)]
                 /\ wire' = [wire EXCEPT ![Peer(e)] = SubSeq(@, k + 1, Len(@))]
           /\ UNCHANGED <<at, open, out, need, made, handled, result, skewed>>

(* A read for the message where read_all is called. *)
SlipReadAll(e) == IF at[e] = "body" THEN got[e] # <<>> ELSE Len(got[e]) = need[e]

(* read_all returns when it has all the bytes. *)
ReadAll(e) == Len(got[e]) = need[e]

GotLength(e) == /\ Goto(e, "length", "body")
                /\ ReadAll(e)
                /\ \E n \in Lengths(got[e]) : StartRead(e, n)
                /\ UNCHANGED <<open, out, wire, made, handled, result, skewed>>

(* The connection is over for end e: the other one has closed it, and what  *)
(* was on the way may be lost.                                              *)
Broken(e) == Peer(e) \notin open /\ at[e] \in {"write", "length", "body"}
---------------------------------------------------------------------------
(* network_send_receive writes the request, *)
Call == /\ Goto("client", "idle", "write")
        /\ made < MaxRequests
        /\ Rpc!Call
        /\ \E len \in RequestLens : Send("client", Request(made'), len)
        /\ UNCHANGED <<open, wire, got, need>>

(* and returns what the reply is unpacked to. *)
Return == /\ Goto("client", "body", "idle")
          /\ ReadAll("client")
          /\ \E m \in Unpacked(got["client"]) : result' = m
          /\ UNCHANGED <<open, streamVars, made, handled, skewed>>

(* No memory for a reply: it stays in the stream. *)
ReadBufFails == /\ Goto("client", "length", "idle")
                /\ ReadAll("client")
                /\ result' = Rpc!Error
                /\ skewed' = TRUE
                /\ UNCHANGED <<open, streamVars, made, handled>>

(* thread_client: invoke serves the request and network_send writes the     *)
(* reply into the same message.                                             *)
Serve == /\ Goto("server", "body", "write")
         /\ ReadAll("server")
         /\ \E m \in Unpacked(got["server"]) \ {Rpc!Error}, len \in ReplyLens :
               /\ handled' = IF m = Garbage THEN handled ELSE m[2]
               /\ Send("server", IF m = Garbage THEN Garbage ELSE Rpc!ReplyTo(m[2]), len)
         /\ UNCHANGED <<open, wire, got, need, made, result>>

(* It ends when the message cannot be unpacked, when invoke returns -1 or    *)
(* when there is no memory for the request or for the reply.                 *)
Refuse == /\ at["server"] \in {"length", "body"} /\ ReadAll("server")
          /\ at' = [at EXCEPT !["server"] = "end"]
          /\ Close("server")
          /\ \/ UNCHANGED handled
             \/ /\ at["server"] = "body"
                /\ \E m \in Unpacked(got["server"]) \ {Rpc!Error, Garbage} : handled' = m[2]
          /\ UNCHANGED <<streamVars, made, result, skewed>>

(* An end gives the connection up: the call returns NULL, the thread ends,  *)
(* the socket is closed.                                                    *)
GiveUp(e) == /\ at' = [at EXCEPT ![e] = "end"]
             /\ Close(e)
             /\ result' = IF e = "client" /\ result = Rpc!Pending THEN Rpc!Error ELSE result
             /\ UNCHANGED <<streamVars, made, handled, skewed>>

(* write fails; read fails or returns 0. *)
Fail(e) == Broken(e) /\ GiveUp(e)

(* The process at an end dies, or the client leaves. *)
Die(e) == at[e] # "end" /\ GiveUp(e)

Step(e) == Write(e) \/ Written(e) \/ Read(e) \/ GotLength(e) \/ Fail(e)

Next == \/ \E e \in Ends : Step(e) \/ Die(e)
        \/ Call \/ Return \/ ReadBufFails \/ Serve \/ Refuse

Spec == Init /\ [][Next]_vars

(* Both ends run; none on calls, deaths and failed allocations. *)
Fairness == /\ \A e \in Ends : WF_vars(Step(e))
            /\ WF_vars(Return)
            /\ WF_vars(Serve \/ Refuse)

FairSpec == Spec /\ Fairness
---------------------------------------------------------------------------
TypeOK == /\ at \in [Ends -> Places]
          /\ open \subseteq Ends
          /\ \A e \in Ends : /\ Len(wire[e]) \in 0 .. Cap
                             /\ Len(out[e]) \in Nat
                             /\ need[e] \in Nat /\ Len(got[e]) \in 0 .. need[e]
          /\ made \in 0 .. MaxRequests /\ handled \in 0 .. made
          /\ skewed \in BOOLEAN

(* What has been read, is on the way and is still to be written from e. *)
Transit(e) == (IF at[Peer(e)] \in {"length", "body"} THEN got[Peer(e)] ELSE <<>>)
              \o wire[e] \o out[e]

(* What end e reads now, or will when it finds that all is written. *)
Awaits(e) == IF at[e] = "write" /\ out[e] = <<>> THEN "length" ELSE at[e]

(* However the kernel cuts the stream, an end that reads a length has one   *)
(* whole frame coming or nothing, an end that reads a message has exactly   *)
(* that message coming, and nothing comes to an end that does not read.     *)
WholeFrames == ~ skewed /\ open = Ends => \A e \in Ends :
    LET bytes == Transit(e)
        awaits == Awaits(Peer(e))
    IN  CASE awaits = "length" -> bytes # <<>> => Len(bytes) > 2 /\ bytes = Frame(bytes[3].msg, bytes[3].len)
          [] awaits = "body"   -> bytes # <<>> /\ bytes = Contents(bytes[1].msg, need[Peer(e)])
          [] OTHER             -> bytes = <<>>

(* Calls over the stream behave as Rpc promises, each reply that of its own *)
(* request, up to the moment when a message was too long for its length or  *)
(* a reply found no memory.                                                 *)
ImplementsRpc == Rpc!Init /\ [][skewed' \/ Rpc!Next]_(Rpc!vars)

(* Every call returns, with a reply or with an error, up to the same moment. *)
EveryCallReturns == (result = Rpc!Pending) ~> (result # Rpc!Pending \/ skewed)

(* A call that returns a message returns the reply to its request. *)
ReplyIsOwn == result \in {Rpc!Pending, Rpc!Error, Rpc!ReplyTo(made)}
===========================================================================
