--------------------------- MODULE FramingProofs ---------------------------
(***************************************************************************)
(* What Framing promises, for every number of byte values, every capacity  *)
(* of the kernel's buffers, all lengths of messages and any number of      *)
(* calls: TypeInv gives the types of the streams, and Conversation says    *)
(* which message is on its way between the ends, and in which of them.     *)
(***************************************************************************)
EXTENDS Framing, SequenceTheorems, TLAPS

(* Sequences: bytes that move from one to the next, and equal beginnings.   *)
(* Under this name the provers take the set of sequences as it is, without  *)
(* looking into its members.                                                *)
Strings(S) == Seq(S)

LEMMA BytesStay ==
  \A S : \A w, o \in Strings(S) : \A k \in 1 .. Len(o) :
     (w \o SubSeq(o, 1, k)) \o SubSeq(o, k + 1, Len(o)) = w \o o
<1> SUFFICES ASSUME NEW S
             PROVE  \A w, o \in Strings(S) : \A k \in 1 .. Len(o) :
                      (w \o SubSeq(o, 1, k)) \o SubSeq(o, k + 1, Len(o)) = w \o o
  OBVIOUS
<1>1. \A x, y, z \in Strings(S) : (x \o y) \o z = x \o (y \o z)
  BY ConcatAssociative DEF Strings
<1> SUFFICES ASSUME NEW w \in Strings(S), NEW o \in Strings(S), NEW k \in 1 .. Len(o)
             PROVE  (w \o SubSeq(o, 1, k)) \o SubSeq(o, k + 1, Len(o)) = w \o o
  OBVIOUS
<1> DEFINE a == SubSeq(o, 1, k)
           b == SubSeq(o, k + 1, Len(o))
<1>2. a \in Strings(S) /\ b \in Strings(S) /\ a \o b = o
  <2>1. /\ Len(o) \in Nat /\ k \in Int /\ k + 1 \in Int /\ Len(o) \in Int /\ 1 \in Int
        /\ \A i \in 1 .. k : o[i] \in S
        /\ \A i \in k + 1 .. Len(o) : o[i] \in S
    BY LenProperties, ElementOfSeq DEF Strings
  <2>2. a \in Seq(S) /\ b \in Seq(S)
    BY <2>1, SubSeqProperties
  <2>3. 1 \in 1 .. Len(o) + 1 /\ k \in 1 - 1 .. Len(o) /\ Len(o) \in k .. Len(o)
    BY <2>1
  <2>4. a \o b = SubSeq(o, 1, Len(o))
    BY <2>3, ConcatAdjacentSubSeq DEF Strings
  <2>5. QED
    BY <2>2, <2>4, SubSeqFull DEF Strings
<1> HIDE DEF a, b
<1>3. (w \o a) \o b = w \o o
  BY <1>1, <1>2, Zenon
<1>4. QED
  BY <1>3 DEF a, b

LEMMA BytesMove ==
  ASSUME NEW S, NEW w \in Seq(S), NEW o \in Seq(S), NEW k \in 1 .. Len(o)
  PROVE  /\ w \o SubSeq(o, 1, k) \in Seq(S) /\ SubSeq(o, k + 1, Len(o)) \in Seq(S)
         /\ Len(w \o SubSeq(o, 1, k)) = Len(w) + k
         /\ Len(SubSeq(o, k + 1, Len(o))) = Len(o) - k
<1>1. /\ Len(o) \in Nat /\ k \in Int /\ k + 1 \in Int /\ Len(o) \in Int /\ 1 \in Int
      /\ \A i \in 1 .. k : o[i] \in S
      /\ \A i \in k + 1 .. Len(o) : o[i] \in S
  BY LenProperties, ElementOfSeq
<1>2. SubSeq(o, 1, k) \in Seq(S) /\ Len(SubSeq(o, 1, k)) = k
  BY <1>1, SubSeqProperties
<1>3. SubSeq(o, k + 1, Len(o)) \in Seq(S) /\ Len(SubSeq(o, k + 1, Len(o))) = Len(o) - k
  BY <1>1, SubSeqProperties
<1>4. QED
  BY <1>2, <1>3, ConcatProperties

LEMMA StringsJoin ==
  \A S : \A a, b \in Strings(S) : a \o b \in Strings(S)
  BY ConcatProperties DEF Strings

LEMMA SameBeginning ==
  \A S : \A a, b, c, d \in Strings(S) :
     a \o b = c \o d /\ Len(a) = Len(c) => a = c /\ b = d
<1> SUFFICES ASSUME NEW S, NEW a \in Seq(S), NEW b \in Seq(S), NEW c \in Seq(S), NEW d \in Seq(S),
                    a \o b = c \o d, Len(a) = Len(c)
             PROVE  a = c /\ b = d
  BY DEF Strings
<1>1. \A i \in 1 .. Len(a) : a[i] = c[i]
  <2> SUFFICES ASSUME NEW i \in 1 .. Len(a) PROVE a[i] = c[i]
    OBVIOUS
  <2>1. i <= Len(a) /\ i <= Len(c) /\ i \in 1 .. Len(a) + Len(b) /\ i \in 1 .. Len(c) + Len(d)
    BY LenProperties
  <2>2. (a \o b)[i] = a[i] /\ (c \o d)[i] = c[i]
    BY <2>1, ConcatProperties
  <2>3. QED
    BY <2>2
<1>2. a = c
  BY <1>1, SeqEqual
<1>3. QED
  BY <1>2, ConcatSimplifications

(* The bytes of a length give the length back, if they can. *)
LEMMA LengthOfDigits ==
  ASSUME NEW len \in Nat, ~ TooLong(len)
  PROVE  Base * ((len \div Base) % Base) + (len % Base) = len
<1>1. Base \in Nat /\ Base > 1 /\ len < Base * Base
  BY FramingAssumption DEF TooLong
<1> DEFINE q == len \div Base
<1>2. q \in Nat /\ len % Base \in 0 .. Base - 1 /\ len = Base * q + (len % Base)
  BY <1>1
<1>3. q < Base
  <2>1. SUFFICES ASSUME q >= Base PROVE FALSE
    BY <1>1, <1>2
  <2>2. Base * q >= Base * Base
    <3> HIDE DEF q
    <3> QED BY <1>1, <1>2, <2>1
  <2>3. QED
    <3> HIDE DEF q
    <3> QED BY <1>1, <1>2, <2>2
<1>4. q % Base = q
  <2> HIDE DEF q
  <2> QED BY <1>1, <1>2, <1>3
<1>5. QED
  BY <1>2, <1>4
---------------------------------------------------------------------------
(* The messages that end e may have sent when n calls were made, and the    *)
(* bytes of its stream.                                                     *)
Message(e, n) == IF e = "client" THEN {Request(i) : i \in 1 .. n}
                                 ELSE {Garbage} \cup {Rpc!ReplyTo(i) : i \in 0 .. n}

Byte(e, n) == {b \in [msg : Message(e, n) \cup {<<"length">>}, place : Nat, len : Nat] :
                  b.msg = <<"length">> => b.len = 0}

Streams(e) == /\ out[e] \in Seq(Byte(e, made))
              /\ wire[e] \in Seq(Byte(e, made))
              /\ got[Peer(e)] \in Seq(Byte(e, made))

TypeInv ==
    /\ at \in [Ends -> Places] /\ open = {e \in Ends : at[e] # "end"}
    /\ need \in [Ends -> Nat]
    /\ DOMAIN out = Ends /\ DOMAIN wire = Ends /\ DOMAIN got = Ends
    /\ made \in 0 .. MaxRequests /\ handled \in 0 .. made /\ skewed \in BOOLEAN
    /\ \A e \in Ends : /\ Streams(e)
                       /\ Len(wire[e]) <= Cap /\ Len(got[e]) <= need[e]
                       /\ at[e] = "length" => need[e] = 2

LEMMA TwoEnds ==
  /\ \A e \in Ends : Peer(e) \in Ends /\ Peer(e) # e /\ Peer(Peer(e)) = e
  /\ "client" \in Ends /\ "server" \in Ends /\ Peer("client") = "server" /\ Peer("server") = "client"
  /\ \A e \in Ends : e = "client" \/ e = "server"
  BY DEF Ends, Peer

(* A frame is a sequence of bytes, two more than its message has. *)
LEMMA FrameType ==
  ASSUME NEW e \in Ends, NEW n \in Nat, NEW m \in Message(e, n), NEW len \in Nat \ {0}
  PROVE  /\ Contents(m, len) \in Seq(Byte(e, n)) /\ Len(Contents(m, len)) = len
         /\ Contents(m, len)[1].msg = m /\ Contents(m, len)[1].len = len
         /\ <<Digit((len \div Base) % Base), Digit(len % Base)>> \in Seq(Byte(e, n))
         /\ Len(<<Digit((len \div Base) % Base), Digit(len % Base)>>) = 2
         /\ Frame(m, len) \in Seq(Byte(e, n)) /\ Len(Frame(m, len)) = len + 2
<1>1. m # <<"length">>
  BY DEF Message, Request, Garbage, Rpc!ReplyTo
<1>2. \A i \in 1 .. len : [msg |-> m, place |-> i, len |-> len] \in Byte(e, n)
  BY <1>1 DEF Byte
<1>3. Contents(m, len) \in Seq(Byte(e, n)) /\ Len(Contents(m, len)) = len
  BY <1>2 DEF Contents
<1>4. Contents(m, len)[1] = [msg |-> m, place |-> 1, len |-> len]
  BY DEF Contents
<1>5. \A d \in Nat : Digit(d) \in Byte(e, n)
  BY DEF Digit, Byte
<1>6. (len \div Base) % Base \in Nat /\ len % Base \in Nat
  BY FramingAssumption
<1>7. /\ <<Digit((len \div Base) % Base), Digit(len % Base)>> \in Seq(Byte(e, n))
      /\ Len(<<Digit((len \div Base) % Base), Digit(len % Base)>>) = 2
  BY <1>5, <1>6
<1>8. QED
  BY <1>3, <1>4, <1>7, ConcatProperties DEF Frame

(* Types are kept when more calls are made. *)
LEMMA MoreCalls ==
  ASSUME NEW e \in Ends, NEW n \in Nat
  PROVE  Byte(e, n) \subseteq Byte(e, n + 1) /\ Message(e, n) \subseteq Message(e, n + 1)
<1>1. Message(e, n) \subseteq Message(e, n + 1)
  BY DEF Message
<1>2. QED
  BY <1>1 DEF Byte

LEMMA InitTypeInv == Init => TypeInv
<1> SUFFICES ASSUME Init PROVE TypeInv
  OBVIOUS
<1>1. \A e \in Ends : out[e] = <<>> /\ wire[e] = <<>> /\ got[e] = <<>> /\ need[e] = 2
  BY DEF Init
<1>2. \A e \in Ends : Streams(e)
  BY <1>1, TwoEnds, EmptySeq DEF Streams
<1>3. open = {e \in Ends : at[e] # "end"} /\ at \in [Ends -> Places]
  BY DEF Init, Ends, Places
<1>4. DOMAIN out = Ends /\ DOMAIN wire = Ends /\ DOMAIN got = Ends /\ need \in [Ends -> Nat]
  BY DEF Init
<1>5. made \in 0 .. MaxRequests /\ handled \in 0 .. made /\ skewed \in BOOLEAN
  <2>1. made = 0 /\ handled = 0 /\ skewed = FALSE
    BY DEF Init, Rpc!Init
  <2>2. skewed \in BOOLEAN
    BY <2>1
  <2>3. made \in 0 .. MaxRequests /\ handled \in 0 .. made
    BY <2>1, FramingAssumption
  <2>4. QED
    BY <2>2, <2>3
<1>6. \A e \in Ends : Len(wire[e]) <= Cap /\ Len(got[e]) <= need[e]
  BY <1>1, FramingAssumption, EmptySeq
<1>7. QED
  BY <1>1, <1>2, <1>3, <1>4, <1>5, <1>6 DEF TypeInv

(* Steps that leave the streams as they are. *)
LEMMA QuietKeepsTypes ==
  ASSUME TypeInv, UNCHANGED <<streamVars, made, skewed>>,
         at' \in [Ends -> Places], open' = {e \in Ends : at'[e] # "end"},
         \A e \in Ends : at'[e] = "length" => at[e] = "length", handled' \in 0 .. made
  PROVE  TypeInv'
  BY DEF TypeInv, Streams, streamVars

LEMMA WriteKeepsTypes ==
  ASSUME TypeInv, NEW e \in Ends, Write(e)
  PROVE  TypeInv'
<1>1. PICK k \in 1 .. Len(out[e]) :
         /\ Len(wire[e]) + k <= Cap
         /\ wire' = [wire EXCEPT ![e] = @ \o SubSeq(out[e], 1, k)]
         /\ out' = [out EXCEPT ![e] = SubSeq(@, k + 1, Len(@))]
  BY DEF Write
<1>2. wire[e] \in Seq(Byte(e, made)) /\ out[e] \in Seq(Byte(e, made))
  BY DEF TypeInv, Streams
<1>3. /\ wire'[e] = wire[e] \o SubSeq(out[e], 1, k) /\ out'[e] = SubSeq(out[e], k + 1, Len(out[e]))
      /\ \A x \in Ends : x # e => wire'[x] = wire[x] /\ out'[x] = out[x]
      /\ DOMAIN wire' = Ends /\ DOMAIN out' = Ends
      /\ UNCHANGED <<at, open, got, need, made, handled, skewed>>
  BY <1>1 DEF Write, TypeInv
<1>4. /\ wire'[e] \in Seq(Byte(e, made)) /\ out'[e] \in Seq(Byte(e, made))
      /\ Len(wire'[e]) <= Cap
  BY <1>1, <1>2, <1>3, BytesMove
<1>5. QED
  BY <1>3, <1>4 DEF TypeInv, Streams

LEMMA ReadKeepsTypes ==
  ASSUME TypeInv, NEW e \in Ends, Read(e)
  PROVE  TypeInv'
<1> DEFINE p == Peer(e)
<1>1. PICK k \in 1 .. need[e] - Len(got[e]) :
         /\ k <= Len(wire[p])
         /\ got' = [got EXCEPT ![e] = @ \o SubSeq(wire[p], 1, k)]
         /\ wire' = [wire EXCEPT ![p] = SubSeq(@, k + 1, Len(@))]
  BY DEF Read
<1>2. p \in Ends /\ Peer(p) = e /\ p # e
  BY TwoEnds
<1>3. wire[p] \in Seq(Byte(p, made)) /\ got[e] \in Seq(Byte(p, made))
  BY <1>2 DEF TypeInv, Streams
<1>4. k \in 1 .. Len(wire[p]) /\ Len(got[e]) + k <= need[e] /\ Len(wire[p]) \in Nat
  BY <1>1, <1>3, LenProperties DEF TypeInv
<1>5. /\ got'[e] = got[e] \o SubSeq(wire[p], 1, k) /\ wire'[p] = SubSeq(wire[p], k + 1, Len(wire[p]))
      /\ \A x \in Ends : x # e => got'[x] = got[x]
      /\ \A x \in Ends : x # p => wire'[x] = wire[x]
      /\ DOMAIN wire' = Ends /\ DOMAIN got' = Ends
      /\ UNCHANGED <<at, open, out, need, made, handled, skewed>>
  BY <1>1, <1>2 DEF Read, TypeInv
<1>6. /\ wire'[p] \in Seq(Byte(p, made)) /\ got'[e] \in Seq(Byte(p, made))
      /\ Len(wire'[p]) = Len(wire[p]) - k /\ Len(got'[e]) = Len(got[e]) + k
  BY <1>3, <1>4, <1>5, BytesMove
<1>7. Len(wire'[p]) <= Cap
  BY <1>2, <1>4, <1>6, FramingAssumption DEF TypeInv
<1>8. \A x \in Ends : Streams(x)'
  BY <1>2, <1>5, <1>6, TwoEnds DEF TypeInv, Streams
<1>9. QED
  BY <1>2, <1>4, <1>5, <1>6, <1>7, <1>8 DEF TypeInv

(* read_all starts again. *)
LEMMA StartKeepsTypes ==
  ASSUME TypeInv, NEW e \in Ends, NEW n \in Nat, StartRead(e, n), UNCHANGED <<out, wire, made>>
  PROVE  /\ got'[e] = <<>> /\ need'[e] = n /\ need' \in [Ends -> Nat] /\ DOMAIN got' = Ends
         /\ \A x \in Ends : x # e => got'[x] = got[x] /\ need'[x] = need[x]
         /\ \A x \in Ends : Streams(x)' /\ Len(got'[x]) <= need'[x]
<1>1. /\ got'[e] = <<>> /\ need'[e] = n /\ need' \in [Ends -> Nat] /\ DOMAIN got' = Ends
      /\ \A x \in Ends : x # e => got'[x] = got[x] /\ need'[x] = need[x]
  BY DEF StartRead, TypeInv
<1>2. \A x \in Ends : Streams(x)'
  <2> SUFFICES ASSUME NEW x \in Ends PROVE Streams(x)'
    OBVIOUS
  <2>1. Peer(x) \in Ends /\ Streams(x)
    BY TwoEnds DEF TypeInv
  <2>2. got'[Peer(x)] \in Seq(Byte(x, made))
    BY <1>1, <2>1, EmptySeq DEF Streams
  <2>3. QED
    BY <2>1, <2>2 DEF Streams
<1>3. QED
  BY <1>1, <1>2, EmptySeq DEF TypeInv

(* What a length that was read may be. *)
LEMMA LengthsAreNumbers ==
  ASSUME TypeInv, NEW e \in Ends, at[e] = "length", ReadAll(e)
  PROVE  Lengths(got[e]) \subseteq Nat
<1>1. Len(got[e]) = 2 /\ got[e] \in Seq(Byte(Peer(e), made))
  BY TwoEnds DEF TypeInv, Streams, ReadAll
<1>2. got[e][1] \in Byte(Peer(e), made) /\ got[e][2] \in Byte(Peer(e), made)
  BY <1>1, ElementOfSeq
<1>3. \A b \in Byte(Peer(e), made) : Values(b) \subseteq Nat
  BY FramingAssumption DEF Byte, Values
<1>4. \A hi, lo \in Nat : Base * hi + lo \in Nat
  BY FramingAssumption
<1>5. Values(got[e][1]) \subseteq Nat /\ Values(got[e][2]) \subseteq Nat
  BY <1>2, <1>3
<1>6. QED
  BY <1>4, <1>5 DEF Lengths

LEMMA StepKeepsTypes ==
  ASSUME TypeInv, NEW e \in Ends, Step(e) \/ Die(e)
  PROVE  TypeInv'
<1>1. CASE Write(e) \/ Read(e)
  BY <1>1, WriteKeepsTypes, ReadKeepsTypes
<1>2. CASE Written(e)
  <2>1. /\ UNCHANGED <<open, out, wire, made, handled, skewed>> /\ StartRead(e, 2)
        /\ at' \in [Ends -> Places] /\ at'[e] = "length" /\ at[e] # "end"
        /\ \A x \in Ends : x # e => at'[x] = at[x]
    BY <1>2 DEF Written, Goto, TypeInv, Places
  <2>2. /\ need'[e] = 2 /\ need' \in [Ends -> Nat] /\ DOMAIN got' = Ends
        /\ \A x \in Ends : x # e => need'[x] = need[x]
        /\ \A x \in Ends : Streams(x)' /\ Len(got'[x]) <= need'[x]
    BY <2>1, StartKeepsTypes
  <2>3. QED
    BY <2>1, <2>2 DEF TypeInv
<1>3. CASE GotLength(e)
  <2>1. /\ UNCHANGED <<open, out, wire, made, handled, skewed>>
        /\ at' \in [Ends -> Places] /\ at'[e] = "body" /\ at[e] # "end"
        /\ \A x \in Ends : x # e => at'[x] = at[x]
    BY <1>3 DEF GotLength, Goto, TypeInv, Places
  <2>2. PICK n \in Nat : StartRead(e, n)
    BY <1>3, LengthsAreNumbers DEF GotLength, Goto
  <2>3. /\ need' \in [Ends -> Nat] /\ DOMAIN got' = Ends
        /\ \A x \in Ends : x # e => need'[x] = need[x]
        /\ \A x \in Ends : Streams(x)' /\ Len(got'[x]) <= need'[x]
    BY <2>1, <2>2, StartKeepsTypes
  <2>4. QED
    BY <2>1, <2>3 DEF TypeInv
<1>4. CASE Fail(e) \/ Die(e)
  <2>1. /\ UNCHANGED <<streamVars, made, skewed, handled>>
        /\ at' = [at EXCEPT ![e] = "end"] /\ open' = open \ {e}
    BY <1>4 DEF Fail, Die, GiveUp, Close
  <2>2. /\ at' \in [Ends -> Places] /\ open' = {x \in Ends : at'[x] # "end"}
        /\ \A x \in Ends : at'[x] = "length" => at[x] = "length"
    BY <2>1 DEF TypeInv, Places
  <2>3. handled' \in 0 .. made
    BY <2>1 DEF TypeInv
  <2>4. QED
    BY <2>1, <2>2, <2>3, QuietKeepsTypes
<1>5. QED
  BY <1>1, <1>2, <1>3, <1>4 DEF Step

(* What invoke may be given. *)
LEMMA UnpackedIsMessage ==
  ASSUME TypeInv, NEW e \in Ends, NEW m \in Unpacked(got[e])
  PROVE  m \in Message(Peer(e), made) \/ m = Rpc!Error \/ m = Garbage
<1>1. CASE m \in {Rpc!Error, Garbage}
  BY <1>1
<1>2. CASE got[e] # <<>> /\ got[e] = Contents(got[e][1].msg, got[e][1].len) /\ m = got[e][1].msg
  <2>1. got[e] \in Seq(Byte(Peer(e), made)) /\ Len(got[e]) # 0
    BY <1>2, TwoEnds, EmptySeq DEF TypeInv, Streams
  <2>2. got[e][1] \in Byte(Peer(e), made) /\ Len(got[e]) \in Nat
    BY <2>1, ElementOfSeq, LenProperties
  <2>3. got[e][1].len # 0
    BY <1>2, <2>1, <2>2 DEF Contents
  <2>4. QED
    BY <1>2, <2>2, <2>3 DEF Byte
<1>3. QED
  BY <1>1, <1>2 DEF Unpacked

(* A message is sent, by the client with a new call or by the server.       *)
LEMMA SendKeepsTypes ==
  ASSUME TypeInv, NEW e \in Ends, NEW m \in Message(e, made'), NEW len \in Nat \ {0},
         Send(e, m, len), UNCHANGED <<open, wire, got, need>>,
         at' = [at EXCEPT ![e] = "write"], at[e] # "end",
         made' \in made .. MaxRequests, made' <= made + 1, handled' \in 0 .. made'
  PROVE  TypeInv'
<1>1. made' \in Nat /\ made \in Nat /\ (made' = made \/ made' = made + 1)
  BY FramingAssumption DEF TypeInv
<1>2. \A x \in Ends : Byte(x, made) \subseteq Byte(x, made')
  BY <1>1, MoreCalls
<1>3. /\ out'[e] = Frame(m, len) /\ DOMAIN out' = Ends
      /\ \A x \in Ends : x # e => out'[x] = out[x]
      /\ skewed' \in BOOLEAN
  BY DEF Send, TypeInv
<1>4. out'[e] \in Seq(Byte(e, made'))
  BY <1>1, <1>3, FrameType
<1>5. \A x \in Ends : Streams(x)'
  <2> SUFFICES ASSUME NEW x \in Ends PROVE Streams(x)'
    OBVIOUS
  <2>1. Streams(x)
    BY DEF TypeInv
  <2>2. wire[x] \in Seq(Byte(x, made')) /\ got[Peer(x)] \in Seq(Byte(x, made'))
        /\ out[x] \in Seq(Byte(x, made'))
    BY <1>2, <2>1, SeqMonotonic DEF Streams
  <2>3. QED
    BY <1>3, <1>4, <2>2 DEF Streams
<1>6. at' \in [Ends -> Places] /\ open' = {x \in Ends : at'[x] # "end"}
      /\ \A x \in Ends : at'[x] = "length" => at[x] = "length"
  BY DEF TypeInv, Places
<1>7. made' \in 0 .. MaxRequests
  BY <1>1
<1>8. QED
  BY <1>3, <1>5, <1>6, <1>7 DEF TypeInv

LEMMA NextKeepsTypes ==
  ASSUME TypeInv, [Next]_vars
  PROVE  TypeInv'
<1>1. ASSUME NEW e \in Ends, Step(e) \/ Die(e) PROVE TypeInv'
  BY <1>1, StepKeepsTypes
<1>2. CASE Call
  <2>1. /\ made' = made + 1 /\ made \in Nat /\ made' \in made .. MaxRequests /\ made' <= made + 1
        /\ handled' = handled /\ handled' \in 0 .. made'
    BY <1>2, FramingAssumption DEF Call, Rpc!Call, TypeInv
  <2>2. PICK len \in RequestLens : Send("client", Request(made'), len)
    BY <1>2 DEF Call
  <2>3. Request(made') \in Message("client", made')
    BY <2>1 DEF Message
  <2>4. len \in Nat \ {0}
    BY FramingAssumption
  <2>5. UNCHANGED <<open, wire, got, need>> /\ at' = [at EXCEPT !["client"] = "write"] /\ at["client"] # "end"
    BY <1>2 DEF Call, Goto
  <2>6. QED
    BY <2>1, <2>2, <2>3, <2>4, <2>5, TwoEnds, SendKeepsTypes
<1>3. CASE Serve
  <2>1. PICK m \in Unpacked(got["server"]) \ {Rpc!Error}, len \in ReplyLens :
           /\ handled' = IF m = Garbage THEN handled ELSE m[2]
           /\ Send("server", IF m = Garbage THEN Garbage ELSE Rpc!ReplyTo(m[2]), len)
    BY <1>3 DEF Serve
  <2>0. /\ UNCHANGED <<open, wire, got, need, made>> /\ made \in Nat /\ handled \in 0 .. made
        /\ at' = [at EXCEPT !["server"] = "write"] /\ at["server"] # "end" /\ len \in Nat \ {0}
        /\ made' \in made .. MaxRequests /\ made' <= made + 1
    BY <1>3, FramingAssumption DEF Serve, Goto, TypeInv
  <2>2. m = Garbage \/ m \in Message("client", made)
    BY <2>1, TwoEnds, UnpackedIsMessage
  <2>3. CASE m = Garbage
    <3>1. Garbage \in Message("server", made) /\ UNCHANGED <<handled, made>> /\ Send("server", Garbage, len)
      BY <1>3, <2>1, <2>3 DEF Message, Serve
    <3>2. QED
      BY <2>0, <3>1, TwoEnds, SendKeepsTypes
  <2>4. CASE m # Garbage
    <3>1. PICK i \in 1 .. made : m = Request(i)
      BY <2>2, <2>4, TwoEnds DEF Message
    <3>2. handled' = i /\ Send("server", Rpc!ReplyTo(i), len)
      BY <2>1, <2>4, <3>1 DEF Request
    <3>3. Rpc!ReplyTo(i) \in Message("server", made') /\ handled' \in 0 .. made'
      BY <2>0, <3>2 DEF Message
    <3>4. QED
      BY <2>0, <3>2, <3>3, TwoEnds, SendKeepsTypes
  <2>5. QED
    BY <2>3, <2>4
<1>4. CASE Return \/ ReadBufFails
  <2>1. /\ UNCHANGED <<open, streamVars, made, handled>> /\ skewed' \in BOOLEAN
        /\ at' \in [Ends -> Places] /\ at["client"] # "end" /\ at'["client"] = "idle"
        /\ at'["server"] = at["server"]
    BY <1>4 DEF Return, ReadBufFails, Goto, TypeInv, Places, Ends
  <2>2. open' = {e \in Ends : at'[e] # "end"} /\ \A e \in Ends : at'[e] = "length" => at[e] = "length"
    <3>1. \A e \in Ends : (at'[e] = "end" <=> at[e] = "end") /\ (at'[e] = "length" => at[e] = "length")
      BY <2>1, TwoEnds
    <3>2. QED
      BY <2>1, <3>1 DEF TypeInv
  <2>3. QED
    BY <2>1, <2>2 DEF TypeInv, Streams, streamVars
<1>5. CASE Refuse
  <2>1. /\ UNCHANGED <<streamVars, made, skewed>>
        /\ at' = [at EXCEPT !["server"] = "end"] /\ open' = open \ {"server"}
    BY <1>5 DEF Refuse, Close
  <2>2. /\ at' \in [Ends -> Places] /\ open' = {x \in Ends : at'[x] # "end"}
        /\ \A x \in Ends : at'[x] = "length" => at[x] = "length"
    BY <2>1 DEF TypeInv, Places
  <2>3. handled' \in 0 .. made
    <3>1. CASE UNCHANGED handled
      BY <3>1 DEF TypeInv
    <3>2. CASE \E m \in Unpacked(got["server"]) \ {Rpc!Error, Garbage} : handled' = m[2]
      <4>1. PICK m \in Unpacked(got["server"]) \ {Rpc!Error, Garbage} : handled' = m[2]
        BY <3>2
      <4>2. m \in Message("client", made)
        BY <4>1, TwoEnds, UnpackedIsMessage
      <4>3. PICK i \in 1 .. made : m = Request(i)
        BY <4>2 DEF Message
      <4>4. QED
        BY <4>1, <4>3 DEF Request, TypeInv
    <3>3. QED
      BY <1>5, <3>1, <3>2 DEF Refuse
  <2>4. QED
    BY <2>1, <2>2, <2>3, QuietKeepsTypes
<1>6. CASE UNCHANGED vars
  BY <1>6 DEF vars, streamVars, TypeInv, Streams
<1>7. QED
  BY <1>1, <1>2, <1>3, <1>4, <1>5, <1>6 DEF Next

(* The bytes in the buffers at both ends are those of messages that their    *)
(* writer may have sent, whatever lengths and cuts there are.               *)
THEOREM FramingTypeInv == Spec => []TypeInv
<1>1. QED
  BY InitTypeInv, NextKeepsTypes, PTL DEF Spec

(* The buffers keep within their capacity, a read_all never has more than   *)
(* it asks for, and no request is handled that was not made, even when the  *)
(* stream is out of step.                                                   *)
THEOREM FramingTypes == Spec => []TypeOK
<1>1. TypeInv => TypeOK
  <2> SUFFICES ASSUME TypeInv PROVE TypeOK
    OBVIOUS
  <2>1. ASSUME NEW e \in Ends
        PROVE  /\ Len(wire[e]) \in 0 .. Cap /\ Len(out[e]) \in Nat
               /\ need[e] \in Nat /\ Len(got[e]) \in 0 .. need[e]
    <3>1. Streams(e) /\ Streams(Peer(e)) /\ Peer(Peer(e)) = e
      BY TwoEnds DEF TypeInv
    <3>2. Len(wire[e]) \in Nat /\ Len(out[e]) \in Nat /\ Len(got[e]) \in Nat
      BY <3>1, LenProperties DEF Streams
    <3>3. QED
      BY <3>2, FramingAssumption DEF TypeInv
  <2>2. QED
    BY <2>1 DEF TypeInv, TypeOK
<1>2. QED
  BY <1>1, FramingTypeInv, PTL
---------------------------------------------------------------------------
(* Nothing is on the way from e, or exactly message m is: its frame to an   *)
(* end that reads a length or is about to, or what is left of it to an end  *)
(* that has read the length and waits for as many bytes.                    *)
Nothing(e) == Transit(e) = <<>>

Coming(e, m) ==
    \E len \in Nat \ {0} :
       /\ ~ TooLong(len)
       /\ \/ Awaits(Peer(e)) = "length" /\ Transit(e) = Frame(m, len)
          \/ at[Peer(e)] = "body" /\ need[Peer(e)] = len /\ Transit(e) = Contents(m, len)

CallIsOpen == at["client"] \in {"idle", "end"} <=> result # Rpc!Pending

(* To the server comes the request of the call in progress, not yet handled; *)
ToServer == at["server"] # "end" =>
               \/ Nothing("client") /\ at["server"] # "body"
               \/ handled < made /\ Coming("client", Request(made))

(* to the client the reply to it, and it was handled;                        *)
ToClient == at["client"] # "end" =>
               \/ Nothing("server") /\ at["client"] # "body"
               \/ handled = made /\ at["client"] # "idle" /\ Coming("server", Rpc!ReplyTo(made))

(* and when both are there, either nobody has the floor, or one of them.     *)
OneSpeaks == at["client"] # "end" /\ at["server"] # "end" =>
    \/ Nothing("client") /\ Nothing("server") /\ at["client"] = "idle" /\ Awaits("server") = "length"
    \/ ~ Nothing("client") /\ Nothing("server") /\ at["client"] \in {"write", "length"}
    \/ Nothing("client") /\ ~ Nothing("server") /\ at["server"] \in {"write", "length"}

Conversation == skewed \/ (CallIsOpen /\ ToServer /\ ToClient /\ OneSpeaks)

(* What a frame is made of; it can be told from nothing, and the message    *)
(* from what is read.                                                       *)
LEMMA FrameShape ==
  ASSUME NEW e \in Ends, NEW n \in Nat, NEW m \in Message(e, n), NEW len \in Nat \ {0}
  PROVE  /\ Frame(m, len) # <<>> /\ Contents(m, len) # <<>>
         /\ Frame(m, len)[3].msg = m /\ Frame(m, len)[3].len = len
         /\ Unpacked(Contents(m, len)) = {m}
<1>1. /\ Contents(m, len) \in Seq(Byte(e, n)) /\ Len(Contents(m, len)) = len
      /\ Contents(m, len)[1].msg = m /\ Contents(m, len)[1].len = len
      /\ <<Digit((len \div Base) % Base), Digit(len % Base)>> \in Seq(Byte(e, n))
      /\ Len(<<Digit((len \div Base) % Base), Digit(len % Base)>>) = 2
      /\ Frame(m, len) \in Seq(Byte(e, n)) /\ Len(Frame(m, len)) = len + 2
  BY FrameType
<1>2. Frame(m, len) # <<>> /\ Contents(m, len) # <<>>
  BY <1>1, EmptySeq
<1>3. Frame(m, len)[3] = Contents(m, len)[1]
  <2>1. 3 \in 1 .. 2 + len /\ ~ (3 <= 2) /\ 3 - 2 = 1
    OBVIOUS
  <2>2. QED
    BY <1>1, <2>1, ConcatProperties DEF Frame
<1>4. Unpacked(Contents(m, len)) = {m}
  BY <1>1, <1>2 DEF Unpacked
<1>5. QED
  BY <1>1, <1>2, <1>3, <1>4

LEMMA Joined ==
  ASSUME NEW S
  PROVE  \A x, y, z \in Seq(S) : /\ (x \o y) \o z = x \o (y \o z)
                                 /\ (x \o y) \o z = <<>> <=> x = <<>> /\ y = <<>> /\ z = <<>>
<1> SUFFICES ASSUME NEW x \in Seq(S), NEW y \in Seq(S), NEW z \in Seq(S)
             PROVE  /\ (x \o y) \o z = x \o (y \o z)
                    /\ (x \o y) \o z = <<>> <=> x = <<>> /\ y = <<>> /\ z = <<>>
  OBVIOUS
<1>1. (x \o y) \o z = x \o (y \o z)
  BY ConcatAssociative
<1>2. /\ x \o y \in Seq(S) /\ (x \o y) \o z \in Seq(S)
      /\ Len((x \o y) \o z) = Len(x) + Len(y) + Len(z)
      /\ Len(x) \in Nat /\ Len(y) \in Nat /\ Len(z) \in Nat
  BY ConcatProperties, LenProperties
<1>3. QED
  BY <1>1, <1>2, EmptySeq

LEMMA TransitType ==
  ASSUME TypeInv, NEW e \in Ends
  PROVE  /\ wire[e] \in Seq(Byte(e, made)) /\ out[e] \in Seq(Byte(e, made))
         /\ got[Peer(e)] \in Seq(Byte(e, made))
         /\ Transit(e) = (IF at[Peer(e)] \in {"length", "body"} THEN got[Peer(e)] ELSE <<>>)
                         \o (wire[e] \o out[e])
         /\ Nothing(e) <=> /\ wire[e] = <<>> /\ out[e] = <<>>
                           /\ at[Peer(e)] \in {"length", "body"} => got[Peer(e)] = <<>>
<1> DEFINE SS == Seq(Byte(e, made))
<1>1. \A x, y, z \in SS : (x \o y) \o z = x \o (y \o z)
  BY Joined
<1>0. \A x, y, z \in SS : (x \o y) \o z = <<>> <=> x = <<>> /\ y = <<>> /\ z = <<>>
  BY Joined
<1>2. wire[e] \in SS /\ out[e] \in SS /\ got[Peer(e)] \in SS
  BY DEF TypeInv, Streams
<1>3. <<>> \in SS
  BY EmptySeq
<1> HIDE DEF SS
<1> DEFINE g == IF at[Peer(e)] \in {"length", "body"} THEN got[Peer(e)] ELSE <<>>
<1>4. g \in SS
  BY <1>2, <1>3
<1>5. Transit(e) = (g \o wire[e]) \o out[e]
  BY DEF Transit
<1> HIDE DEF g
<1> DEFINE w == wire[e]
           o == out[e]
<1>6. w \in SS /\ o \in SS /\ Transit(e) = (g \o w) \o o
  BY <1>2, <1>5
<1> HIDE DEF w, o
<1>7. (g \o w) \o o = g \o (w \o o)
  BY <1>1, <1>4, <1>6, Zenon
<1>8. (g \o w) \o o = <<>> <=> g = <<>> /\ w = <<>> /\ o = <<>>
  BY <1>0, <1>4, <1>6, Zenon
<1>9. Transit(e) = g \o (w \o o)
  BY <1>6, <1>7, Zenon
<1>10. Nothing(e) <=> g = <<>> /\ w = <<>> /\ o = <<>>
  BY <1>6, <1>8, Zenon DEF Nothing
<1>11. QED
  BY <1>2, <1>9, <1>10 DEF g, SS, w, o

TransitOK == \A e \in Ends :
    /\ wire[e] \in Seq(Byte(e, made)) /\ out[e] \in Seq(Byte(e, made))
    /\ got[Peer(e)] \in Seq(Byte(e, made))
    /\ Transit(e) = (IF at[Peer(e)] \in {"length", "body"} THEN got[Peer(e)] ELSE <<>>)
                    \o (wire[e] \o out[e])
    /\ Nothing(e) <=> /\ wire[e] = <<>> /\ out[e] = <<>>
                      /\ at[Peer(e)] \in {"length", "body"} => got[Peer(e)] = <<>>

LEMMA TransitNow == TypeInv => TransitOK
  BY TransitType DEF TransitOK

LEMMA TransitNext == TypeInv' => TransitOK'
  BY TransitNow, PTL

(* The kernel moves bytes from one part of a stream to the next.            *)
LEMMA StreamStays ==
  ASSUME TypeInv, TypeInv', NEW e \in Ends, Write(e) \/ Read(e) \/ Written(e)
  PROVE  \A x \in Ends : Transit(x)' = Transit(x)
<1>0. TransitOK /\ TransitOK'
  BY TransitNow, TransitNext
<1>1. CASE Write(e)
  <2>1. PICK k \in 1 .. Len(out[e]) :
           /\ wire' = [wire EXCEPT ![e] = @ \o SubSeq(out[e], 1, k)]
           /\ out' = [out EXCEPT ![e] = SubSeq(@, k + 1, Len(@))]
    BY <1>1 DEF Write
  <2>2. /\ wire'[e] = wire[e] \o SubSeq(out[e], 1, k) /\ out'[e] = SubSeq(out[e], k + 1, Len(out[e]))
        /\ \A x \in Ends : x # e => wire'[x] = wire[x] /\ out'[x] = out[x]
        /\ UNCHANGED <<at, got>>
    BY <1>1, <2>1 DEF Write, TypeInv
  <2>3. wire[e] \in Seq(Byte(e, made)) /\ out[e] \in Seq(Byte(e, made))
    BY <1>0 DEF TransitOK
  <2>4. wire'[e] \o out'[e] = wire[e] \o out[e]
    <3> DEFINE SS == Strings(Byte(e, made))
               w == wire[e]
               o == out[e]
    <3>1. \A x, y \in SS : \A i \in 1 .. Len(y) :
            (x \o SubSeq(y, 1, i)) \o SubSeq(y, i + 1, Len(y)) = x \o y
      BY BytesStay
    <3>2. w \in SS /\ o \in SS /\ k \in 1 .. Len(o)
      BY <2>3 DEF Strings
    <3>3. wire'[e] = w \o SubSeq(o, 1, k) /\ out'[e] = SubSeq(o, k + 1, Len(o))
      BY <2>2
    <3> HIDE DEF SS, w, o
    <3>4. (w \o SubSeq(o, 1, k)) \o SubSeq(o, k + 1, Len(o)) = w \o o
      BY <3>1, <3>2, Zenon
    <3>5. wire'[e] \o out'[e] = w \o o
      BY <3>3, <3>4, Zenon
    <3>6. QED
      BY <3>5 DEF w, o
  <2>5. \A x \in Ends : wire'[x] \o out'[x] = wire[x] \o out[x]
    BY <2>2, <2>4
  <2>6. QED
    <3> SUFFICES ASSUME NEW x \in Ends PROVE Transit(x)' = Transit(x)
      OBVIOUS
    <3> DEFINE g == IF at[Peer(x)] \in {"length", "body"} THEN got[Peer(x)] ELSE <<>>
    <3>1. Transit(x) = g \o (wire[x] \o out[x])
      BY <1>0 DEF TransitOK
    <3>2. Transit(x)' = g \o (wire'[x] \o out'[x])
      BY <1>0, <2>2 DEF TransitOK
    <3> HIDE DEF g
    <3>3. QED
      BY <3>1, <3>2, <2>5, Zenon
<1>2. CASE Read(e)
  <2> DEFINE p == Peer(e)
  <2>1. PICK k \in 1 .. need[e] - Len(got[e]) :
           /\ k <= Len(wire[p])
           /\ got' = [got EXCEPT ![e] = @ \o SubSeq(wire[p], 1, k)]
           /\ wire' = [wire EXCEPT ![p] = SubSeq(@, k + 1, Len(@))]
    BY <1>2 DEF Read
  <2>2. p \in Ends /\ Peer(p) = e /\ p # e
    BY TwoEnds
  <2>3. wire[p] \in Seq(Byte(p, made)) /\ got[e] \in Seq(Byte(p, made))
    BY <1>0, <2>2 DEF TransitOK
  <2>4. k \in 1 .. Len(wire[p])
    BY <2>1, <2>3, LenProperties DEF TypeInv
  <2>5. /\ got'[e] = got[e] \o SubSeq(wire[p], 1, k) /\ wire'[p] = SubSeq(wire[p], k + 1, Len(wire[p]))
        /\ \A x \in Ends : x # e => got'[x] = got[x]
        /\ \A x \in Ends : x # p => wire'[x] = wire[x]
        /\ UNCHANGED <<at, out>> /\ at[e] \in {"length", "body"}
    BY <1>2, <2>1, <2>2 DEF Read, TypeInv
  <2>6. got'[e] \o wire'[p] = got[e] \o wire[p]
    <3> DEFINE SS == Strings(Byte(p, made))
               w == got[e]
               o == wire[p]
    <3>1. \A x, y \in SS : \A i \in 1 .. Len(y) :
            (x \o SubSeq(y, 1, i)) \o SubSeq(y, i + 1, Len(y)) = x \o y
      BY BytesStay
    <3>2. w \in SS /\ o \in SS /\ k \in 1 .. Len(o)
      BY <2>3, <2>4 DEF Strings
    <3>3. got'[e] = w \o SubSeq(o, 1, k) /\ wire'[p] = SubSeq(o, k + 1, Len(o))
      BY <2>5
    <3> HIDE DEF SS, w, o
    <3>4. (w \o SubSeq(o, 1, k)) \o SubSeq(o, k + 1, Len(o)) = w \o o
      BY <3>1, <3>2, Zenon
    <3>5. got'[e] \o wire'[p] = w \o o
      BY <3>3, <3>4, Zenon
    <3>6. QED
      BY <3>5 DEF w, o
  <2>7. Transit(p)' = Transit(p)
    BY <2>2, <2>5, <2>6 DEF Transit
  <2>8. \A x \in Ends : x # p => Transit(x)' = Transit(x)
    BY <2>2, <2>5, TwoEnds DEF Transit
  <2>9. QED
    BY <2>7, <2>8
<1>3. CASE Written(e)
  <2>1. /\ UNCHANGED <<wire, out>> /\ at[e] = "write" /\ at'[e] = "length" /\ got'[e] = <<>>
        /\ \A x \in Ends : x # e => at'[x] = at[x] /\ got'[x] = got[x]
    BY <1>3 DEF Written, Goto, StartRead, TypeInv
  <2>2. QED
    BY <2>1, TwoEnds DEF Transit
<1>4. QED
  BY <1>1, <1>2, <1>3

(* Steps that keep the streams, and each end at what it waits for.          *)
LEMMA TalkGoesOn ==
  ASSUME Conversation, UNCHANGED <<made, handled, result, skewed>>,
         \A x \in Ends :
            /\ Transit(x)' = Transit(x)
            /\ Awaits(x) = "length" => Awaits(x)' = "length"
            /\ at[x] = "body" => need'[x] = need[x]
            /\ \A p \in {"body", "end", "idle"} : at'[x] = p <=> at[x] = p
            /\ at[x] \in {"write", "length"} => at'[x] \in {"write", "length"}
  PROVE  Conversation'
<1>1. \A x \in Ends : Nothing(x)' <=> Nothing(x)
  BY DEF Nothing
<1>2. \A x \in Ends : \A m : Coming(x, m) => Coming(x, m)'
  BY TwoEnds DEF Coming
<1>3. CASE skewed
  BY <1>3 DEF Conversation
<1>4. CASE CallIsOpen /\ ToServer /\ ToClient /\ OneSpeaks
  <2>1. CallIsOpen'
    BY <1>4, TwoEnds DEF CallIsOpen
  <2>2. ToServer'
    BY <1>1, <1>2, <1>4, TwoEnds DEF ToServer
  <2>3. ToClient'
    BY <1>1, <1>2, <1>4, TwoEnds DEF ToClient
  <2>4. OneSpeaks'
    BY <1>1, <1>4, TwoEnds DEF OneSpeaks
  <2>5. QED
    BY <2>1, <2>2, <2>3, <2>4 DEF Conversation
<1>5. QED
  BY <1>3, <1>4 DEF Conversation

LEMMA BytesKeepConversation ==
  ASSUME TypeInv, TypeInv', Conversation, NEW e \in Ends, Write(e) \/ Read(e) \/ Written(e)
  PROVE  Conversation'
<1>1. \A x \in Ends : Transit(x)' = Transit(x)
  BY StreamStays
<1>2. UNCHANGED <<made, handled, result, skewed>>
  BY DEF Write, Read, Written
<1>3. \A x \in Ends :
            /\ at[x] = "body" => need'[x] = need[x]
            /\ \A p \in {"body", "end", "idle"} : at'[x] = p <=> at[x] = p
            /\ at[x] \in {"write", "length"} => at'[x] \in {"write", "length"}
  BY DEF Write, Read, Written, Goto, StartRead, TypeInv
<1>4. ASSUME NEW x \in Ends, Awaits(x) = "length" PROVE Awaits(x)' = "length"
  <2>1. CASE at[x] = "length"
    BY <2>1, <1>4 DEF Write, Read, Written, Goto, Awaits, TypeInv
  <2>2. CASE at[x] = "write" /\ out[x] = <<>>
    BY <2>2, <1>4 DEF Write, Read, Written, Goto, Awaits, TypeInv
  <2>3. QED
    BY <1>4, <2>1, <2>2 DEF Awaits
<1>5. QED
  BY <1>1, <1>2, <1>3, <1>4, TalkGoesOn

(* The length that is read is that of the message whose frame is coming, and *)
(* the message is what is left.                                             *)
LEMMA LengthRead ==
  ASSUME TypeInv, TypeInv', NEW e \in Ends, GotLength(e),
         NEW m \in Message(Peer(e), made), Coming(Peer(e), m)
  PROVE  Coming(Peer(e), m)'
<1> DEFINE p == Peer(e)
<1>1. TransitOK /\ TransitOK' /\ p \in Ends /\ Peer(p) = e /\ p # e
  BY TransitNow, TransitNext, TwoEnds
<1>2. /\ UNCHANGED <<out, wire, made>> /\ at[e] = "length" /\ at'[e] = "body"
      /\ Len(got[e]) = 2 /\ made \in Nat
  BY FramingAssumption DEF GotLength, Goto, ReadAll, TypeInv
<1>3. PICK len \in Nat \ {0} : ~ TooLong(len) /\ Transit(p) = Frame(m, len)
  BY <1>1, <1>2 DEF Coming
<1> DEFINE hi == (len \div Base) % Base
           lo == len % Base
           D == <<Digit(hi), Digit(lo)>>
           B == Byte(p, made)
<1>4. got[e] = D /\ wire[p] \o out[p] = Contents(m, len)
  <2>1. /\ got[e] \in Strings(B) /\ wire[p] \in Strings(B) /\ out[p] \in Strings(B)
        /\ Transit(p) = got[e] \o (wire[p] \o out[p])
    BY <1>1, <1>2 DEF TransitOK, Strings
  <2>2. /\ D \in Strings(B) /\ Len(D) = 2 /\ Contents(m, len) \in Strings(B)
        /\ Frame(m, len) = D \o Contents(m, len)
    <3>1. Contents(m, len) \in Seq(B) /\ D \in Seq(B) /\ Len(D) = 2
      BY <1>1, <1>2, FrameType
    <3>2. QED
      BY <3>1 DEF Strings, Frame
  <2> DEFINE rest == wire[p] \o out[p]
             body == Contents(m, len)
             first == got[e]
  <2>3. rest \in Strings(B)
    BY <2>1, StringsJoin
  <2>4. /\ first \o rest = D \o body /\ Len(first) = Len(D)
        /\ first \in Strings(B) /\ D \in Strings(B) /\ body \in Strings(B)
    BY <1>2, <1>3, <2>1, <2>2
  <2> HIDE DEF D, B, rest, body, first
  <2>5. first = D /\ rest = body
    BY <2>3, <2>4, SameBeginning
  <2>6. QED
    BY <2>5 DEF rest, body, first
<1>5. need'[e] = len /\ got'[e] = <<>>
  <2>1. PICK n \in Lengths(got[e]) : StartRead(e, n)
    BY DEF GotLength
  <2>2. Values(D[1]) = {hi} /\ Values(D[2]) = {lo}
    BY DEF Values, Digit
  <2>3. n = Base * hi + lo
    BY <1>4, <2>1, <2>2 DEF Lengths
  <2>4. Base * hi + lo = len
    BY <1>3, LengthOfDigits
  <2>5. QED
    BY <2>1, <2>3, <2>4 DEF StartRead, TypeInv
<1>6. Transit(p)' = Contents(m, len)
  <2>1. Transit(p)' = got'[e] \o (wire[p] \o out[p])
    BY <1>1, <1>2 DEF TransitOK
  <2>2. Contents(m, len) \in Seq(B)
    BY <1>1, <1>2, FrameType
  <2>3. <<>> \o Contents(m, len) = Contents(m, len)
    BY <2>2, ConcatEmptySeq
  <2>4. QED
    BY <1>4, <1>5, <2>1, <2>3
<1>7. QED
  BY <1>1, <1>2, <1>3, <1>5, <1>6 DEF Coming

(* The message that e sends in the call in progress. *)
Due(e) == IF e = "client" THEN Request(made) ELSE Rpc!ReplyTo(made)

(* An end that has read anything hears that message and no other.           *)
LEMMA Heard ==
  ASSUME TypeInv, Conversation, ~ skewed, NEW e \in Ends, at[e] \in {"length", "body"}, ReadAll(e)
  PROVE  /\ Coming(Peer(e), Due(Peer(e))) /\ Due(Peer(e)) \in Message(Peer(e), made)
         /\ ~ Nothing(Peer(e))
         /\ e = "server" => handled < made
         /\ e = "client" => handled = made
<1>1. TransitOK /\ Peer(e) \in Ends /\ Peer(Peer(e)) = e
  BY TransitNow, TwoEnds
<1>2. ToServer /\ ToClient
  BY DEF Conversation
<1>3. made \in Nat /\ handled \in 0 .. made
  BY FramingAssumption DEF TypeInv
<1>4. at[e] = "length" => ~ Nothing(Peer(e))
  <2>1. SUFFICES ASSUME at[e] = "length" PROVE got[e] # <<>>
    BY <1>1 DEF TransitOK
  <2>2. Len(got[e]) = 2
    BY <2>1 DEF ReadAll, TypeInv
  <2>3. QED
    BY <2>2, EmptySeq
<1>5. /\ Coming(Peer(e), Due(Peer(e)))
      /\ e = "server" => handled < made
      /\ e = "client" => handled = made
  BY <1>2, <1>4, TwoEnds DEF ToServer, ToClient, Due
<1>6. Due(Peer(e)) \in Message(Peer(e), made)
  BY <1>3, <1>5, TwoEnds DEF Due, Message
<1>7. ~ Nothing(Peer(e))
  <2>1. PICK len \in Nat \ {0} : \/ Transit(Peer(e)) = Frame(Due(Peer(e)), len)
                                 \/ Transit(Peer(e)) = Contents(Due(Peer(e)), len)
    BY <1>5 DEF Coming
  <2>2. QED
    BY <1>1, <1>3, <1>6, <2>1, FrameShape DEF Nothing
<1>8. QED
  BY <1>5, <1>6, <1>7

(* What is unpacked is the message that was coming, and nothing follows it.  *)
LEMMA BodyRead ==
  ASSUME TypeInv, NEW e \in Ends, at[e] = "body", ReadAll(e),
         NEW m \in Message(Peer(e), made), Coming(Peer(e), m)
  PROVE  Unpacked(got[e]) = {m} /\ wire[Peer(e)] = <<>> /\ out[Peer(e)] = <<>>
<1> DEFINE p == Peer(e)
           B == Byte(p, made)
<1>1. TransitOK /\ p \in Ends /\ Peer(p) = e /\ made \in Nat
  BY TransitNow, TwoEnds, FramingAssumption DEF TypeInv
<1>2. PICK len \in Nat \ {0} : need[e] = len /\ Transit(p) = Contents(m, len)
  BY <1>1 DEF Coming, Awaits
<1> DEFINE body == Contents(m, len)
           first == got[e]
           w == wire[p]
           o == out[p]
           rest == w \o o
           none == <<>>
<1>3. body \in Seq(B) /\ Len(body) = len /\ Unpacked(body) = {m}
  BY <1>1, FrameType, FrameShape
<1>4. /\ first \in Strings(B) /\ w \in Strings(B) /\ o \in Strings(B)
      /\ Transit(p) = first \o (w \o o)
  BY <1>1 DEF TransitOK, Strings
<1>5. body \in Strings(B) /\ none \in Strings(B) /\ rest \in Strings(B)
  BY <1>3, <1>4, EmptySeq, StringsJoin DEF Strings
<1>6. body \o none = body
  BY <1>3, ConcatEmptySeq
<1>7. first \o rest = body \o none /\ Len(first) = Len(body)
  BY <1>2, <1>3, <1>4, <1>6 DEF ReadAll
<1>8. first = body /\ rest = none
  <2> HIDE DEF first, rest, body, none, B
  <2> QED BY <1>4, <1>5, <1>7, SameBeginning
<1>9. w = <<>> /\ o = <<>>
  <2>1. w \in Seq(B) /\ o \in Seq(B) /\ w \o o = <<>>
    BY <1>4, <1>8 DEF Strings
  <2> HIDE DEF w, o, B
  <2>2. Len(w \o o) = Len(w) + Len(o) /\ Len(w) \in Nat /\ Len(o) \in Nat
    BY <2>1, ConcatProperties, LenProperties
  <2>3. QED
    BY <2>1, <2>2, EmptySeq
<1>10. QED
  BY <1>3, <1>8, <1>9

LEMMA LengthKeepsConversation ==
  ASSUME TypeInv, TypeInv', Conversation, NEW e \in Ends, GotLength(e)
  PROVE  Conversation'
<1> DEFINE p == Peer(e)
<1>1. /\ UNCHANGED <<open, out, wire, made, handled, result, skewed>>
      /\ at[e] = "length" /\ at'[e] = "body" /\ ReadAll(e)
      /\ p \in Ends /\ Peer(p) = e /\ p # e /\ at'[p] = at[p] /\ need'[p] = need[p] /\ got'[p] = got[p]
  BY TwoEnds DEF GotLength, Goto, StartRead, TypeInv
<1>2. CASE skewed
  BY <1>1, <1>2 DEF Conversation
<1>3. CASE ~ skewed
  <2>1. /\ Coming(p, Due(p)) /\ Due(p) \in Message(p, made) /\ ~ Nothing(p)
        /\ e = "server" => handled < made
        /\ e = "client" => handled = made
    BY <1>1, <1>3, Heard
  <2>2. Coming(p, Due(p))' /\ Due(p)' = Due(p)
    BY <1>1, <2>1, LengthRead DEF Due
  <2>3. Transit(e)' = Transit(e) /\ Awaits(p)' = Awaits(p)
    BY <1>1 DEF Transit, Awaits
  <2>4. (Nothing(e)' <=> Nothing(e)) /\ \A m : Coming(e, m) => Coming(e, m)'
    BY <1>1, <2>3 DEF Nothing, Coming
  <2>5. CallIsOpen /\ ToServer /\ ToClient /\ OneSpeaks
    BY <1>3 DEF Conversation
  <2>6. CallIsOpen'
    BY <1>1, <2>5, TwoEnds DEF CallIsOpen
  <2>7. ToServer'
    BY <1>1, <2>1, <2>2, <2>4, <2>5, TwoEnds DEF ToServer, Due
  <2>8. ToClient'
    BY <1>1, <2>1, <2>2, <2>4, <2>5, TwoEnds DEF ToClient, Due
  <2>9. OneSpeaks'
    <3>0. SUFFICES ASSUME at["client"] # "end", at["server"] # "end" PROVE OneSpeaks'
      BY <1>1, TwoEnds DEF OneSpeaks
    <3>1. ~ Nothing(p)'
      <4>1. PICK len \in Nat \ {0} : Transit(p)' = Frame(Due(p), len) \/ Transit(p)' = Contents(Due(p), len)
        BY <2>2 DEF Coming
      <4>2. made \in Nat
        BY FramingAssumption DEF TypeInv
      <4>3. QED
        BY <1>1, <2>1, <4>1, <4>2, FrameShape DEF Nothing
    <3>2. QED
      BY <1>1, <2>1, <2>3, <2>4, <2>5, <3>0, <3>1, TwoEnds DEF OneSpeaks
  <2>10. QED
    BY <2>6, <2>7, <2>8, <2>9 DEF Conversation
<1>4. QED
  BY <1>2, <1>3

(* A frame that is sent when nothing is on the way is all that is.          *)
LEMMA FrameSent ==
  ASSUME TypeInv, TypeInv', NEW e \in Ends, NEW m \in Message(e, made'), NEW len \in Nat \ {0},
         Send(e, m, len), UNCHANGED <<wire, got>>, wire[e] = <<>>,
         at'[Peer(e)] \in {"length", "body"} => got[Peer(e)] = <<>>
  PROVE  Transit(e)' = Frame(m, len) /\ ~ Nothing(e)'
<1>1. out'[e] = Frame(m, len) /\ wire'[e] = <<>> /\ made' \in Nat
  BY FramingAssumption DEF Send, TypeInv
<1>2. (at'[Peer(e)] \in {"length", "body"} => got'[Peer(e)] = <<>>) /\ TransitOK'
  BY TransitNext
<1>3. Transit(e)' = <<>> \o (wire'[e] \o out'[e])
  BY <1>2 DEF TransitOK
<1>4. Frame(m, len) \in Seq(Byte(e, made')) /\ Frame(m, len) # <<>>
  BY <1>1, FrameType, FrameShape
<1>5. <<>> \o Frame(m, len) = Frame(m, len)
  BY <1>4, ConcatEmptySeq
<1>6. QED
  BY <1>1, <1>3, <1>4, <1>5 DEF Nothing

LEMMA CallKeepsConversation ==
  ASSUME TypeInv, TypeInv', Conversation, Call
  PROVE  Conversation'
<1>1. /\ UNCHANGED <<open, wire, got, need, handled>> /\ made' = made + 1 /\ result' = Rpc!Pending
      /\ at["client"] = "idle" /\ at'["client"] = "write" /\ at'["server"] = at["server"]
      /\ made \in Nat /\ handled \in 0 .. made /\ handled' < made'
  BY TwoEnds, FramingAssumption DEF Call, Goto, Rpc!Call, TypeInv
<1>2. PICK len \in Nat \ {0} : Send("client", Request(made'), len)
  BY FramingAssumption DEF Call
<1>3. SUFFICES ASSUME ~ skewed' PROVE CallIsOpen' /\ ToServer' /\ ToClient' /\ OneSpeaks'
  BY DEF Conversation
<1>4. ~ skewed /\ ~ TooLong(len) /\ out'["server"] = out["server"]
  BY <1>2, <1>3, TwoEnds DEF Send, TypeInv
<1>5. ToServer /\ ToClient /\ OneSpeaks /\ TransitOK /\ TransitOK'
  BY <1>4, TransitNow, TransitNext DEF Conversation
<1>6. Nothing("server")
  BY <1>1, <1>5 DEF ToClient
<1>7. Nothing("server")'
  BY <1>1, <1>4, <1>5, <1>6, TwoEnds DEF TransitOK
<1>8. ASSUME at["server"] # "end" PROVE Coming("client", Request(made))' /\ ~ Nothing("client")'
  <2>1. Nothing("client") /\ Awaits("server") = "length"
    BY <1>1, <1>5, <1>6, <1>8 DEF OneSpeaks
  <2>2. wire["client"] = <<>> /\ (at["server"] \in {"length", "body"} => got["server"] = <<>>)
    BY <1>5, <2>1, TwoEnds DEF TransitOK
  <2>3. Request(made') \in Message("client", made')
    BY <1>1 DEF Message
  <2>4. Transit("client")' = Frame(Request(made'), len) /\ ~ Nothing("client")'
    BY <1>1, <1>2, <2>2, <2>3, TwoEnds, FrameSent
  <2>5. Awaits("server")' = "length"
    BY <1>1, <1>4, <2>1 DEF Awaits
  <2>6. QED
    BY <1>4, <2>4, <2>5, TwoEnds DEF Coming, Request
<1>9. QED
  BY <1>1, <1>7, <1>8, TwoEnds DEF CallIsOpen, ToServer, ToClient, OneSpeaks

(* thread_client unpacks the request of the call in progress. *)
LEMMA ServedIsRequest ==
  ASSUME TypeInv, Conversation, ~ skewed, at["server"] = "body", ReadAll("server")
  PROVE  /\ Unpacked(got["server"]) = {Request(made)} /\ handled < made
         /\ wire["client"] = <<>> /\ out["client"] = <<>> /\ ~ Nothing("client")
<1>1. /\ Coming("client", Request(made)) /\ Request(made) \in Message("client", made)
      /\ ~ Nothing("client") /\ handled < made
  BY Heard, TwoEnds DEF Due
<1>2. QED
  BY <1>1, BodyRead, TwoEnds

LEMMA ServeKeepsConversation ==
  ASSUME TypeInv, TypeInv', Conversation, Serve
  PROVE  Conversation'
<1>1. /\ UNCHANGED <<open, wire, got, need, made, result>>
      /\ at["server"] = "body" /\ at'["server"] = "write" /\ at'["client"] = at["client"]
      /\ made \in Nat /\ ReadAll("server")
  BY TwoEnds, FramingAssumption DEF Serve, Goto, TypeInv
<1>2. PICK m \in Unpacked(got["server"]) \ {Rpc!Error}, len \in Nat \ {0} :
         /\ handled' = IF m = Garbage THEN handled ELSE m[2]
         /\ Send("server", IF m = Garbage THEN Garbage ELSE Rpc!ReplyTo(m[2]), len)
  BY FramingAssumption DEF Serve
<1>3. SUFFICES ASSUME ~ skewed' PROVE CallIsOpen' /\ ToServer' /\ ToClient' /\ OneSpeaks'
  BY DEF Conversation
<1>4. ~ skewed /\ ~ TooLong(len) /\ out'["client"] = out["client"]
  BY <1>2, <1>3, TwoEnds DEF Send, TypeInv
<1>5. CallIsOpen /\ OneSpeaks /\ TransitOK /\ TransitOK'
  BY <1>4, TransitNow, TransitNext DEF Conversation
<1>6. /\ m = Request(made) /\ wire["client"] = <<>> /\ out["client"] = <<>> /\ ~ Nothing("client")
  BY <1>1, <1>2, <1>4, ServedIsRequest
<1>7. handled' = made /\ Send("server", Rpc!ReplyTo(made), len)
  BY <1>2, <1>6 DEF Request, Garbage
<1>8. Nothing("client")'
  BY <1>1, <1>4, <1>5, <1>6, TwoEnds DEF TransitOK
<1>9. ASSUME at["client"] # "end"
      PROVE  /\ Coming("server", Rpc!ReplyTo(made))' /\ ~ Nothing("server")'
             /\ at["client"] \in {"write", "length"}
  <2>1. Nothing("server") /\ at["client"] \in {"write", "length"}
    BY <1>1, <1>5, <1>6, <1>9 DEF OneSpeaks
  <2>2. wire["server"] = <<>> /\ (at["client"] \in {"length", "body"} => got["client"] = <<>>)
    BY <1>5, <2>1, TwoEnds DEF TransitOK
  <2>3. Rpc!ReplyTo(made) \in Message("server", made')
    BY <1>1 DEF Message
  <2>4. Transit("server")' = Frame(Rpc!ReplyTo(made), len) /\ ~ Nothing("server")'
    BY <1>1, <1>7, <2>2, <2>3, TwoEnds, FrameSent
  <2>5. Awaits("client")' = "length"
    BY <1>1, <1>4, <1>6, <2>1 DEF Awaits
  <2>6. QED
    BY <1>1, <1>4, <2>1, <2>4, <2>5, TwoEnds DEF Coming
<1>10. QED
  BY <1>1, <1>5, <1>7, <1>8, <1>9, TwoEnds DEF CallIsOpen, ToServer, ToClient, OneSpeaks

(* network_send_receive unpacks the reply to its request. *)
LEMMA ReturnedIsReply ==
  ASSUME TypeInv, Conversation, ~ skewed, at["client"] = "body", ReadAll("client")
  PROVE  /\ Unpacked(got["client"]) = {Rpc!ReplyTo(made)} /\ handled = made
         /\ wire["server"] = <<>> /\ out["server"] = <<>> /\ ~ Nothing("server")
<1>1. /\ Coming("server", Rpc!ReplyTo(made)) /\ Rpc!ReplyTo(made) \in Message("server", made)
      /\ ~ Nothing("server") /\ handled = made
  BY Heard, TwoEnds DEF Due
<1>2. QED
  BY <1>1, BodyRead, TwoEnds

LEMMA ReturnKeepsConversation ==
  ASSUME TypeInv, TypeInv', Conversation, Return
  PROVE  Conversation'
<1>1. /\ UNCHANGED <<open, out, wire, got, need, made, handled, skewed>>
      /\ at["client"] = "body" /\ at'["client"] = "idle" /\ at'["server"] = at["server"]
      /\ ReadAll("client")
  BY TwoEnds DEF Return, Goto, TypeInv, streamVars
<1>2. SUFFICES ASSUME ~ skewed PROVE CallIsOpen' /\ ToServer' /\ ToClient' /\ OneSpeaks'
  BY <1>1 DEF Conversation
<1>3. ToServer /\ OneSpeaks /\ TransitOK /\ TransitOK'
  BY <1>2, TransitNow, TransitNext DEF Conversation
<1>4. /\ Unpacked(got["client"]) = {Rpc!ReplyTo(made)} /\ ~ Nothing("server")
      /\ wire["server"] = <<>> /\ out["server"] = <<>>
  BY <1>1, <1>2, ReturnedIsReply
<1>5. result' # Rpc!Pending
  BY <1>4 DEF Return, Rpc!ReplyTo, Rpc!Pending
<1>6. Nothing("server")'
  BY <1>1, <1>3, <1>4, TwoEnds DEF TransitOK
<1>7. /\ Transit("client")' = Transit("client") /\ Awaits("server")' = Awaits("server")
      /\ Nothing("client")' <=> Nothing("client")
      /\ Coming("client", Request(made)) => Coming("client", Request(made))'
  BY <1>1, TwoEnds DEF Transit, Awaits, Nothing, Coming, Request
<1>8. at["server"] # "end" => Nothing("client") /\ Awaits("server") = "length"
  BY <1>1, <1>3, <1>4 DEF OneSpeaks, Awaits
<1>9. QED
  BY <1>1, <1>3, <1>5, <1>6, <1>7, <1>8 DEF CallIsOpen, ToServer, ToClient, OneSpeaks

(* An end goes: nothing is said of what comes to it.                        *)
LEMMA EndKeepsConversation ==
  ASSUME TypeInv, Conversation, NEW e \in Ends,
         at' = [at EXCEPT ![e] = "end"], UNCHANGED <<streamVars, made, skewed>>,
         handled' = handled \/ (e = "server" /\ (skewed \/ (handled' = made /\ handled < made))),
         e = "server" => result' = result,
         e = "client" => result' # Rpc!Pending
  PROVE  Conversation'
<1> DEFINE p == Peer(e)
<1>1. /\ p \in Ends /\ p # e /\ Peer(p) = e /\ at'[e] = "end" /\ at'[p] = at[p]
      /\ UNCHANGED <<out, wire, got, need>>
  BY TwoEnds DEF TypeInv, streamVars
<1>2. SUFFICES ASSUME ~ skewed PROVE CallIsOpen' /\ ToServer' /\ ToClient' /\ OneSpeaks'
  BY DEF Conversation
<1>3. CallIsOpen /\ ToServer /\ ToClient
  BY <1>2 DEF Conversation
<1>4. Transit(e)' = Transit(e) /\ Awaits(p)' = Awaits(p)
  BY <1>1 DEF Transit, Awaits
<1>5. (Nothing(e)' <=> Nothing(e)) /\ \A m : Coming(e, m) => Coming(e, m)'
  BY <1>1, <1>4 DEF Nothing, Coming
<1>6. CallIsOpen' /\ OneSpeaks'
  BY <1>1, <1>3, TwoEnds DEF CallIsOpen, OneSpeaks
<1>7. ToServer'
  <2>1. CASE e = "server"
    BY <1>1, <2>1 DEF ToServer
  <2>2. CASE e = "client"
    BY <1>1, <1>3, <1>5, <2>2, TwoEnds DEF ToServer, Request
  <2>3. QED
    BY <2>1, <2>2, TwoEnds
<1>8. ToClient'
  <2>1. CASE e = "client"
    BY <1>1, <2>1 DEF ToClient
  <2>2. CASE e = "server"
    <3>1. made \in Nat /\ handled \in 0 .. made
      BY FramingAssumption DEF TypeInv
    <3>2. QED
      BY <1>1, <1>2, <1>3, <1>5, <2>2, <3>1, TwoEnds DEF ToClient, Rpc!ReplyTo
  <2>3. QED
    BY <2>1, <2>2, TwoEnds
<1>9. QED
  BY <1>6, <1>7, <1>8

LEMMA RefuseKeepsConversation ==
  ASSUME TypeInv, Conversation, Refuse
  PROVE  Conversation' /\ (skewed \/ handled' = handled \/ (handled' = made /\ handled < made))
<1>1. /\ at' = [at EXCEPT !["server"] = "end"] /\ UNCHANGED <<streamVars, made, skewed, result>>
      /\ at["server"] \in {"length", "body"} /\ ReadAll("server")
  BY DEF Refuse
<1>2. handled' = handled \/ skewed \/ (handled' = made /\ handled < made)
  <2>1. SUFFICES ASSUME ~ skewed, handled' # handled PROVE handled' = made /\ handled < made
    OBVIOUS
  <2>2. at["server"] = "body"
    BY <2>1 DEF Refuse
  <2>3. PICK m \in Unpacked(got["server"]) \ {Rpc!Error, Garbage} : handled' = m[2]
    BY <2>1 DEF Refuse
  <2>4. Unpacked(got["server"]) = {Request(made)} /\ handled < made
    BY <1>1, <2>1, <2>2, ServedIsRequest
  <2>5. m = Request(made)
    BY <2>3, <2>4
  <2>6. QED
    BY <2>3, <2>4, <2>5 DEF Request
<1>3. QED
  BY <1>1, <1>2, TwoEnds, EndKeepsConversation

LEMMA GiveUpKeepsConversation ==
  ASSUME TypeInv, Conversation, NEW e \in Ends, Fail(e) \/ Die(e)
  PROVE  Conversation'
<1>1. /\ at' = [at EXCEPT ![e] = "end"] /\ UNCHANGED <<streamVars, made, handled, skewed>>
      /\ result' = IF e = "client" /\ result = Rpc!Pending THEN Rpc!Error ELSE result
  BY DEF Fail, Die, GiveUp
<1>2. Rpc!Error # Rpc!Pending
  BY DEF Rpc!Error, Rpc!Pending
<1>3. QED
  BY <1>1, <1>2, TwoEnds, EndKeepsConversation

LEMMA InitConversation == Init => Conversation
<1> SUFFICES ASSUME Init PROVE Conversation
  OBVIOUS
<1>1. TransitOK
  BY InitTypeInv, TransitNow
<1>2. /\ at["client"] = "idle" /\ at["server"] = "length" /\ result = Rpc!Error
      /\ \A e \in Ends : out[e] = <<>> /\ wire[e] = <<>> /\ got[e] = <<>>
  BY TwoEnds DEF Init, Rpc!Init
<1>3. Nothing("client") /\ Nothing("server")
  BY <1>1, <1>2, TwoEnds DEF TransitOK
<1>4. Awaits("server") = "length" /\ Rpc!Error # Rpc!Pending
  BY <1>2 DEF Awaits, Rpc!Error, Rpc!Pending
<1>5. QED
  BY <1>2, <1>3, <1>4 DEF Conversation, CallIsOpen, ToServer, ToClient, OneSpeaks

LEMMA NextKeepsConversation ==
  ASSUME TypeInv, TypeInv', Conversation, [Next]_vars
  PROVE  Conversation'
<1>1. ASSUME NEW e \in Ends, Step(e) \/ Die(e) PROVE Conversation'
  BY <1>1, BytesKeepConversation, LengthKeepsConversation, GiveUpKeepsConversation DEF Step
<1>2. CASE ReadBufFails
  BY <1>2 DEF ReadBufFails, Conversation
<1>3. CASE UNCHANGED vars
  BY <1>3 DEF vars, streamVars, Conversation, CallIsOpen, ToServer, ToClient, OneSpeaks, Nothing,
     Coming, Transit, Awaits
<1>4. QED
  BY <1>1, <1>2, <1>3, CallKeepsConversation, ServeKeepsConversation, ReturnKeepsConversation,
     RefuseKeepsConversation DEF Next

(* Until the stream is out of step, what is on its way is the request of the *)
(* call in progress or the reply to it, and never both.                     *)
THEOREM FramingConversation == Spec => [](TypeInv /\ Conversation)
<1>1. Init => TypeInv /\ Conversation
  BY InitTypeInv, InitConversation
<1>2. TypeInv /\ Conversation /\ [Next]_vars => (TypeInv /\ Conversation)'
  BY NextKeepsTypes, NextKeepsConversation
<1>3. QED
  BY <1>1, <1>2, PTL DEF Spec
---------------------------------------------------------------------------
LEMMA ConversationInFrames == TypeInv /\ Conversation => WholeFrames
<1> SUFFICES ASSUME TypeInv, Conversation, ~ skewed, open = Ends, NEW e \in Ends
             PROVE  LET bytes == Transit(e)
                        awaits == Awaits(Peer(e))
                    IN  CASE awaits = "length" -> bytes # <<>> => Len(bytes) > 2 /\ bytes = Frame(bytes[3].msg, bytes[3].len)
                          [] awaits = "body"   -> bytes # <<>> /\ bytes = Contents(bytes[1].msg, need[Peer(e)])
                          [] OTHER             -> bytes = <<>>
  BY DEF WholeFrames
<1> DEFINE bytes == Transit(e)
           awaits == Awaits(Peer(e))
<1>1. at["client"] # "end" /\ at["server"] # "end" /\ made \in Nat /\ handled \in 0 .. made
  BY TwoEnds, FramingAssumption DEF TypeInv
<1>2. \/ bytes = <<>> /\ at[Peer(e)] # "body"
      \/ Coming(e, Due(e)) /\ Due(e) \in Message(e, made)
  <2>1. ToServer /\ ToClient
    BY DEF Conversation
  <2>2. CASE e = "client"
    BY <1>1, <2>1, <2>2, TwoEnds DEF ToServer, Nothing, Due, Message
  <2>3. CASE e = "server"
    BY <1>1, <2>1, <2>3, TwoEnds DEF ToClient, Nothing, Due, Message
  <2>4. QED
    BY <2>2, <2>3, TwoEnds
<1>3. awaits = "body" <=> at[Peer(e)] = "body"
  BY DEF Awaits
<1>4. CASE bytes = <<>> /\ at[Peer(e)] # "body"
  BY <1>3, <1>4
<1>5. CASE Coming(e, Due(e)) /\ Due(e) \in Message(e, made)
  <2>1. PICK len \in Nat \ {0} :
           \/ awaits = "length" /\ bytes = Frame(Due(e), len)
           \/ at[Peer(e)] = "body" /\ need[Peer(e)] = len /\ bytes = Contents(Due(e), len)
    BY <1>5 DEF Coming
  <2>2. /\ Frame(Due(e), len)[3].msg = Due(e) /\ Frame(Due(e), len)[3].len = len
        /\ Contents(Due(e), len)[1].msg = Due(e) /\ Contents(Due(e), len) # <<>>
        /\ Len(Frame(Due(e), len)) = len + 2
    BY <1>1, <1>5, FrameType, FrameShape
  <2>3. CASE awaits = "length" /\ bytes = Frame(Due(e), len)
    <3>1. Len(bytes) > 2 /\ bytes = Frame(bytes[3].msg, bytes[3].len)
      BY <2>2, <2>3
    <3> HIDE DEF bytes, awaits
    <3>2. QED
      BY <2>3, <3>1 DEF bytes, awaits
  <2>4. CASE at[Peer(e)] = "body" /\ need[Peer(e)] = len /\ bytes = Contents(Due(e), len)
    <3>1. bytes # <<>> /\ bytes = Contents(bytes[1].msg, need[Peer(e)])
      BY <2>2, <2>4
    <3>2. QED
      BY <1>3, <2>4, <3>1
  <2>5. QED
    BY <2>1, <2>3, <2>4
<1>6. QED
  BY <1>2, <1>4, <1>5

(* However the kernel cuts the streams, an end that reads finds a whole      *)
(* frame, the rest of its message or nothing, as long as no length was cut   *)
(* short and no reply found no memory.                                      *)
THEOREM FramingWholeFrames == Spec => []WholeFrames
  BY FramingConversation, ConversationInFrames, PTL

(* A step of the ends is a step of Rpc, or none. *)
LEMMA StepIsRpc ==
  ASSUME TypeInv, Conversation, [Next]_vars
  PROVE  [skewed' \/ Rpc!Next]_(Rpc!vars)
<1>1. SUFFICES ASSUME ~ skewed', ~ UNCHANGED <<made, handled, result>> PROVE Rpc!Next
  BY DEF Rpc!vars
<1>2. ASSUME NEW e \in Ends, Step(e) \/ Die(e) PROVE Rpc!Next
  <2>1. Fail(e) \/ Die(e)
    BY <1>1, <1>2 DEF Step, Write, Written, Read, GotLength
  <2>2. UNCHANGED <<made, handled>> /\ result = Rpc!Pending /\ result' = Rpc!Error
    BY <1>1, <2>1 DEF Fail, Die, GiveUp
  <2>3. QED
    BY <2>2 DEF Rpc!Next, Rpc!Fail
<1>3. CASE Call
  BY <1>3 DEF Call, Rpc!Next
<1>4. CASE Return
  <2>1. /\ ~ skewed /\ at["client"] = "body" /\ ReadAll("client") /\ UNCHANGED <<made, handled>>
    BY <1>1, <1>4 DEF Return, Goto
  <2>2. Unpacked(got["client"]) = {Rpc!ReplyTo(made)} /\ handled = made
    BY <2>1, ReturnedIsReply
  <2>3. result' = Rpc!ReplyTo(made)
    BY <1>4, <2>2 DEF Return
  <2>4. result = Rpc!Pending
    BY <2>1 DEF Conversation, CallIsOpen
  <2>5. QED
    BY <2>1, <2>2, <2>3, <2>4 DEF Rpc!Next, Rpc!Return
<1>5. CASE Serve
  <2>1. /\ ~ skewed /\ at["server"] = "body" /\ ReadAll("server") /\ UNCHANGED <<made, result>>
    BY <1>1, <1>5 DEF Serve, Goto, Send, TypeInv
  <2>2. Unpacked(got["server"]) = {Request(made)} /\ handled < made
    BY <2>1, ServedIsRequest
  <2>3. handled' = made
    BY <1>5, <2>2 DEF Serve, Request, Garbage
  <2>4. QED
    BY <2>1, <2>2, <2>3 DEF Rpc!Next, Rpc!Handle
<1>6. CASE Refuse
  <2>1. UNCHANGED <<made, result, skewed>>
    BY <1>6 DEF Refuse
  <2>2. handled' = made /\ handled < made
    BY <1>1, <1>6, <2>1, RefuseKeepsConversation
  <2>3. QED
    BY <2>1, <2>2 DEF Rpc!Next, Rpc!Handle
<1>7. CASE ReadBufFails
  BY <1>1, <1>7 DEF ReadBufFails
<1>8. CASE UNCHANGED vars
  BY <1>1, <1>8 DEF vars
<1>9. QED
  BY <1>2, <1>3, <1>4, <1>5, <1>6, <1>7, <1>8 DEF Next

(* The connection behaves as Rpc promises: every step of the framing that    *)
(* does not put the streams out of step, a lost connection and an end that   *)
(* dies included, makes a call, handles the request of the call in progress  *)
(* for the first time, returns the reply to it or returns an error, or is    *)
(* none of Rpc's business.                                                   *)
THEOREM FramingImplementsRpc == Spec => ImplementsRpc
<1>1. Init => Rpc!Init
  BY DEF Init
<1>2. TypeInv /\ Conversation /\ [Next]_vars => [skewed' \/ Rpc!Next]_(Rpc!vars)
  BY StepIsRpc
<1>3. QED
  BY <1>1, <1>2, FramingConversation, PTL DEF Spec, ImplementsRpc
===========================================================================
