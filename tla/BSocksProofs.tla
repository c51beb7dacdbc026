---------------------------- MODULE BSocksProofs ----------------------------
(* BSocksClient frees each resource once, whatever the state it is freed in,  *)
(* and keeps the promise of SocksConnection: no byte of the far end is lost   *)
(* between the handshake and its user.                                        *)
EXTENDS BSocksClient, SequenceTheorems, TLAPS
-----------------------------------------------------------------------------
(* The inductive invariant.                                                   *)

\* What the state says is allocated: what BSocksClient_Free() goes by.
Held ==
  IF freed THEN {}
  ELSE {"connector"} \cup (IF state = "CONNECTING" THEN {} ELSE IF state = "UP" THEN {"con", "up"}
                           ELSE {"con", "control", "buffer"})

Owned == live = [r \in Resources |-> IF r \in Held THEN 1 ELSE 0]

\* The message a state sends, or whose reply it waits for.
Message ==
  [CONNECTING |-> None, SENDING_HELLO |-> "hello", SENT_HELLO |-> "hello",
   SENDING_PASSWORD |-> "password", SENT_PASSWORD |-> "password", SENDING_REQUEST |-> "request"]

\* The states without a receive, before the request is out: nothing has arrived.
Talks ==
  /\ state \in {"CONNECTING", "SENDING_HELLO", "SENDING_PASSWORD", "SENDING_REQUEST"}
  /\ sending = Message[state] /\ recv_total = 0
  /\ server = "idle" /\ stream = <<>> /\ buffer = <<>> /\ sent = 0 /\ delivered = <<>>

\* A reply of two bytes is waited for, and no more than that will come.
Listens ==
  /\ state \in {"SENT_HELLO", "SENT_PASSWORD"}
  /\ sending = None /\ recv_total = 2 /\ sent = 0 /\ delivered = <<>> /\ Len(buffer) < 2
  /\ \/ server = Message[state] /\ stream = <<>> /\ buffer = <<>>
     \/ server = "idle" /\ Len(buffer) + Len(stream) = 2

\* The bytes x that were read, followed by those that were not, are y and then
\* what the far end has sent.
Carries(x, y) == x \o stream = y \o SubSeq(Data, 1, sent)

Byte ==
  {"v5", "v1", "bad", "none", "password", "refused", "ok", "no", "ip4", "ip6", "name", "a"}
    \cup {Data[i] : i \in DOMAIN Data}

\* The header h and the address a of the reply to a request, and then payload.
AwaitsHeader ==
  /\ state = "SENT_REQUEST"
  /\ sending = None /\ recv_total = 3 /\ delivered = <<>> /\ Len(buffer) < 3
  /\ \/ server = "request" /\ stream = <<>> /\ buffer = <<>> /\ sent = 0
     \/ /\ server \in {"idle", "payload"}
        /\ \E h, a \in Seq(Byte) :
             /\ Carries(buffer, h \o a) /\ Len(h) = 3
             /\ h[1] = "v5" /\ h[2] = "ok" /\ h[3] \in DOMAIN AddrLen
                  => Len(a) = AddrLen[h[3]] /\ server = "payload"

AwaitsAddress ==
  /\ state = "RECEIVED_REPLY_HEADER"
  /\ sending = None /\ recv_total \in {1, 2} /\ delivered = <<>> /\ Len(buffer) < recv_total
  /\ server = "payload" /\ \E a \in Seq(Byte) : Len(a) = recv_total /\ Carries(buffer, a)

IsUp ==
  /\ state = "UP" /\ sending = None /\ recv_total = 0 /\ server = "payload"
  /\ Carries(delivered, <<>>)

Typed ==
  /\ buffer \in Seq(Byte) /\ stream \in Seq(Byte) /\ delivered \in Seq(Byte)
  /\ sent \in 0 .. Len(Data)

Handshake == Typed /\ (Talks \/ Listens \/ AwaitsHeader \/ AwaitsAddress \/ IsUp)

IInv == freed \in BOOLEAN /\ state \in States /\ Owned /\ (~freed => Handshake)
-----------------------------------------------------------------------------
(* Sequences of bytes.                                                        *)

\* A prefix of a sequence and the rest make up the sequence.
LEMMA Cut ==
  ASSUME NEW S, NEW q \in Seq(S), NEW n \in 1 .. Len(q)
  PROVE  LET x == SubSeq(q, 1, n)
             y == SubSeq(q, n + 1, Len(q))
         IN x \in Seq(S) /\ y \in Seq(S) /\ Len(x) = n /\ Len(y) = Len(q) - n /\ x \o y = q
<1>1. Len(q) \in Nat /\ n \in Nat /\ n + 1 \in Int /\ 1 \in Int /\ Len(q) \in Int
  BY LenProperties
<1>2. \A i \in 1 .. Len(q) : q[i] \in S
  BY ElementOfSeq
<1>3. SubSeq(q, 1, n) \in Seq(S) /\ Len(SubSeq(q, 1, n)) = n
  BY <1>1, <1>2, SubSeqProperties
<1>4. SubSeq(q, n + 1, Len(q)) \in Seq(S) /\ Len(SubSeq(q, n + 1, Len(q))) = Len(q) - n
  BY <1>1, <1>2, SubSeqProperties
<1>5. SubSeq(q, 1, n) \o SubSeq(q, n + 1, Len(q)) = SubSeq(q, 1, Len(q))
  BY <1>1, ConcatAdjacentSubSeq
<1> QED
  BY <1>3, <1>4, <1>5, SubSeqFull

\* Equal words with prefixes of one length.
LEMMA SamePrefix ==
  ASSUME NEW S, NEW x \in Seq(S), NEW y \in Seq(S), NEW v \in Seq(S), NEW w \in Seq(S),
         x \o v = y \o w, Len(x) = Len(y)
  PROVE  x = y /\ v = w
<1>1. Len(x) \in Nat /\ Len(v) \in Nat /\ Len(w) \in Nat
  BY LenProperties
<1>2. \A i \in 1 .. Len(x) : (x \o v)[i] = x[i] /\ (y \o w)[i] = y[i]
  BY <1>1, ConcatProperties
<1>3. x = y
  BY <1>2, SeqEqual
<1> QED
  BY <1>3, ConcatSimplifications, Zenon

Regroups(x, y, z) == x \o (y \o z) = (x \o y) \o z

\* Concatenation is associative.
LEMMA Assoc == \A S : \A x, y, z \in Seq(S) : Regroups(x, y, z)
BY ConcatAssociative DEF Regroups

\* Reading moves bytes from stream behind those that were read.
IsMove(S, x, q, n, b, r) ==
  b \in Seq(S) /\ r \in Seq(S) /\ Len(b) = Len(x) + n /\ Len(r) = Len(q) - n /\ b \o r = x \o q

\* Moving a prefix of what is under way behind what has come is such a move.
LEMMA Moves ==
  ASSUME NEW S, NEW x \in Seq(S), NEW q \in Seq(S), NEW n \in 1 .. Len(q)
  PROVE  IsMove(S, x, q, n, x \o SubSeq(q, 1, n), SubSeq(q, n + 1, Len(q)))
<1> DEFINE u == SubSeq(q, 1, n)
           r == SubSeq(q, n + 1, Len(q))
           b == x \o u
<1>1. u \in Seq(S) /\ r \in Seq(S) /\ Len(u) = n /\ Len(r) = Len(q) - n /\ u \o r = q
  BY Cut
<1>2. u \in Seq(S) /\ r \in Seq(S)
  BY <1>1
<1> HIDE DEF u, r
<1>3. b \in Seq(S) /\ Len(b) = Len(x) + Len(u)
  BY <1>2, ConcatProperties, Zenon
<1>4. Regroups(x, u, r)
  BY <1>2, Assoc, Zenon
<1> HIDE DEF b
<1>5. b \o r = x \o q
  BY <1>1, <1>4, Zenon DEF b, Regroups
<1>6. Len(b) = Len(x) + n
  BY <1>1, <1>3
<1> QED
  BY <1>1, <1>3, <1>5, <1>6, Zenon DEF IsMove, b, u, r

\* One more byte arrives and is one more of those that were sent.
LEMMA Grows ==
  ASSUME Data \in Seq(Byte), Typed, sent < Len(Data),
         NEW x \in Seq(Byte), NEW y \in Seq(Byte), Carries(x, y)
  PROVE  LET q == Append(stream, Data[sent + 1])
         IN q \in Seq(Byte) /\ x \o q = y \o SubSeq(Data, 1, sent + 1)
<1> DEFINE e == <<Data[sent + 1]>>
           d == SubSeq(Data, 1, sent)
<1>1. Len(Data) \in Nat /\ sent \in Nat /\ sent + 1 \in 1 .. Len(Data) /\ stream \in Seq(Byte)
  BY LenProperties DEF Typed
<1>2. Data[sent + 1] \in Byte
  BY <1>1, ElementOfSeq
<1>3. Append(stream, Data[sent + 1]) \in Seq(Byte) /\ Append(stream, Data[sent + 1]) = stream \o e
  BY <1>1, <1>2, AppendProperties, AppendIsConcat
<1>4. d \in Seq(Byte)
  BY <1>1, SubSeqProperties, ElementOfSeq
<1>5. e \in Seq(Byte)
  BY <1>2
<1>6. SubSeq(Data, 1, sent + 1) = d \o e
  <2>1. 1 \in 1 .. Len(Data) /\ sent + 1 \in 1 .. Len(Data) /\ (sent + 1) - 1 = sent
    BY <1>1
  <2> QED
    BY <2>1, SubSeqRecursiveSecond, Zenon
<1>7. x \o stream = y \o d
  BY DEF Carries
<1> HIDE DEF e, d
<1>8. d \in Seq(Byte) /\ e \in Seq(Byte) /\ stream \in Seq(Byte)
  BY <1>1, <1>4, <1>5
<1>9. Regroups(x, stream, e) /\ Regroups(y, d, e)
  BY <1>8, Assoc, Zenon
<1> QED
  BY <1>3, <1>6, <1>7, <1>9, Zenon DEF Regroups
-----------------------------------------------------------------------------
(* The steps of SocksConnection that the handlers take.                       *)

AbsStep == [Promise!AbsNext]_(Promise!absVars)

\* The object is freed, by its user or after an error.
LEMMA FreesAll ==
  ASSUME IInv, ~freed PROVE Freed(live) = [r \in Resources |-> 0]
<1>1. /\ live = [r \in Resources |-> IF r \in Held THEN 1 ELSE 0]
      /\ live["buffer"] = IF "buffer" \in Held THEN 1 ELSE 0
  BY DEF IInv, Owned, Resources
<1>2. {"connector"} \cup (IF state = "CONNECTING" THEN {} ELSE {"con", IF state = "UP" THEN "up" ELSE "control"})
        \cup (IF live["buffer"] = 1 THEN {"buffer"} ELSE {}) = Held
  BY <1>1 DEF Held
<1>3. Freed(live) = Release(live, Held)
  BY <1>2, Zenon DEF Freed
<1> QED
  BY <1>1, <1>3 DEF Release

\* Freeing what the client holds, from any state, keeps the invariant and is a step of SocksConnection.
LEMMA GoesDown ==
  ASSUME IInv, ~freed, live' = Freed(live), freed' = TRUE, state' = state, UNCHANGED <<sent, delivered>>
  PROVE  IInv' /\ AbsStep
<1>1. Owned'
  BY FreesAll DEF Owned, Held
<1>2. Promise!GoDown
  BY DEF Promise!GoDown
<1> QED
  BY <1>1, <1>2 DEF IInv, AbsStep, Promise!AbsNext

\* report_error() keeps the invariant: the user's handler frees the object.
LEMMA ErrorGoesDown == ASSUME IInv, ~freed, ReportError PROVE IInv' /\ AbsStep
BY GoesDown DEF ReportError, FreeWith

\* The user sees nothing of a step of the handshake.
LEMMA Unseen ==
  ASSUME ~freed, ~freed', state # "UP", state' # "UP", UNCHANGED <<sent, delivered>>
  PROVE  AbsStep
BY DEF AbsStep, Promise!absVars
-----------------------------------------------------------------------------
(* The actions.                                                               *)

\* BSocksClient_Init() establishes the invariant.
LEMMA InitIInv == Data \in Seq(Byte) /\ Init => IInv
<1> SUFFICES ASSUME Data \in Seq(Byte), Init PROVE IInv
  OBVIOUS
<1>1. Owned
  BY DEF Init, Alloc, Owned, Held, Resources
<1>2. Typed
  BY LenProperties, EmptySeq DEF Init, Typed
<1>3. Talks
  BY DEF Init, Talks, Message
<1> QED
  BY <1>1, <1>2, <1>3, Zenon DEF Init, IInv, Handshake, States

\* BSocksClient_Free() keeps the invariant.
LEMMA Frees == ASSUME IInv, Free PROVE IInv' /\ AbsStep
BY GoesDown DEF Free, FreeWith

\* connection_handler() keeps the invariant.
LEMMA ConnectionFails == ASSUME IInv, ConnectionHandler PROVE IInv' /\ AbsStep
BY ErrorGoesDown DEF ConnectionHandler

\* connector_handler() keeps the invariant when the connect failed.
LEMMA ConnectFails == ASSUME IInv, ConnectorFails PROVE IInv' /\ AbsStep
<1>1. Release(Alloc(live, {"con", "control"}), {"con", "control"}) = live
  BY DEF IInv, Owned, Alloc, Release, Resources
<1>2. ~freed /\ ReportError
  BY <1>1, Zenon DEF ConnectorFails, ReportError
<1> QED
  BY <1>2, ErrorGoesDown

\* A message is sent from a state in which nothing more arrives.
LEMMA Sends ==
  ASSUME IInv, ~freed, NEW msg, NEW s, Send(msg, s, live'),
         s \in {"SENDING_HELLO", "SENDING_PASSWORD", "SENDING_REQUEST"}, msg = Message[s],
         state # "UP", sent = 0, delivered = <<>>, server = "idle", stream' = <<>>,
         live' = [r \in Resources |-> IF r \in {"connector", "con", "control", "buffer"} THEN 1 ELSE 0]
  PROVE  IInv' /\ AbsStep
<1>1. Owned'
  BY DEF Send, Owned, Held
<1>2. Talks'
  BY DEF Send, Talks
<1>3. Typed'
  BY EmptySeq DEF Send, IInv, Handshake, Typed
<1>4. AbsStep
  BY Unseen DEF Send
<1> QED
  BY <1>1, <1>2, <1>3, <1>4 DEF Send, IInv, Handshake, States

\* connector_handler() keeps the invariant when the connect succeeded.
LEMMA Connects == ASSUME IInv, ConnectorHandler PROVE IInv' /\ AbsStep
<1>1. ~freed /\ state = "CONNECTING" /\ Talks
  BY DEF ConnectorHandler, IInv, Handshake, Talks, Listens, AwaitsHeader, AwaitsAddress, IsUp
<1>2. /\ Send("hello", "SENDING_HELLO", live') /\ stream' = stream
      /\ live' = ReserveBuffer(Alloc(live, {"con", "control"}))
  BY DEF ConnectorHandler, Send
<1>3. live' = [r \in Resources |-> IF r \in {"connector", "con", "control", "buffer"} THEN 1 ELSE 0]
  <2>1. live = [r \in Resources |-> IF r = "connector" THEN 1 ELSE 0]
    BY <1>1 DEF IInv, Owned, Held, Resources
  <2>2. Alloc(live, {"con", "control"})
          = [r \in Resources |-> IF r \in {"connector", "con", "control"} THEN 1 ELSE 0]
    BY <2>1 DEF Alloc, Resources
  <2> QED
    BY <1>2, <2>2, Zenon DEF ReserveBuffer, Resources
<1>4. Message["SENDING_HELLO"] = "hello"
  BY DEF Message
<1> QED
  BY <1>1, <1>2, <1>3, <1>4, Sends DEF Talks
\* send_handler_done(): the server will see the packet, and its reply is awaited.
LEMMA SendDone == ASSUME IInv, SendHandlerDone PROVE IInv' /\ AbsStep
<1>1. ~freed /\ sending # None /\ stream' = stream
  BY DEF SendHandlerDone
<1>2. Talks /\ state # "CONNECTING" /\ Typed /\ Owned
  BY <1>1 DEF IInv, Handshake, Talks, Listens, AwaitsHeader, AwaitsAddress, IsUp, Message
<1>3. CASE ReportError
  BY <1>1, <1>3, ErrorGoesDown
<1>4. CASE /\ server' = sending
           /\ CASE state = "SENDING_HELLO" -> StartReceive(2, "SENT_HELLO", live)
                [] state = "SENDING_PASSWORD" -> StartReceive(2, "SENT_PASSWORD", live)
                [] state = "SENDING_REQUEST" -> StartReceive(3, "SENT_REQUEST", live)
           /\ UNCHANGED <<sent, delivered, freed>>
  <2>1. /\ live' = live /\ buffer' = <<>> /\ sending' = None /\ server' = Message[state]
        /\ stream' = <<>> /\ sent' = 0 /\ delivered' = <<>> /\ ~freed'
        /\ \/ state = "SENDING_HELLO" /\ state' = "SENT_HELLO" /\ recv_total' = 2
           \/ state = "SENDING_PASSWORD" /\ state' = "SENT_PASSWORD" /\ recv_total' = 2
           \/ state = "SENDING_REQUEST" /\ state' = "SENT_REQUEST" /\ recv_total' = 3
    BY <1>1, <1>2, <1>4, Zenon DEF Talks, StartReceive
  <2>2. Owned'
    BY <1>1, <1>2, <2>1 DEF Owned, Held
  <2>3. Listens' \/ AwaitsHeader'
    BY <2>1, EmptySeq DEF Listens, AwaitsHeader, Message
  <2>4. Typed'
    BY <1>2, <2>1, EmptySeq DEF Typed, Talks
  <2>5. AbsStep
    BY <1>1, <1>2, <2>1, Unseen DEF Talks
  <2>6. freed' \in BOOLEAN /\ state' \in States
    BY <1>4, <2>1 DEF IInv, States
  <2> QED
    BY <2>2, <2>3, <2>4, <2>5, <2>6 DEF IInv, Handshake
<1> QED
  BY <1>3, <1>4, Zenon DEF SendHandlerDone

\* The server's answer to the hello or the password is two bytes.
LEMMA ShortReplies ==
  ASSUME NEW m \in {"hello", "password"}, NEW r \in Replies(m)
  PROVE  r \in Seq(Byte) /\ Len(r) = 2
<1>1. PICK x, y : r = <<x, y>> /\ x \in Byte /\ y \in Byte
  BY DEF Replies, Byte
<1> QED
  BY <1>1

\* That to the request is a header of three bytes and an address.
LEMMA LongReplies ==
  ASSUME NEW r \in Replies("request")
  PROVE  \E h, a \in Seq(Byte) :
           /\ r = h \o a /\ Len(h) = 3
           /\ h[1] = r[1] /\ h[2] = r[2]
           /\ h[3] \in DOMAIN AddrLen => Len(a) = AddrLen[h[3]]
<1>1. ASSUME NEW x \in Byte, NEW y \in Byte, NEW z \in Byte, NEW w \in Byte
      PROVE  <<x, y, z>> \o <<w>> = <<x, y, z, w>>
  <2> DEFINE s == <<x, y, z>>
             t == <<w>>
             u == <<x, y, z, w>>
  <2>1. /\ s \in Seq(Byte) /\ t \in Seq(Byte) /\ u \in Seq(Byte) /\ Len(s) = 3 /\ Len(t) = 1 /\ Len(u) = 4
        /\ u[1] = s[1] /\ u[2] = s[2] /\ u[3] = s[3] /\ u[4] = t[1]
    OBVIOUS
  <2> HIDE DEF s, t, u
  <2>2. s \o t \in Seq(Byte) /\ Len(s \o t) = 4 /\ \A i \in 1 .. 4 : (s \o t)[i] = u[i]
    <3> DEFINE q == s \o t
    <3>1. /\ q \in Seq(Byte) /\ Len(q) = Len(s) + Len(t)
          /\ \A i \in 1 .. Len(s) + Len(t) : q[i] = IF i <= Len(s) THEN s[i] ELSE t[i - Len(s)]
      BY <2>1, ConcatProperties, Zenon
    <3> HIDE DEF q
    <3>2. \A i \in 1 .. 4 : i = 1 \/ i = 2 \/ i = 3 \/ i = 4
      OBVIOUS
    <3>3. \A i \in 1 .. 4 : q[i] = u[i]
      BY <2>1, <3>1, <3>2
    <3> QED
      BY <2>1, <3>1, <3>3 DEF q
  <2>3. s \o t = u
    BY <2>1, <2>2, SeqEqual, Zenon
  <2> QED
    BY <2>3 DEF s, t, u
<1>2. ASSUME NEW x \in Byte, NEW y \in Byte, NEW z \in Byte, NEW w \in Byte, NEW v \in Byte
      PROVE  <<x, y, z>> \o <<w, v>> = <<x, y, z, w, v>>
  <2> DEFINE s == <<x, y, z>>
             t == <<w, v>>
             u == <<x, y, z, w, v>>
  <2>1. /\ s \in Seq(Byte) /\ t \in Seq(Byte) /\ u \in Seq(Byte) /\ Len(s) = 3 /\ Len(t) = 2 /\ Len(u) = 5
        /\ u[1] = s[1] /\ u[2] = s[2] /\ u[3] = s[3] /\ u[4] = t[1] /\ u[5] = t[2]
    OBVIOUS
  <2> HIDE DEF s, t, u
  <2>2. s \o t \in Seq(Byte) /\ Len(s \o t) = 5 /\ \A i \in 1 .. 5 : (s \o t)[i] = u[i]
    <3> DEFINE q == s \o t
    <3>1. /\ q \in Seq(Byte) /\ Len(q) = Len(s) + Len(t)
          /\ \A i \in 1 .. Len(s) + Len(t) : q[i] = IF i <= Len(s) THEN s[i] ELSE t[i - Len(s)]
      BY <2>1, ConcatProperties, Zenon
    <3> HIDE DEF q
    <3>2. \A i \in 1 .. 5 : i = 1 \/ i = 2 \/ i = 3 \/ i = 4 \/ i = 5
      OBVIOUS
    <3>3. \A i \in 1 .. 5 : q[i] = u[i]
      BY <2>1, <3>1, <3>2
    <3> QED
      BY <2>1, <3>1, <3>3 DEF q
  <2>3. s \o t = u
    BY <2>1, <2>2, SeqEqual, Zenon
  <2> QED
    BY <2>3 DEF s, t, u
<1>3. {"v5", "bad", "ok", "no", "ip4", "ip6", "name", "a"} \subseteq Byte
  BY DEF Byte
<1>4. PICK x, y, z \in Byte : \/ r = <<x, y, z, "a">> /\ z \in {"ip4", "name"}
                              \/ r = <<x, y, z, "a", "a">> /\ z = "ip6"
  BY <1>3 DEF Replies
<1>5. "a" \in Byte /\ x \in Byte /\ y \in Byte /\ z \in Byte
  BY <1>3
<1>6. <<x, y, z>> \in Seq(Byte) /\ <<"a">> \in Seq(Byte) /\ <<"a", "a">> \in Seq(Byte)
  BY <1>5
<1>7. DOMAIN AddrLen = {"ip4", "ip6"} /\ AddrLen["ip4"] = 1 /\ AddrLen["ip6"] = 2
  BY DEF AddrLen
<1>8. CASE r = <<x, y, z, "a">> /\ z \in {"ip4", "name"}
  <2> DEFINE h == <<x, y, z>>
             a == <<"a">>
  <2>1. r = h \o a /\ Len(h) = 3 /\ h[1] = r[1] /\ h[2] = r[2] /\ h[3] = z /\ Len(a) = 1
    BY <1>1, <1>5, <1>8
  <2>2. h[3] \in DOMAIN AddrLen => Len(a) = AddrLen[h[3]]
    BY <1>7, <1>8, <2>1
  <2> QED
    BY <1>6, <2>1, <2>2, Zenon
<1>9. CASE r = <<x, y, z, "a", "a">> /\ z = "ip6"
  <2> DEFINE h == <<x, y, z>>
             a == <<"a", "a">>
  <2>1. r = h \o a /\ Len(h) = 3 /\ h[1] = r[1] /\ h[2] = r[2] /\ h[3] = z /\ Len(a) = 2
    BY <1>2, <1>5, <1>9
  <2>2. h[3] \in DOMAIN AddrLen => Len(a) = AddrLen[h[3]]
    BY <1>7, <1>9, <2>1
  <2> QED
    BY <1>6, <2>1, <2>2, Zenon
<1> QED
  BY <1>4, <1>8, <1>9, Zenon
\* The server answers a message that was sent, once.
LEMMA Answers == ASSUME Data \in Seq(Byte), IInv, Answer PROVE IInv' /\ AbsStep
<1>1. PICK r \in Replies(server) :
        /\ stream' = stream \o r
        /\ server' = IF server = "request" /\ r[1] = "v5" /\ r[2] = "ok" THEN "payload" ELSE "idle"
  BY DEF Answer
<1>2. UNCHANGED <<state, live, buffer, recv_total, sending, sent, delivered, freed>>
  BY DEF Answer
<1>3. AbsStep
  BY <1>2 DEF AbsStep, Promise!absVars
<1>4. Owned' /\ freed' \in BOOLEAN /\ state' \in States
  BY <1>2 DEF IInv, Owned, Held
<1>5. ASSUME ~freed PROVE Handshake'
  <2>1. Typed /\ (Talks \/ Listens \/ AwaitsHeader \/ AwaitsAddress \/ IsUp)
    BY <1>5 DEF IInv, Handshake
  <2>2. server \notin {"idle", "payload"}
    BY <1>1 DEF Replies
  <2>3. CASE Listens
    <3>1. server \in {"hello", "password"} /\ stream = <<>> /\ buffer = <<>>
      BY <2>2, <2>3 DEF Listens, Message
    <3>2. r \in Seq(Byte) /\ Len(r) = 2
      BY <1>1, <3>1, ShortReplies
    <3>3. stream' = r /\ server' = "idle"
      BY <1>1, <3>1, <3>2, ConcatEmptySeq
    <3>4. Listens'
      BY <1>2, <2>3, <3>1, <3>2, <3>3, EmptySeq DEF Listens
    <3> QED
      BY <1>2, <2>1, <3>2, <3>3, <3>4 DEF Handshake, Typed
  <2>4. CASE AwaitsHeader
    <3>1. server = "request" /\ stream = <<>> /\ buffer = <<>> /\ sent = 0
      BY <2>2, <2>4 DEF AwaitsHeader
    <3>2. PICK h \in Seq(Byte), a \in Seq(Byte) :
            /\ r = h \o a /\ Len(h) = 3
            /\ h[1] = r[1] /\ h[2] = r[2]
            /\ h[3] \in DOMAIN AddrLen => Len(a) = AddrLen[h[3]]
      BY <1>1, <3>1, LongReplies, Zenon
    <3>3. r \in Seq(Byte)
      BY <3>2, ConcatProperties
    <3>4. stream' = r
      BY <1>1, <3>1, <3>3, ConcatEmptySeq
    <3>5. SubSeq(Data, 1, 0) = <<>>
      BY SubSeqEmpty
    <3>6. Carries(buffer, h \o a)'
      BY <1>2, <3>1, <3>2, <3>3, <3>4, <3>5, ConcatEmptySeq DEF Carries
    <3>7. server' \in {"idle", "payload"} /\ (h[1] = "v5" /\ h[2] = "ok" => server' = "payload")
      BY <1>1, <3>1, <3>2, Zenon
    <3>8. AwaitsHeader'
      <4>1. \E x, y \in Seq(Byte) :
              /\ Carries(buffer, x \o y)' /\ Len(x) = 3
              /\ x[1] = "v5" /\ x[2] = "ok" /\ x[3] \in DOMAIN AddrLen
                   => Len(y) = AddrLen[x[3]] /\ server' = "payload"
        BY <3>2, <3>6, <3>7, Zenon
      <4> QED
        BY <1>2, <2>4, <3>7, <4>1, Zenon DEF AwaitsHeader, Carries
    <3> QED
      BY <1>2, <2>1, <3>3, <3>4, <3>8 DEF Handshake, Typed
  <2> QED
    BY <2>1, <2>2, <2>3, <2>4 DEF Talks, AwaitsAddress, IsUp
<1> QED
  BY <1>2, <1>3, <1>4, <1>5 DEF IInv

\* The far end sends one more byte.
LEMMA Pays == ASSUME Data \in Seq(Byte), IInv, Payload PROVE IInv' /\ AbsStep
<1>1. /\ server = "payload" /\ sent < Len(Data) /\ stream' = Append(stream, Data[sent + 1]) /\ sent' = sent + 1
      /\ UNCHANGED <<state, live, buffer, recv_total, sending, server, delivered, freed>>
  BY DEF Payload
<1>2. AbsStep
  <2>1. Promise!FarEndSends
    BY <1>1 DEF Promise!FarEndSends
  <2> QED
    BY <2>1 DEF AbsStep, Promise!AbsNext
<1>3. Owned' /\ freed' \in BOOLEAN /\ state' \in States
  BY <1>1 DEF IInv, Owned, Held
<1>4. ASSUME ~freed PROVE Handshake'
  <2>1. Typed /\ (Talks \/ Listens \/ AwaitsHeader \/ AwaitsAddress \/ IsUp)
    BY <1>4 DEF IInv, Handshake
  <2>2. \A x, y \in Seq(Byte) : Carries(x, y) =>
          Append(stream, Data[sent + 1]) \in Seq(Byte)
          /\ x \o Append(stream, Data[sent + 1]) = y \o SubSeq(Data, 1, sent + 1)
    BY <1>1, <2>1, Grows, Zenon
  <2>3. \A x, y \in Seq(Byte) : Carries(x, y) =>
          stream' \in Seq(Byte) /\ x \o stream' = y \o SubSeq(Data, 1, sent')
    BY <1>1, <2>2, Zenon
  <2>4. sent' \in 0 .. Len(Data)
    BY <1>1, <2>1, LenProperties DEF Typed
  <2>5. buffer \in Seq(Byte) /\ delivered \in Seq(Byte) /\ <<>> \in Seq(Byte)
    BY <2>1, EmptySeq DEF Typed
  <2>6. CASE AwaitsHeader
    <3>1. PICK h \in Seq(Byte), a \in Seq(Byte) :
            /\ Carries(buffer, h \o a) /\ Len(h) = 3
            /\ h[1] = "v5" /\ h[2] = "ok" /\ h[3] \in DOMAIN AddrLen
                 => Len(a) = AddrLen[h[3]] /\ server = "payload"
      BY <1>1, <2>6 DEF AwaitsHeader
    <3>2. h \o a \in Seq(Byte)
      BY <3>1, ConcatProperties
    <3>3. stream' \in Seq(Byte) /\ buffer \o stream' = (h \o a) \o SubSeq(Data, 1, sent')
      BY <2>3, <2>5, <3>1, <3>2, Zenon
    <3>4. AwaitsHeader'
      <4>1. \E x, y \in Seq(Byte) :
              /\ buffer \o stream' = (x \o y) \o SubSeq(Data, 1, sent') /\ Len(x) = 3
              /\ x[1] = "v5" /\ x[2] = "ok" /\ x[3] \in DOMAIN AddrLen
                   => Len(y) = AddrLen[x[3]] /\ server = "payload"
        BY <3>1, <3>3, Zenon
      <4> QED
        BY <1>1, <2>6, <4>1, Zenon DEF AwaitsHeader, Carries
    <3> QED
      BY <1>1, <2>4, <2>5, <3>3, <3>4 DEF Handshake, Typed
  <2>7. CASE AwaitsAddress
    <3>1. PICK a \in Seq(Byte) : Len(a) = recv_total /\ Carries(buffer, a)
      BY <2>7 DEF AwaitsAddress
    <3>2. stream' \in Seq(Byte) /\ buffer \o stream' = a \o SubSeq(Data, 1, sent')
      BY <2>3, <2>5, <3>1, Zenon
    <3>3. AwaitsAddress'
      <4>1. \E x \in Seq(Byte) : Len(x) = recv_total /\ buffer \o stream' = x \o SubSeq(Data, 1, sent')
        BY <3>1, <3>2, Zenon
      <4> QED
        BY <1>1, <2>7, <4>1, Zenon DEF AwaitsAddress, Carries
    <3> QED
      BY <1>1, <2>4, <2>5, <3>2, <3>3 DEF Handshake, Typed
  <2>8. CASE IsUp
    <3>1. stream' \in Seq(Byte) /\ delivered \o stream' = <<>> \o SubSeq(Data, 1, sent')
      BY <2>3, <2>5, <2>8, Zenon DEF IsUp
    <3>2. IsUp'
      BY <1>1, <2>8, <3>1 DEF IsUp, Carries
    <3> QED
      BY <1>1, <2>4, <2>5, <3>1, <3>2 DEF Handshake, Typed
  <2> QED
    BY <1>1, <2>1, <2>6, <2>7, <2>8 DEF Talks, Listens, Message
<1> QED
  BY <1>1, <1>2, <1>3, <1>4 DEF IInv
\* What comes before the rest of the first bytes of Data is the first bytes of Data.
LEMMA FirstBytes ==
  ASSUME Data \in Seq(Byte), sent \in 0 .. Len(Data), NEW x \in Seq(Byte), NEW y \in Seq(Byte),
         x \o y = SubSeq(Data, 1, sent)
  PROVE  Len(x) \in 0 .. sent /\ x = SubSeq(Data, 1, Len(x))
<1> DEFINE m == Len(x)
           u == SubSeq(Data, 1, m)
           v == SubSeq(Data, m + 1, sent)
<1>1. Len(Data) \in Nat /\ sent \in Nat /\ m \in Nat /\ Len(y) \in Nat
  BY LenProperties
<1>2. Len(x \o y) = m + Len(y)
  BY ConcatProperties
<1>3. \A i \in 1 .. Len(Data) : Data[i] \in Byte
  BY ElementOfSeq
<1>4. Len(SubSeq(Data, 1, sent)) = sent
  BY <1>1, <1>3, SubSeqProperties
<1>5. m <= sent
  BY <1>1, <1>2, <1>4
<1>6. u \in Seq(Byte) /\ Len(u) = m
  BY <1>1, <1>3, <1>5, SubSeqProperties
<1>7. v \in Seq(Byte)
  BY <1>1, <1>3, <1>5, SubSeqProperties
<1>8. u \o v = SubSeq(Data, 1, sent)
  <2>1. 1 \in 1 .. Len(Data) + 1 /\ m \in 1 - 1 .. Len(Data) /\ sent \in m .. Len(Data)
    BY <1>1, <1>5
  <2> QED
    BY <2>1, ConcatAdjacentSubSeq, Zenon
<1> HIDE DEF u, v
<1>9. x \o y = u \o v /\ Len(x) = Len(u)
  BY <1>6, <1>8
<1>10. x = u
  BY <1>6, <1>7, <1>9, SamePrefix, Zenon
<1> QED
  BY <1>1, <1>5, <1>10 DEF u

\* The user reads what it may, and may free the object then.
LEMMA Reads == ASSUME Data \in Seq(Byte), IInv, UserReceives PROVE IInv' /\ AbsStep
<1>1. PICK n \in 1 .. Len(stream) :
        /\ stream' = SubSeq(stream, n + 1, Len(stream))
        /\ delivered' = delivered \o SubSeq(stream, 1, n)
  BY Zenon DEF UserReceives
<1>2. /\ ~freed /\ state = "UP" /\ UNCHANGED <<state, buffer, recv_total, sending, server, sent>>
      /\ \/ live' = live /\ freed' = FALSE
         \/ live' = Freed(live) /\ freed' = TRUE
  BY DEF UserReceives
<1>3. Typed /\ IsUp
  BY <1>2 DEF IInv, Handshake, Talks, Listens, AwaitsHeader, AwaitsAddress
<1>4. /\ delivered' \in Seq(Byte) /\ stream' \in Seq(Byte) /\ Len(delivered') = Len(delivered) + n
      /\ delivered' \o stream' = delivered \o stream
  <2>1. delivered \in Seq(Byte) /\ stream \in Seq(Byte)
    BY <1>3 DEF Typed
  <2>2. IsMove(Byte, delivered, stream, n, delivered', stream')
    BY <1>1, <2>1, Moves
  <2> QED
    BY <2>2 DEF IsMove
<1>5. delivered \o stream = <<>> \o SubSeq(Data, 1, sent)
  BY <1>3 DEF IsUp, Carries
<1>6. sent \in 0 .. Len(Data) /\ SubSeq(Data, 1, sent) \in Seq(Byte)
  <2>1. sent \in 0 .. Len(Data) /\ Len(Data) \in Nat
    BY <1>3, LenProperties DEF Typed
  <2> QED
    BY <2>1, SubSeqProperties, ElementOfSeq
<1>7. <<>> \o SubSeq(Data, 1, sent) = SubSeq(Data, 1, sent)
  BY <1>6, ConcatEmptySeq
<1>8. Len(delivered') \in 0 .. sent /\ delivered' = SubSeq(Data, 1, Len(delivered'))
  <2>1. ASSUME NEW x \in Seq(Byte), NEW y \in Seq(Byte), x \o y = SubSeq(Data, 1, sent)
        PROVE  Len(x) \in 0 .. sent /\ x = SubSeq(Data, 1, Len(x))
    BY <1>6, <2>1, FirstBytes
  <2>2. delivered' \o stream' = SubSeq(Data, 1, sent)
    BY <1>4, <1>5, <1>7
  <2> QED
    BY <1>4, <2>1, <2>2, Zenon
<1>9. AbsStep
  <2>1. Len(delivered') \in (Len(delivered) + 1) .. sent
    <3>1. Len(delivered) \in Nat /\ sent \in Nat /\ n \in Nat /\ n >= 1
      BY <1>3, <1>6, LenProperties DEF Typed
    <3> QED
      BY <1>4, <1>8, <3>1
  <2>2. Promise!Deliver
    BY <1>2, <1>8, <2>1, Zenon DEF Promise!Deliver
  <2> QED
    BY <2>2 DEF AbsStep, Promise!AbsNext
<1>10. Handshake'
  <2>1. IsUp'
    BY <1>2, <1>3, <1>4, <1>5 DEF IsUp, Carries
  <2> QED
    BY <1>2, <1>3, <1>4, <2>1 DEF Handshake, Typed
<1>11. Owned'
  BY <1>2, FreesAll DEF IInv, Owned, Held
<1> QED
  BY <1>2, <1>9, <1>10, <1>11, Zenon DEF IInv
\* recv_handler_done() of n bytes: what was read and what was not are as before.
ReadInto(b) ==
  /\ b \in Seq(Byte) /\ stream' \in Seq(Byte)
  /\ Len(b) \in Nat /\ Len(b) <= recv_total /\ stream # <<>>
  /\ Len(b) + Len(stream') = Len(buffer) + Len(stream) /\ b \o stream' = buffer \o stream

\* It is not yet what the handler waits for.
LEMMA ReadsPart ==
  ASSUME IInv, ~freed, NEW b, ReadInto(b), Len(b) < recv_total, buffer' = b,
         UNCHANGED <<state, live, recv_total, sending, server, sent, delivered, freed>>
  PROVE  IInv' /\ AbsStep
<1>1. Typed /\ (Talks \/ Listens \/ AwaitsHeader \/ AwaitsAddress \/ IsUp)
  BY DEF IInv, Handshake
<1>2. Typed'
  BY <1>1 DEF Typed, ReadInto
<1>3. \A y : Carries(buffer, y) => b \o stream' = y \o SubSeq(Data, 1, sent)
  BY DEF Carries, ReadInto
<1>4. ASSUME Listens PROVE Listens'
  BY <1>4 DEF Listens, ReadInto
<1>5. ASSUME AwaitsHeader PROVE AwaitsHeader'
  <2>1. \E h, a \in Seq(Byte) :
          /\ b \o stream' = (h \o a) \o SubSeq(Data, 1, sent) /\ Len(h) = 3
          /\ h[1] = "v5" /\ h[2] = "ok" /\ h[3] \in DOMAIN AddrLen
               => Len(a) = AddrLen[h[3]] /\ server = "payload"
    BY <1>3, <1>5, Zenon DEF AwaitsHeader, ReadInto
  <2> QED
    BY <1>5, <2>1, Zenon DEF AwaitsHeader, Carries, ReadInto
<1>6. ASSUME AwaitsAddress PROVE AwaitsAddress'
  <2>1. \E a \in Seq(Byte) : Len(a) = recv_total /\ b \o stream' = a \o SubSeq(Data, 1, sent)
    BY <1>3, <1>6, Zenon DEF AwaitsAddress
  <2> QED
    BY <1>6, <2>1, Zenon DEF AwaitsAddress, Carries
<1>7. Handshake'
  <2>1. Len(b) \in Nat
    BY DEF ReadInto
  <2>2. ~Talks /\ ~IsUp
    BY <2>1 DEF Talks, IsUp
  <2> QED
    BY <1>1, <1>2, <1>4, <1>5, <1>6, <2>2 DEF Handshake
<1>8. Owned' /\ freed' \in BOOLEAN /\ state' \in States
  BY DEF IInv, Owned, Held
<1>9. AbsStep
  BY DEF AbsStep, Promise!absVars
<1> QED
  BY <1>7, <1>8, <1>9 DEF IInv
\* The reply to the hello or the password is there, and nothing else.
LEMMA ReadsReply ==
  ASSUME IInv, ~freed, NEW b, ReadInto(b), Len(b) = recv_total, Listens,
         (state = "SENT_HELLO" /\ ReceivedHello(b)) \/ (state = "SENT_PASSWORD" /\ ReceivedPasswordReply(b))
  PROVE  IInv' /\ AbsStep
<1>1. \/ ReportError
      \/ Send("request", "SENDING_REQUEST", live)
      \/ Send("password", "SENDING_PASSWORD", live)
  BY DEF ReceivedHello, ReceivedPasswordReply, AuthFinished
<1>2. stream' = <<>> /\ server = "idle" /\ sent = 0 /\ delivered = <<>> /\ state # "UP"
  <2>1. server = "idle" /\ Len(buffer) + Len(stream) = 2 /\ recv_total = 2
    BY DEF Listens, ReadInto
  <2>2. Len(stream') = 0
    <3>1. stream' \in Seq(Byte) /\ Len(b) + Len(stream') = Len(buffer) + Len(stream)
      BY DEF ReadInto
    <3>2. Len(stream') \in Nat
      BY <3>1, LenProperties
    <3> QED
      BY <2>1, <3>1, <3>2
  <2> QED
    BY <2>1, <2>2, EmptySeq DEF Listens, ReadInto
<1>3. live = [r \in Resources |-> IF r \in {"connector", "con", "control", "buffer"} THEN 1 ELSE 0]
  BY DEF IInv, Owned, Held, Listens
<1>4. Message["SENDING_REQUEST"] = "request" /\ Message["SENDING_PASSWORD"] = "password"
  BY DEF Message
<1>5. CASE ReportError
  BY <1>5, ErrorGoesDown
<1>6. CASE Send("request", "SENDING_REQUEST", live)
  <2>1. live' = live /\ Send("request", "SENDING_REQUEST", live')
    BY <1>6 DEF Send
  <2> QED
    BY <1>2, <1>3, <1>4, <2>1, Sends
<1>7. CASE Send("password", "SENDING_PASSWORD", live)
  <2>1. live' = live /\ Send("password", "SENDING_PASSWORD", live')
    BY <1>7 DEF Send
  <2> QED
    BY <1>2, <1>3, <1>4, <2>1, Sends
<1> QED
  BY <1>1, <1>5, <1>6, <1>7

\* What was read is exactly what was awaited: the rest is still in stream.
LEMMA ReadsAll ==
  ASSUME Data \in Seq(Byte), sent \in 0 .. Len(Data), NEW b, ReadInto(b), NEW x \in Seq(Byte), NEW y \in Seq(Byte),
         Carries(buffer, x \o y), Len(x) = Len(b)
  PROVE  b = x /\ stream' = y \o SubSeq(Data, 1, sent)
<1> DEFINE d == SubSeq(Data, 1, sent)
           v == y \o d
<1>1. d \in Seq(Byte)
  <2>1. Len(Data) \in Nat /\ sent \in Nat /\ sent <= Len(Data)
    BY LenProperties
  <2> QED
    BY <2>1, SubSeqProperties, ElementOfSeq
<1>2. b \in Seq(Byte) /\ stream' \in Seq(Byte) /\ b \o stream' = (x \o y) \o d
  BY DEF ReadInto, Carries
<1> HIDE DEF d
<1>3. Regroups(x, y, d)
  BY <1>1, Assoc, Zenon
<1>4. v \in Seq(Byte)
  BY <1>1, ConcatProperties
<1>5. b \o stream' = x \o v
  BY <1>2, <1>3, Zenon DEF Regroups
<1> HIDE DEF v
<1>6. b = x /\ stream' = v
  <2>1. b \in Seq(Byte) /\ stream' \in Seq(Byte) /\ Len(b) = Len(x)
    BY <1>2
  <2> QED
    BY <1>4, <1>5, <2>1, SamePrefix, Zenon
<1> QED
  BY <1>6, Zenon DEF v, d

\* The header of the reply to the request.
LEMMA ReadsHeader ==
  ASSUME Data \in Seq(Byte), IInv, ~freed, NEW b, ReadInto(b), Len(b) = recv_total, AwaitsHeader,
         ReceivedReplyHeader(b)
  PROVE  IInv' /\ AbsStep
<1>1. CASE ReportError
  BY <1>1, ErrorGoesDown
<1>2. CASE ~ReportError
  <2>1. /\ b[1] = "v5" /\ b[2] = "ok" /\ b[3] \in DOMAIN AddrLen
        /\ StartReceive(AddrLen[b[3]], "RECEIVED_REPLY_HEADER", live)
        /\ UNCHANGED <<server, sent, delivered, freed>>
    BY <1>2 DEF ReceivedReplyHeader
  <2>2. PICK h \in Seq(Byte), a \in Seq(Byte) :
          /\ Carries(buffer, h \o a) /\ Len(h) = 3
          /\ h[1] = "v5" /\ h[2] = "ok" /\ h[3] \in DOMAIN AddrLen
               => Len(a) = AddrLen[h[3]] /\ server = "payload"
    BY DEF AwaitsHeader, ReadInto
  <2>3. Typed /\ sent \in 0 .. Len(Data) /\ Len(h) = Len(b)
    BY <2>2 DEF IInv, Handshake, Typed, AwaitsHeader
  <2>4. b = h /\ stream' = a \o SubSeq(Data, 1, sent)
    BY <2>2, <2>3, ReadsAll
  <2>5. Len(a) = AddrLen[b[3]] /\ server = "payload"
    BY <2>1, <2>2, <2>4
  <2>6. AddrLen[b[3]] \in {1, 2}
    BY <2>1 DEF AddrLen
  <2>7. /\ buffer' = <<>> /\ recv_total' = AddrLen[b[3]] /\ state' = "RECEIVED_REPLY_HEADER"
        /\ live' = live /\ sending' = None
    BY <2>1 DEF StartReceive
  <2>8. AwaitsAddress'
    <3>1. stream' \in Seq(Byte) /\ <<>> \o stream' = stream'
      BY ConcatEmptySeq DEF ReadInto
    <3>2. Len(a) = recv_total' /\ buffer' \o stream' = a \o SubSeq(Data, 1, sent')
      BY <2>1, <2>4, <2>5, <2>7, <3>1
    <3>3. \E x \in Seq(Byte) : Len(x) = recv_total' /\ buffer' \o stream' = x \o SubSeq(Data, 1, sent')
      BY <2>2, <3>2, Zenon
    <3>4. recv_total' \in {1, 2} /\ Len(buffer') < recv_total'
      BY <2>6, <2>7, EmptySeq
    <3>5. delivered' = <<>> /\ server' = "payload"
      BY <2>1, <2>5 DEF AwaitsHeader
    <3> QED
      BY <2>7, <3>3, <3>4, <3>5, Zenon DEF AwaitsAddress, Carries
  <2>9. Typed'
    BY <2>1, <2>3, <2>7, EmptySeq DEF Typed, ReadInto
  <2>10. Owned'
    BY <2>1, <2>7 DEF IInv, Owned, Held, AwaitsHeader
  <2>11. AbsStep
    BY <2>1, <2>7, Unseen DEF AwaitsHeader
  <2> QED
    BY <2>1, <2>7, <2>8, <2>9, <2>10, <2>11 DEF IInv, Handshake, States
<1> QED
  BY <1>1, <1>2

\* The address, after which the connection is up.
LEMMA ReadsAddress ==
  ASSUME Data \in Seq(Byte), IInv, ~freed, NEW b, ReadInto(b), Len(b) = recv_total, AwaitsAddress,
         ReceivedReply
  PROVE  IInv' /\ AbsStep
<1>1. PICK a \in Seq(Byte) : Len(a) = recv_total /\ Carries(buffer, a)
  BY DEF AwaitsAddress
<1>2. Typed /\ sent \in 0 .. Len(Data) /\ <<>> \in Seq(Byte)
  BY EmptySeq DEF IInv, Handshake, Typed
<1>3. Carries(buffer, a \o <<>>) /\ Len(a) = Len(b)
  BY <1>1, ConcatEmptySeq
<1>4. stream' = <<>> \o SubSeq(Data, 1, sent)
  BY <1>1, <1>2, <1>3, ReadsAll, Zenon
<1>5. /\ state' = "UP" /\ buffer' = <<>> /\ recv_total' = 0
      /\ live' = Alloc(Release(live, {"control", "buffer"}), {"up"})
      /\ UNCHANGED <<sending, server, sent, delivered, freed>>
  BY DEF ReceivedReply
<1>6. IsUp'
  <2>1. stream' \in Seq(Byte) /\ <<>> \o stream' = stream'
    BY ConcatEmptySeq DEF ReadInto
  <2>2. delivered' \o stream' = <<>> \o SubSeq(Data, 1, sent')
    BY <1>4, <1>5, <2>1 DEF AwaitsAddress
  <2> QED
    BY <1>5, <2>2 DEF AwaitsAddress, IsUp, Carries
<1>7. Typed'
  BY <1>2, <1>5 DEF Typed, ReadInto
<1>8. Owned'
  <2>1. live = [r \in Resources |-> IF r \in {"connector", "con", "control", "buffer"} THEN 1 ELSE 0]
    BY DEF IInv, Owned, Held, AwaitsAddress
  <2>2. Release(live, {"control", "buffer"}) = [r \in Resources |-> IF r \in {"connector", "con"} THEN 1 ELSE 0]
    BY <2>1 DEF Release, Resources
  <2>3. live' = [r \in Resources |-> IF r \in {"connector", "con", "up"} THEN 1 ELSE 0]
    BY <1>5, <2>2 DEF Alloc, Resources
  <2> QED
    BY <1>5, <2>3, Zenon DEF Owned, Held
<1>9. AbsStep
  <2>1. Promise!ComeUp
    BY <1>5 DEF Promise!ComeUp, AwaitsAddress
  <2> QED
    BY <2>1 DEF AbsStep, Promise!AbsNext
<1> QED
  BY <1>5, <1>6, <1>7, <1>8, <1>9 DEF IInv, Handshake, States

\* recv_handler_done() keeps the invariant: the handshake's receives, up to the payload's.
LEMMA RecvDone == ASSUME Data \in Seq(Byte), IInv, RecvHandlerDone PROVE IInv' /\ AbsStep
<1>1. PICK n, b :
        /\ n \in 1 .. Len(stream)
        /\ b = buffer \o SubSeq(stream, 1, n) /\ stream' = SubSeq(stream, n + 1, Len(stream))
        /\ n <= recv_total - Len(buffer) /\ Received(b)
  BY Zenon DEF RecvHandlerDone
<1>2. ~freed /\ recv_total > 0
  BY DEF RecvHandlerDone
<1>3. Typed /\ (Listens \/ AwaitsHeader \/ AwaitsAddress)
  BY <1>2 DEF IInv, Handshake, Talks, IsUp
<1>4. ReadInto(b)
  <2>1. buffer \in Seq(Byte) /\ stream \in Seq(Byte) /\ Len(buffer) \in Nat /\ Len(stream) \in Nat
    BY <1>3, LenProperties DEF Typed
  <2>2. /\ b \in Seq(Byte) /\ stream' \in Seq(Byte) /\ Len(b) = Len(buffer) + n
        /\ Len(stream') = Len(stream) - n /\ b \o stream' = buffer \o stream
    <3>1. IsMove(Byte, buffer, stream, n, b, stream')
      BY <1>1, <2>1, Moves
    <3> QED
      BY <3>1 DEF IsMove
  <2>3. recv_total \in Nat
    BY <1>3 DEF Listens, AwaitsHeader, AwaitsAddress
  <2>5. n \in Nat /\ n >= 1 /\ n <= Len(stream) /\ n <= recv_total - Len(buffer)
    BY <1>1, <2>1
  <2>4. /\ Len(b) \in Nat /\ Len(b) <= recv_total /\ stream # <<>>
        /\ Len(b) + Len(stream') = Len(buffer) + Len(stream)
    BY <2>1, <2>2, <2>3, <2>5, EmptySeq
  <2> QED
    BY <2>2, <2>4 DEF ReadInto
<1>5. Received(b)
  BY <1>1
<1>6. CASE Len(b) < recv_total
  BY <1>2, <1>4, <1>5, <1>6, ReadsPart DEF Received
<1>7. CASE ~(Len(b) < recv_total)
  <2>1. Len(b) = recv_total
    <3>1. recv_total \in Nat /\ Len(b) \in Nat /\ Len(b) <= recv_total
      BY <1>3, <1>4 DEF ReadInto, Listens, AwaitsHeader, AwaitsAddress
    <3> QED
      BY <1>7, <3>1
  <2>2. CASE Listens
    <3>1. (state = "SENT_HELLO" /\ ReceivedHello(b)) \/ (state = "SENT_PASSWORD" /\ ReceivedPasswordReply(b))
      <4>1. state = "SENT_HELLO" \/ state = "SENT_PASSWORD"
        BY <2>2 DEF Listens
      <4>2. CASE state = "SENT_HELLO"
        BY <1>5, <1>7, <4>2 DEF Received
      <4>3. CASE state = "SENT_PASSWORD"
        BY <1>5, <1>7, <4>3 DEF Received
      <4> QED
        BY <4>1, <4>2, <4>3
    <3> QED
      BY <1>2, <1>4, <2>1, <2>2, <3>1, ReadsReply
  <2>3. CASE AwaitsHeader
    BY <1>2, <1>4, <1>5, <1>7, <2>1, <2>3, ReadsHeader DEF Received, AwaitsHeader
  <2>4. CASE AwaitsAddress
    BY <1>2, <1>4, <1>5, <1>7, <2>1, <2>4, ReadsAddress DEF Received, AwaitsAddress
  <2> QED
    BY <1>3, <2>2, <2>3, <2>4
<1> QED
  BY <1>6, <1>7

\* Every step keeps the invariant and is one of SocksConnection, or leaves it alone.
LEMMA NextIInv == Data \in Seq(Byte) /\ IInv /\ [Next]_vars => IInv' /\ AbsStep
<1> SUFFICES ASSUME Data \in Seq(Byte), IInv, [Next]_vars PROVE IInv' /\ AbsStep
  OBVIOUS
<1>1. CASE UNCHANGED vars
  <2>1. IInv'
    BY <1>1, Zenon DEF vars, IInv, Owned, Held, Handshake, Typed, Talks, Listens, AwaitsHeader,
                AwaitsAddress, IsUp, Carries
  <2>2. AbsStep
    BY <1>1 DEF vars, AbsStep, Promise!absVars
  <2> QED
    BY <2>1, <2>2
<1> QED
  BY <1>1, Connects, ConnectFails, ConnectionFails, SendDone, RecvDone, Reads, Frees, Answers, Pays
     DEF Next, Handler
-----------------------------------------------------------------------------
(* The theorems.                                                              *)

\* Each resource is allocated at most once, and none is left after
\* BSocksClient_Free(), in whichever state it is called.
THEOREM Balanced == ASSUME Data \in Seq(Byte) PROVE Spec => []ResourcesBalanced
<1>1. IInv => ResourcesBalanced
  BY DEF IInv, Owned, Held, ResourcesBalanced
<1> QED
  BY <1>1, InitIInv, NextIInv, PTL DEF Spec

\* BSocksClient implements SocksConnection: the bytes its user receives are the
\* first of those the far end sent after its reply.
THEOREM KeepsPromise == ASSUME Data \in Seq(Byte) PROVE Spec => Implements
<1>1. Init => Promise!AbsInit
  BY DEF Init, Promise!AbsInit
<1>2. IInv /\ [Next]_vars => [Promise!AbsNext]_(Promise!absVars)
  BY NextIInv DEF AbsStep
<1>3. Spec => []IInv
  BY InitIInv, NextIInv, PTL DEF Spec
<1> QED
  BY <1>1, <1>2, <1>3, PTL DEF Spec, Implements, Promise!AbsSpec
=============================================================================
