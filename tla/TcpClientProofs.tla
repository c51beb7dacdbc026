-------------------------- MODULE TcpClientProofs ---------------------------
(* The safety properties of TcpClient and that it implements two pipes, for   *)
(* any data and any sizes of the buffers; and the same for RelayedConnection, *)
(* where a BSocksClient takes the place of the SOCKS connection.              *)
EXTENDS RelayedConnection, SequenceTheorems, TLAPS

\* Zenon proves a leaf unless it names another prover.
USE Zenon

Client ==
  [mem : {"none", "live", "freed"}, pcb : {"open", "gone"}, cb : SUBSET {"err", "recv", "sent"},
   wnd : Int, snd : Seq(Bytes), client_closed : BOOLEAN, buf : Seq(Bytes), sending : Nat,
   socks : {"connecting", "up", "down"}, socks_up : BOOLEAN, socks_closed : BOOLEAN,
   recv_buf : Seq(Bytes), used : Int, sent : Nat, waiting : BOOLEAN, pending : Int,
   receiving : BOOLEAN, killed : BOOLEAN]
-----------------------------------------------------------------------------
(* Taking a sequence apart.                                                   *)

\* A part of a sequence is a sequence of the expected length.
LEMMA Part ==
  ASSUME NEW S, NEW q \in Seq(S), NEW l \in Nat, NEW m \in Nat, l <= m, m <= Len(q)
  PROVE  SubSeq(q, l + 1, m) \in Seq(S) /\ Len(SubSeq(q, l + 1, m)) = m - l
<1>1. Len(q) \in Nat /\ \A i \in 1 .. Len(q) : q[i] \in S
  BY LenProperties, ElementOfSeq
<1> QED
  BY SMT, <1>1, SubSeqProperties

\* Two adjacent parts make up the part from the first's begin to the second's end.
LEMMA Join ==
  ASSUME NEW S, NEW q \in Seq(S), NEW l \in Nat, NEW m \in Nat, NEW n \in Nat,
         l <= m, m <= n, n <= Len(q)
  PROVE  SubSeq(q, l + 1, m) \o SubSeq(q, m + 1, n) = SubSeq(q, l + 1, n)
<1>1. Len(q) \in Nat
  BY LenProperties
<1>2. l + 1 \in 1 .. Len(q) + 1 /\ m \in (l + 1) - 1 .. Len(q) /\ n \in m .. Len(q)
  BY SMT, <1>1
<1> QED
  BY <1>2, ConcatAdjacentSubSeq

\* A prefix and what Drop leaves make up the sequence.
LEMMA Cut ==
  ASSUME NEW S, NEW q \in Seq(S), NEW n \in Nat, n <= Len(q)
  PROVE  /\ SubSeq(q, 1, n) \in Seq(S) /\ Len(SubSeq(q, 1, n)) = n
         /\ Drop(q, n) \in Seq(S) /\ Len(Drop(q, n)) = Len(q) - n
         /\ SubSeq(q, 1, n) \o Drop(q, n) = q
<1>1. Len(q) \in Nat /\ 0 \in Nat /\ 0 + 1 = 1 /\ 0 <= n /\ 0 <= Len(q) /\ Len(q) <= Len(q)
      /\ n - 0 = n /\ Len(q) - 0 = Len(q)
  BY SMT, LenProperties
<1>2. SubSeq(q, 1, n) \in Seq(S) /\ Len(SubSeq(q, 1, n)) = n
  BY SMT, <1>1, Part
<1>3. Drop(q, n) \in Seq(S) /\ Len(Drop(q, n)) = Len(q) - n
  BY ZenonT(60), <1>1, Part DEF Drop
<1>4. SubSeq(q, 0 + 1, n) \o SubSeq(q, n + 1, Len(q)) = SubSeq(q, 0 + 1, Len(q))
  BY <1>1, Join
<1>5. SubSeq(q, 1, Len(q)) = q
  BY SubSeqFull
<1>6. SubSeq(q, 1, n) \o Drop(q, n) = q
  BY <1>1, <1>4, <1>5 DEF Drop
<1> QED
  BY <1>2, <1>3, <1>6

\* Cutting nothing off leaves the sequence.
LEMMA Nothing ==
  ASSUME NEW S, NEW q \in Seq(S)
  PROVE  SubSeq(q, 1, 0) = <<>> /\ Drop(q, 0) = q
BY SMT, SubSeqEmpty, SubSeqFull DEF Drop

\* The next n bytes after the first m.
LEMMA Extend ==
  ASSUME NEW S, NEW q \in Seq(S), NEW m \in Nat, NEW n \in Nat, m + n <= Len(q)
  PROVE  /\ SubSeq(q, m + 1, m + n) \in Seq(S) /\ Len(SubSeq(q, m + 1, m + n)) = n
         /\ SubSeq(q, 1, m) \o SubSeq(q, m + 1, m + n) = SubSeq(q, 1, m + n)
         /\ SubSeq(q, m + 1, m + n) \o Drop(q, m + n) = Drop(q, m)
<1>1. Len(q) \in Nat /\ 0 \in Nat /\ 0 + 1 = 1 /\ 0 <= m /\ m + n \in Nat /\ m <= m + n
      /\ (m + n) - m = n /\ Len(q) <= Len(q)
  BY SMT, LenProperties
<1>2. SubSeq(q, m + 1, m + n) \in Seq(S) /\ Len(SubSeq(q, m + 1, m + n)) = n
  BY SMT, <1>1, Part
<1>3. SubSeq(q, 0 + 1, m) \o SubSeq(q, m + 1, m + n) = SubSeq(q, 0 + 1, m + n)
  BY ZenonT(60), <1>1, Join
<1>4. SubSeq(q, m + 1, m + n) \o SubSeq(q, (m + n) + 1, Len(q)) = SubSeq(q, m + 1, Len(q))
  BY ZenonT(60), <1>1, Join
<1> QED
  BY <1>1, <1>2, <1>3, <1>4 DEF Drop

\* A queue s followed by t, when the first n of s go.
LEMMA TakeFirst ==
  ASSUME NEW S, NEW s \in Seq(S), NEW t \in Seq(S), NEW n \in Nat, n <= Len(s)
  PROVE  /\ SubSeq(s \o t, 1, n) = SubSeq(s, 1, n)
         /\ Drop(s \o t, n) = Drop(s, n) \o t
         /\ s \o t \in Seq(S) /\ n <= Len(s \o t)
<1> DEFINE q == s \o t
           x == SubSeq(s, 1, n)
           y == Drop(s, n)
           z == y \o t
<1>1. Len(s) \in Nat /\ Len(t) \in Nat
  BY LenProperties
<1>2. q \in Seq(S) /\ Len(q) = Len(s) + Len(t)
  BY ConcatProperties
<1>3. x \in Seq(S) /\ Len(x) = n /\ y \in Seq(S) /\ Len(y) = Len(s) - n /\ x \o y = s
  BY Cut
<1>4. SubSeq(q, 1, n) = x
  <2>1. CASE n = 0
    BY SMT, <2>1, SubSeqEmpty
  <2>2. CASE n # 0
    <3>1. 1 \in 1 .. Len(s) /\ n \in 1 .. Len(s)
      BY SMT, <1>1, <2>2
    <3> QED
      BY <3>1, SubSeqOfConcat1
  <2> QED
    BY <2>1, <2>2
<1>5. z \in Seq(S)
  BY <1>3, ConcatProperties
<1> HIDE DEF q, x, y, z
<1>6. n <= Len(q)
  BY SMT, <1>1, <1>2
<1>7. /\ SubSeq(q, 1, n) \in Seq(S) /\ Len(SubSeq(q, 1, n)) = n
      /\ Drop(q, n) \in Seq(S) /\ SubSeq(q, 1, n) \o Drop(q, n) = q
  BY <1>2, <1>6, Cut
<1>8. x \o z = q
  <2>1. x \in Seq(S) /\ y \in Seq(S)
    BY <1>3
  <2>2. (x \o y) \o t = x \o (y \o t)
    BY SMTT(60), <2>1, ConcatAssociative
  <2> QED
    BY <1>3, <2>2 DEF q, z
<1>9. Drop(q, n) = z
  BY <1>3, <1>4, <1>5, <1>7, <1>8, ConcatSimplifications
<1> QED
  BY <1>2, <1>4, <1>6, <1>9 DEF q, x, y, z
-----------------------------------------------------------------------------
(* What the functions of tun2socks.c do to the fields of a client.            *)

SameUp(d, e) == e.wnd = d.wnd /\ e.buf = d.buf
SameDown(d, e) ==
  /\ e.snd = d.snd /\ e.pending = d.pending /\ e.recv_buf = d.recv_buf
  /\ e.used = d.used /\ e.sent = d.sent /\ e.waiting = d.waiting
SocksFreed(e) == e.socks = "down" /\ e.socks_closed /\ e.sending = 0 /\ ~e.receiving
SameSocks(d, e) ==
  /\ e.socks = d.socks /\ e.socks_closed = d.socks_closed
  /\ e.sending = d.sending /\ e.receiving = d.receiving

\* client_free_client(): the SOCKS side goes too, unless it still has bytes to send.
ClientFreed(d, e) ==
  /\ e \in Client /\ SameUp(d, e) /\ SameDown(d, e) /\ e.socks_up = d.socks_up
  /\ e.pcb = "gone" /\ e.cb = {} /\ e.client_closed /\ e.killed
  /\ IF d.buf # <<>> /\ ~d.socks_closed THEN e.mem = d.mem /\ SameSocks(d, e)
     ELSE e.mem = "freed" /\ (IF d.socks_closed THEN SameSocks(d, e) ELSE SocksFreed(e))

\* What client_free_client(), client_abort_client() and client_err_func() share.
LEMMA FreeClient ==
  ASSUME NEW d \in Client
  PROVE  /\ ClientFreed(d, client_free_client(d))
         /\ ClientFreed(d, client_abort_client(d))
         /\ ClientFreed(d, client_handle_freed_client([d EXCEPT !.pcb = "gone", !.cb = {}]))
<1> DEFINE f == [d EXCEPT !.cb = {}, !.pcb = "gone"]
           g == [f EXCEPT !.killed = TRUE, !.client_closed = TRUE]
           e == client_handle_freed_client(f)
<1>1. [d EXCEPT !.pcb = "gone", !.cb = {}] = f
  OBVIOUS
<1>2. /\ g \in Client /\ SameUp(d, g) /\ SameDown(d, g) /\ SameSocks(d, g)
      /\ g.socks_up = d.socks_up /\ g.mem = d.mem
      /\ g.pcb = "gone" /\ g.cb = {} /\ g.client_closed /\ g.killed
  BY DEF Client, SameUp, SameDown, SameSocks
<1>3. e = IF Len(g.buf) > 0 /\ ~g.socks_closed THEN g
          ELSE client_dealloc(IF g.socks_closed THEN g ELSE FreeSocksObject(g))
  BY DEF client_handle_freed_client
<1>4. Len(d.buf) > 0 <=> d.buf # <<>>
  BY SMT, EmptySeq DEF Client
<1> HIDE DEF g, e
<1> SUFFICES ClientFreed(d, e)
  BY <1>1 DEF client_free_client, client_abort_client, e
<1>5. CASE d.buf # <<>> /\ ~d.socks_closed
  <2>1. e = g
    BY <1>2, <1>3, <1>4, <1>5 DEF SameUp, SameSocks
  <2> QED
    BY <1>2, <1>5, <2>1 DEF ClientFreed
<1>6. CASE d.socks_closed
  <2>1. e = [g EXCEPT !.mem = "freed"]
    BY <1>2, <1>3, <1>6 DEF client_dealloc, SameSocks
  <2> QED
    BY <1>2, <1>6, <2>1 DEF Client, ClientFreed, SameUp, SameDown, SameSocks
<1>7. CASE d.buf = <<>> /\ ~d.socks_closed
  <2>1. e = client_dealloc(FreeSocksObject(g))
    BY <1>2, <1>3, <1>4, <1>7 DEF SameSocks, SameUp
  <2> QED
    BY ZenonT(60), <1>2, <1>7, <2>1 DEF Client, ClientFreed, SameUp, SameDown, SocksFreed, client_dealloc,
       FreeSocksObject
<1> QED
  BY <1>5, <1>6, <1>7

\* client_free_socks() leaves the client to what lwIP has still to deliver.
Draining(d) == d.socks_up /\ (d.used >= 0 \/ d.pending > 0) /\ ~d.client_closed

ConnectionFreed(d, e) ==
  /\ e \in Client /\ SameUp(d, e) /\ SameDown(d, e) /\ e.socks_up = d.socks_up
  /\ SocksFreed(e)
  /\ IF Draining(d)
     THEN /\ e.mem = d.mem /\ e.pcb = d.pcb /\ e.cb = d.cb \ {"recv"}
          /\ e.client_closed = d.client_closed /\ e.killed = d.killed
     ELSE /\ e.mem = "freed" /\ e.client_closed
          /\ IF d.client_closed THEN e.pcb = d.pcb /\ e.cb = d.cb /\ e.killed = d.killed
             ELSE e.pcb = "gone" /\ e.cb = {} /\ e.killed

\* client_free_socks(), as a relation between fields.
LEMMA FreeSocks == ASSUME NEW d \in Client PROVE ConnectionFreed(d, client_free_socks(d))
<1> DEFINE g == FreeSocksObject(d)
           e == client_free_socks(d)
<1>1. /\ g \in Client /\ SameUp(d, g) /\ SameDown(d, g) /\ SocksFreed(g)
      /\ g.socks_up = d.socks_up /\ g.mem = d.mem
      /\ g.pcb = d.pcb /\ g.client_closed = d.client_closed /\ g.killed = d.killed
      /\ g.cb = IF d.socks_up /\ ~d.client_closed THEN d.cb \ {"recv"} ELSE d.cb
  BY ZenonT(60) DEF FreeSocksObject, Client, SameUp, SameDown, SocksFreed
<1>2. e = IF Draining(d) THEN g ELSE IF d.client_closed THEN client_dealloc(g) ELSE client_free_client(g)
  BY <1>1 DEF client_free_socks, Draining, SameDown
<1> HIDE DEF g, e
<1> SUFFICES ConnectionFreed(d, e)
  BY DEF e
<1>3. CASE Draining(d)
  BY <1>1, <1>2, <1>3 DEF ConnectionFreed, Draining, SameUp, SameDown, SocksFreed
<1>4. CASE ~Draining(d) /\ d.client_closed
  <2>1. e = [g EXCEPT !.mem = "freed"]
    BY <1>2, <1>4 DEF client_dealloc
  <2> QED
    BY <1>1, <1>4, <2>1 DEF Client, ConnectionFreed, SameUp, SameDown, SocksFreed
<1>5. CASE ~Draining(d) /\ ~d.client_closed
  <2>1. ClientFreed(g, e)
    BY <1>1, <1>2, <1>5, FreeClient
  <2> QED
    BY <1>1, <1>5, <2>1 DEF ClientFreed, ConnectionFreed, SameUp, SameDown, SameSocks, SocksFreed
<1> QED
  BY <1>3, <1>4, <1>5

\* client_murder(), of a client that is not closed on both sides.
LEMMA MurderClient ==
  ASSUME NEW d \in Client
  PROVE  LET e == client_murder(d) IN
         /\ e \in Client /\ SameUp(d, e) /\ SameDown(d, e) /\ e.socks_up = d.socks_up
         /\ e.mem = "freed" /\ e.client_closed
         /\ IF d.socks_closed THEN SameSocks(d, e) ELSE SocksFreed(e)
         /\ IF d.client_closed THEN e.pcb = d.pcb /\ e.cb = d.cb /\ e.killed = d.killed
            ELSE e.pcb = "gone" /\ e.cb = {} /\ e.killed
<1> DEFINE g == IF d.client_closed THEN d
                ELSE [d EXCEPT !.cb = {}, !.pcb = "gone", !.killed = TRUE, !.client_closed = TRUE]
           h == IF g.socks_closed THEN g ELSE FreeSocksObject(g)
<1>1. /\ g \in Client /\ SameUp(d, g) /\ SameDown(d, g) /\ SameSocks(d, g)
      /\ g.socks_up = d.socks_up /\ g.client_closed
      /\ IF d.client_closed THEN g.pcb = d.pcb /\ g.cb = d.cb /\ g.killed = d.killed
         ELSE g.pcb = "gone" /\ g.cb = {} /\ g.killed
  BY ZenonT(60) DEF Client, SameUp, SameDown, SameSocks
<1>2. client_murder(d) = client_dealloc(h)
  BY DEF client_murder
<1> HIDE DEF g
<1>3. /\ h \in Client /\ SameUp(d, h) /\ SameDown(d, h)
      /\ IF d.socks_closed THEN SameSocks(d, h) ELSE SocksFreed(h)
      /\ h.socks_up = d.socks_up /\ h.client_closed
      /\ IF d.client_closed THEN h.pcb = d.pcb /\ h.cb = d.cb /\ h.killed = d.killed
         ELSE h.pcb = "gone" /\ h.cb = {} /\ h.killed
  <2>1. CASE d.socks_closed
    BY <1>1, <2>1 DEF SameUp, SameDown, SameSocks
  <2>2. CASE ~d.socks_closed
    <3>1. h = FreeSocksObject(g)
      BY <1>1, <2>2 DEF SameSocks
    <3> QED
      BY ZenonT(60), <1>1, <2>2, <3>1 DEF FreeSocksObject, Client, SameUp, SameDown, SameSocks, SocksFreed
  <2> QED
    BY <2>1, <2>2
<1>4. /\ [h EXCEPT !.mem = "freed"] \in Client
      /\ SameUp(h, [h EXCEPT !.mem = "freed"]) /\ SameDown(h, [h EXCEPT !.mem = "freed"])
      /\ SameSocks(h, [h EXCEPT !.mem = "freed"])
  BY ZenonT(60), <1>3 DEF Client, SameUp, SameDown, SameSocks
<1> DEFINE e == client_murder(d)
<1>5. e = [h EXCEPT !.mem = "freed"]
  BY <1>2 DEF client_dealloc
<1> HIDE DEF h
<1>6. /\ e.mem = "freed" /\ e.client_closed = h.client_closed /\ e.socks_up = h.socks_up
      /\ e.pcb = h.pcb /\ e.cb = h.cb /\ e.killed = h.killed
  BY <1>3, <1>5 DEF Client
<1> HIDE DEF e
<1>7. e \in Client /\ SameUp(h, e) /\ SameDown(h, e) /\ SameSocks(h, e)
  BY <1>4, <1>5
<1> QED
  BY <1>3, <1>6, <1>7 DEF e, SameUp, SameDown, SameSocks, SocksFreed

\* client_socks_recv_send_out(): the bytes lwIP took...
Enqueued(d, n) == [d EXCEPT !.sent = @ + n, !.pending = @ + n, !.snd = @ \o Chunk(d, n)]

\* What tcp_write() of n bytes from the receive buffer does to a client.
LEMMA Enqueue ==
  ASSUME NEW d \in Client, NEW n \in Nat, d.sent + n <= Len(d.recv_buf)
  PROVE  LET f == Enqueued(d, n) IN
         /\ f \in Client /\ SameUp(d, f) /\ SameSocks(d, f)
         /\ f.mem = d.mem /\ f.pcb = d.pcb /\ f.cb = d.cb /\ f.socks_up = d.socks_up
         /\ f.client_closed = d.client_closed /\ f.killed = d.killed
         /\ f.recv_buf = d.recv_buf /\ f.used = d.used /\ f.waiting = d.waiting
         /\ f.sent = d.sent + n /\ f.pending = d.pending + n
         /\ Chunk(d, n) \in Seq(Bytes) /\ Len(Chunk(d, n)) = n
         /\ f.snd = d.snd \o Chunk(d, n) /\ Len(f.snd) = Len(d.snd) + n
<1> DEFINE ch == Chunk(d, n)
<1>1. ch \in Seq(Bytes) /\ Len(ch) = n
  <2>1. d.sent \in Nat /\ d.recv_buf \in Seq(Bytes)
    BY DEF Client
  <2>2. \A i \in d.sent + 1 .. d.sent + n : d.recv_buf[i] \in Bytes
    BY SMT, <2>1, ElementOfSeq, LenProperties
  <2> QED
    BY SMT, <2>1, <2>2, SubSeqProperties DEF Chunk
<1> HIDE DEF ch
<1>2. PICK sq : sq = d.snd \o ch
  OBVIOUS
<1>3. sq \in Seq(Bytes) /\ Len(sq) = Len(d.snd) + n
  <2>1. d.snd \in Seq(Bytes)
    BY DEF Client
  <2>2. sq \in Seq(Bytes) /\ Len(sq) = Len(d.snd) + Len(ch)
    BY <1>1, <1>2, <2>1, ConcatProperties
  <2> QED
    BY <1>1, <2>2
<1>4. PICK i \in Nat, j \in Int : i = d.sent + n /\ j = d.pending + n
  BY SMT DEF Client
<1>5. Enqueued(d, n) = [d EXCEPT !.sent = i, !.pending = j, !.snd = sq]
  BY <1>2, <1>4 DEF Enqueued, ch
<1> DEFINE f == Enqueued(d, n)
<1>6. /\ f \in Client /\ SameUp(d, f) /\ SameSocks(d, f)
      /\ f.mem = d.mem /\ f.pcb = d.pcb /\ f.cb = d.cb /\ f.socks_up = d.socks_up
      /\ f.client_closed = d.client_closed /\ f.killed = d.killed
      /\ f.recv_buf = d.recv_buf /\ f.used = d.used /\ f.waiting = d.waiting
      /\ f.sent = i /\ f.pending = j /\ f.snd = sq
  BY ZenonT(60), <1>3, <1>5 DEF Client, SameUp, SameSocks
<1> HIDE DEF f
<1> QED
  BY <1>1, <1>2, <1>3, <1>4, <1>6 DEF ch, f
-----------------------------------------------------------------------------
(* The inductive invariant, over the client d.                                *)

\* The two sides, and what is registered where.
Sides(d) ==
  /\ d.killed <=> d.client_closed
  /\ d.socks_closed => SocksFreed(d)
  /\ d.socks_closed /\ d.client_closed => d.mem = "freed"
  /\ d.mem = "freed" => d.socks_closed /\ d.client_closed
  /\ d.pcb = "gone" => d.cb = {}
  /\ d.mem = "none" => ~d.socks_closed /\ ~d.client_closed /\ d.cb = {}
  /\ d.mem # "none" =>
       /\ d.pcb = "gone" <=> d.client_closed
       /\ d.socks = "down" => d.socks_closed
       /\ ~d.client_closed =>
            /\ "recv" \in d.cb <=> ~d.socks_closed
            /\ "sent" \in d.cb <=> d.socks_up

\* The direction from the app: lwIP's window, client->buf, the send under way.
UpSide(d) ==
  /\ d.pcb = "open" => d.wnd \in Nat /\ d.wnd + Len(d.buf) = TCP_WND
  /\ d.sending <= Len(d.buf)
  /\ d.sending > 0 => d.socks = "up"
  /\ d.mem = "live" /\ d.socks = "up" /\ d.buf # <<>> => d.sending > 0
  /\ d.mem = "none" => d.buf = <<>>

\* The direction to the app: the receive under way, the receive buffer...
DownSide(d) ==
  /\ d.socks = "up" => d.socks_up
  /\ d.socks = "connecting" => ~d.socks_up
  /\ d.mem = "none" => ~d.socks_up
  /\ ~d.socks_up => d.used = -1 /\ d.snd = <<>> /\ d.pending = 0
  /\ d.receiving => d.used = -1 /\ d.socks = "up"
  /\ d.used # -1 => d.used > 0 /\ d.used = Len(d.recv_buf) /\ d.sent <= d.used

\* ...and, while the app is there, lwIP's queue and who is to go on.
DownGoesOn(d) ==
  ~d.client_closed =>
    /\ d.pending = Len(d.snd) /\ d.pending <= TCP_SND_BUF
    /\ d.mem = "live" /\ d.socks = "up" /\ d.used = -1 => d.receiving
    /\ d.used # -1 => d.waiting /\ d.sent < d.used /\ d.pending > 0

ClientInv(d) == d \in Client /\ Sides(d) /\ UpSide(d) /\ DownSide(d) /\ DownGoesOn(d)

\* What a callback returned fits what it did to the pcb.
Returned ==
  /\ call \in {"none", "accept", "recv", "sent"}
  /\ call # "none" => c.mem # "none"
  /\ ReturnTellsLwip

\* The bytes in client->buf are the ones that were taken from the app and are
\* not on the SOCKS connection; those of lwIP's queue and of the receive buffer
\* the ones that were read from it and the app has not acknowledged.
UpFlow ==
  /\ upNext \in 0 .. Len(UpData) /\ upGot \in Seq(Bytes)
  /\ ~farLost => upGot \o c.buf = SubSeq(UpData, 1, upNext)
  /\ ~farLost /\ c.socks_closed => c.buf = <<>> /\ c.client_closed

DownFlow ==
  /\ downNext \in 0 .. Len(DownData) /\ downGot \in Seq(Bytes)
  /\ ~appLost => downGot \o (c.snd \o Unsent) = SubSeq(DownData, 1, downNext)
  /\ ~appLost /\ c.client_closed => c.snd = <<>> /\ c.used = -1 /\ c.socks_closed

IInv == ClientInv(c) /\ Returned /\ UpFlow /\ DownFlow /\ appLost \in BOOLEAN /\ farLost \in BOOLEAN
-----------------------------------------------------------------------------
(* The steps of the pipes, in terms of the fields of the client.              *)

UnsentOf(d) == IF d.used > 0 THEN Drop(d.recv_buf, d.sent) ELSE <<>>
UpOf(d) == IF d.socks_closed THEN <<>> ELSE d.buf
DownOf(d) == IF d.client_closed THEN <<>> ELSE d.snd \o UnsentOf(d)

PipeStep == [Pipes!PipeNext]_(Pipes!pipeVars)

SameEnds == (c'.client_closed <=> c.client_closed) /\ (c'.socks_closed <=> c.socks_closed)

\* A step that changes no pipe is a stutter of RelayPipes.
LEMMA Stutters ==
  ASSUME SameEnds, UpOf(c') = UpOf(c), DownOf(c') = DownOf(c),
         UNCHANGED <<upNext, upGot, downNext, downGot>>
  PROVE  PipeStep
BY DEF SameEnds, UpOf, DownOf, UnsentOf, Unsent, PipeStep, Pipes!pipeVars

\* Data of the app that enters the first pipe is a step of RelayPipes.
LEMMA AppSends ==
  ASSUME SameEnds, ~c.client_closed, NEW n \in upNext + 1 .. Len(UpData), upNext' = n,
         UpOf(c') = IF c.socks_closed THEN UpOf(c) ELSE UpOf(c) \o SubSeq(UpData, upNext + 1, n),
         DownOf(c') = DownOf(c), UNCHANGED <<upGot, downNext, downGot>>
  PROVE  PipeStep
<1>1. Pipes!AppSends
  BY DEF SameEnds, UpOf, DownOf, UnsentOf, Unsent, Pipes!AppSends
<1> QED
  BY <1>1 DEF PipeStep, Pipes!PipeNext

\* Data of the far end that enters the second pipe is a step of RelayPipes.
LEMMA FarSends ==
  ASSUME SameEnds, ~c.socks_closed, NEW n \in downNext + 1 .. Len(DownData), downNext' = n,
         DownOf(c') = IF c.client_closed THEN DownOf(c) ELSE DownOf(c) \o SubSeq(DownData, downNext + 1, n),
         UpOf(c') = UpOf(c), UNCHANGED <<upNext, upGot, downGot>>
  PROVE  PipeStep
<1>1. Pipes!FarSends
  BY DEF SameEnds, UpOf, DownOf, UnsentOf, Unsent, Pipes!FarSends
<1> QED
  BY <1>1 DEF PipeStep, Pipes!PipeNext

\* Data the SOCKS client has sent leaves the first pipe.
LEMMA FarTakes ==
  ASSUME c'.client_closed = c.client_closed, c'.socks_closed \in BOOLEAN, ~c.socks_closed,
         NEW n \in 1 .. Len(UpOf(c)), UpOf(c') = Drop(UpOf(c), n),
         upGot' = upGot \o SubSeq(UpOf(c), 1, n),
         c'.socks_closed => c.client_closed /\ UpOf(c') = <<>>,
         DownOf(c') = DownOf(c), UNCHANGED <<upNext, downNext, downGot>>
  PROVE  PipeStep
<1>1. Pipes!FarTakes
  BY DEF UpOf, DownOf, UnsentOf, Unsent, Drop, Pipes!Drop, Pipes!FarTakes
<1> QED
  BY <1>1 DEF PipeStep, Pipes!PipeNext

\* Data the app has acknowledged leaves the second pipe.
LEMMA AppTakes ==
  ASSUME c'.socks_closed = c.socks_closed, c'.client_closed \in BOOLEAN, ~c.client_closed,
         NEW n \in 1 .. Len(DownOf(c)), DownOf(c') = Drop(DownOf(c), n),
         downGot' = downGot \o SubSeq(DownOf(c), 1, n),
         c'.client_closed => c.socks_closed /\ DownOf(c') = <<>>,
         UpOf(c') = UpOf(c), UNCHANGED <<upNext, upGot, downNext>>
  PROVE  PipeStep
<1>1. Pipes!AppTakes
  BY DEF UpOf, DownOf, UnsentOf, Unsent, Drop, Pipes!Drop, Pipes!AppTakes
<1> QED
  BY <1>1 DEF PipeStep, Pipes!PipeNext

\* The app's side goes away.
LEMMA AppLeaves ==
  ASSUME ~c.client_closed, c'.client_closed, c.client_closed \in BOOLEAN, c'.client_closed \in BOOLEAN,
         c.socks_closed \in BOOLEAN, c'.socks_closed \in BOOLEAN,
         downNext' \in downNext .. Len(DownData), NEW n \in 0 .. Len(DownOf(c)),
         downGot' = downGot \o SubSeq(DownOf(c), 1, n),
         c'.socks_closed <=> c.socks_closed \/ c.buf = <<>>, c'.buf = c.buf,
         UNCHANGED <<upNext, upGot>>
  PROVE  PipeStep
<1>1. UpOf(c') = UpOf(c)
  BY DEF UpOf
<1>2. Pipes!AppLeaves
  BY <1>1 DEF UpOf, DownOf, UnsentOf, Unsent, Pipes!AppLeaves
<1> QED
  BY <1>2 DEF PipeStep, Pipes!PipeNext

\* The SOCKS side goes away.
LEMMA FarLeaves ==
  ASSUME ~c.socks_closed, c'.socks_closed, c.client_closed \in BOOLEAN, c'.client_closed \in BOOLEAN,
         c.socks_closed \in BOOLEAN, c'.socks_closed \in BOOLEAN,
         c.client_closed => c'.client_closed,
         ~c.client_closed /\ c'.client_closed => DownOf(c) = <<>>,
         DownOf(c') = DownOf(c), UNCHANGED <<upNext, upGot, downNext, downGot>>
  PROVE  PipeStep
<1>1. Pipes!FarLeaves
  BY DEF UpOf, DownOf, UnsentOf, Unsent, Pipes!FarLeaves
<1> QED
  BY <1>1 DEF PipeStep, Pipes!PipeNext

\* Both sides go away.
LEMMA Ends ==
  ASSUME c'.client_closed, c'.socks_closed, c'.client_closed \in BOOLEAN, c'.socks_closed \in BOOLEAN,
         UNCHANGED <<upNext, upGot, downNext, downGot>>
  PROVE  PipeStep
<1>1. Pipes!Ends
  BY DEF Pipes!Ends
<1> QED
  BY <1>1 DEF PipeStep, Pipes!PipeNext
-----------------------------------------------------------------------------
(* client_free_client() and client_free_socks() preserve it.                  *)

\* client_free_client() keeps what the invariant says of the client.
LEMMA FreeClientInv ==
  ASSUME NEW d \in Client, NEW e, Sides(d), UpSide(d), DownSide(d),
         d.mem = "live", ~d.client_closed, ClientFreed(d, e)
  PROVE  ClientInv(e)
<1> USE DEF ClientFreed, SameUp, SameDown, SameSocks, SocksFreed
<1>1. e \in Client /\ Sides(e)
  BY DEF Sides
<1>2. UpSide(e)
  BY SMT, EmptySeq DEF UpSide, Sides, Client
<1>3. DownSide(e) /\ DownGoesOn(e)
  BY DEF DownSide, DownGoesOn, Sides
<1> QED
  BY <1>1, <1>2, <1>3 DEF ClientInv

\* client_free_socks() keeps what the invariant says of the client.
LEMMA FreeSocksInv ==
  ASSUME NEW d, NEW e, ClientInv(d), d.mem = "live", ConnectionFreed(d, e)
  PROVE  ClientInv(e)
<1> USE DEF ClientInv, ConnectionFreed, Draining, SameUp, SameDown, SocksFreed
<1>1. e \in Client /\ Sides(e)
  BY DEF Sides, DownSide
<1>2. UpSide(e)
  BY SMT, EmptySeq DEF UpSide, Sides, Client
<1>3. DownSide(e)
  BY DEF DownSide
<1>4. DownGoesOn(e)
  BY DEF DownGoesOn
<1> QED
  BY <1>1, <1>2, <1>3, <1>4 DEF ClientInv

\* client_socks_recv_send_out(): it has aborted the client, or lwIP has taken k
\* bytes of the receive buffer.
SentOut(d, k, e) ==
  IF e.client_closed
  THEN /\ ClientInv(e) /\ SameUp(d, e) /\ e.mem # "none" /\ e.pcb = "gone"
       /\ e.socks_closed <=> d.socks_closed \/ d.buf = <<>>
  ELSE /\ e \in Client /\ SameUp(d, e) /\ SameSocks(d, e)
       /\ e.mem = d.mem /\ e.pcb = d.pcb /\ e.cb = d.cb /\ e.socks_up = d.socks_up
       /\ e.client_closed = d.client_closed /\ e.killed = d.killed
       /\ e.recv_buf = d.recv_buf /\ e.pending = d.pending + k
       /\ e.snd = d.snd \o Chunk(d, k) /\ Len(e.snd) = Len(d.snd) + k
       /\ e.sent = d.sent + k
       /\ IF d.sent + k < d.used THEN e.used = d.used /\ e.waiting /\ e.pending # 0
          ELSE e.used = -1

\* What client_socks_recv_send_out() does, whether tcp_write() fails or not.
LEMMA SendOut ==
  ASSUME NEW d \in Client, Sides(d), UpSide(d), DownSide(d), d.mem = "live", ~d.client_closed,
         d.used # -1, d.socks_up, ~d.receiving, NEW k \in Nat, d.sent + k <= d.used, NEW fails \in BOOLEAN
  PROVE  SentOut(d, k, client_socks_recv_send_out(d, k, fails))
<1> DEFINE f == Enqueued(d, k)
           e == client_socks_recv_send_out(d, k, fails)
<1>1. /\ f \in Client /\ SameUp(d, f) /\ SameSocks(d, f)
      /\ f.mem = d.mem /\ f.pcb = d.pcb /\ f.cb = d.cb /\ f.socks_up = d.socks_up
      /\ f.client_closed = d.client_closed /\ f.killed = d.killed
      /\ f.recv_buf = d.recv_buf /\ f.used = d.used /\ f.waiting = d.waiting
      /\ f.sent = d.sent + k /\ f.pending = d.pending + k
      /\ f.snd = d.snd \o Chunk(d, k) /\ Len(f.snd) = Len(d.snd) + k
  <2>1. d.sent + k <= Len(d.recv_buf)
    BY DEF DownSide
  <2> QED
    BY <2>1, Enqueue
<1>2. e = IF fails \/ (f.sent < f.used /\ f.pending = 0) THEN client_abort_client(f)
          ELSE IF f.sent < f.used THEN [f EXCEPT !.waiting = TRUE]
          ELSE [f EXCEPT !.used = -1]
  BY DEF client_socks_recv_send_out, Enqueued
<1> HIDE DEF f, e
<1> SUFFICES SentOut(d, k, e)
  BY DEF e
<1>3. CASE fails \/ (f.sent < f.used /\ f.pending = 0)
  <2>1. ClientFreed(f, e)
    BY <1>1, <1>2, <1>3, FreeClient
  <2>2. Sides(f)
    BY <1>1 DEF Sides, SameSocks, SocksFreed
  <2>3. UpSide(f)
    BY <1>1 DEF UpSide, SameUp, SameSocks
  <2>4. DownSide(f)
    BY <1>1 DEF DownSide, SameSocks, Client
  <2>5. ClientInv(e)
    BY <1>1, <2>1, <2>2, <2>3, <2>4, FreeClientInv
  <2> QED
    BY SMT, <1>1, <2>1, <2>5 DEF SentOut, ClientFreed, SameUp, SameSocks, SocksFreed
<1>4. CASE ~(fails \/ (f.sent < f.used /\ f.pending = 0)) /\ f.sent < f.used
  <2>1. e = [f EXCEPT !.waiting = TRUE]
    BY <1>2, <1>4
  <2> QED
    BY ZenonT(60), <1>1, <1>4, <2>1 DEF SentOut, Client, SameUp, SameSocks
<1>5. CASE ~(fails \/ (f.sent < f.used /\ f.pending = 0)) /\ ~(f.sent < f.used)
  <2>1. PICK i \in Int : i = -1
    BY SMT
  <2>2. e = [f EXCEPT !.used = i]
    BY <1>2, <1>5, <2>1
  <2>3. /\ e \in Client /\ SameUp(f, e) /\ SameSocks(f, e)
        /\ e.mem = f.mem /\ e.pcb = f.pcb /\ e.cb = f.cb /\ e.socks_up = f.socks_up
        /\ e.client_closed = f.client_closed /\ e.killed = f.killed
        /\ e.recv_buf = f.recv_buf /\ e.pending = f.pending /\ e.snd = f.snd
        /\ e.sent = f.sent /\ e.used = i
    BY <1>1, <2>2 DEF Client, SameUp, SameSocks
  <2> QED
    <3>1. ~e.client_closed /\ ~(d.sent + k < d.used)
      BY <1>1, <1>5, <2>3
    <3>2. SameUp(d, e) /\ SameSocks(d, e)
      BY <1>1, <2>3 DEF SameUp, SameSocks
    <3> QED
      BY <1>1, <2>1, <2>3, <3>1, <3>2 DEF SentOut
<1> QED
  BY <1>3, <1>4, <1>5

\* The handlers offer lwIP what its send buffer has room for.
LEMMA RoomIsThere ==
  ASSUME NEW d \in Client, NEW k \in {0, Room(d)}, d.sent <= d.used,
         d.pending = Len(d.snd), d.pending <= TCP_SND_BUF
  PROVE  k \in Nat /\ d.sent + k <= d.used /\ d.pending + k <= TCP_SND_BUF
<1>1. TCP_SND_BUF \in Nat /\ d.used \in Int /\ d.sent \in Nat /\ Len(d.snd) \in Nat
  BY SizesArePositive, LenProperties DEF Client
<1> QED
  BY SMT, <1>1 DEF Room, Min

\* After client_socks_recv_send_out() and what follows it: the bytes are those
\* that were there, in the same order.
WentOn(d, f) ==
  /\ ClientInv(f) /\ SameUp(d, f) /\ ~f.client_closed /\ f.mem = d.mem
  /\ f.socks = d.socks /\ f.socks_closed = d.socks_closed
  /\ f.snd \o UnsentOf(f) = d.snd \o UnsentOf(d)

\* After it the receive buffer waits for an acknowledgement, or is being filled again.
LEMMA SentOutInv ==
  ASSUME NEW d \in Client, Sides(d), UpSide(d), DownSide(d), d.mem = "live", ~d.client_closed,
         d.used # -1, d.socks_up, d.pending = Len(d.snd), d.pending <= TCP_SND_BUF,
         NEW k \in {0, Room(d)}, NEW e, SentOut(d, k, e), ~e.client_closed
  PROVE  WentOn(d, ContinueReceiving(e))
<1> DEFINE f == ContinueReceiving(e)
<1>1. /\ k \in Nat /\ d.sent + k <= d.used /\ d.pending + k <= TCP_SND_BUF
      /\ d.used = Len(d.recv_buf) /\ d.used > 0 /\ ~d.receiving
  BY RoomIsThere DEF DownSide
<1>2. /\ e \in Client /\ SameUp(d, e) /\ SameSocks(d, e)
      /\ e.mem = d.mem /\ e.pcb = d.pcb /\ e.cb = d.cb /\ e.socks_up = d.socks_up
      /\ e.client_closed = d.client_closed /\ e.killed = d.killed
      /\ e.recv_buf = d.recv_buf /\ e.pending = d.pending + k
      /\ e.snd = d.snd \o Chunk(d, k) /\ Len(e.snd) = Len(d.snd) + k
      /\ e.sent = d.sent + k
      /\ IF d.sent + k < d.used THEN e.used = d.used /\ e.waiting /\ e.pending # 0
         ELSE e.used = -1
  BY DEF SentOut
<1>3. /\ f \in Client /\ SameUp(e, f) /\ SameDown(e, f)
      /\ f.mem = e.mem /\ f.pcb = e.pcb /\ f.cb = e.cb /\ f.socks_up = e.socks_up
      /\ f.client_closed = e.client_closed /\ f.killed = e.killed
      /\ f.socks = e.socks /\ f.socks_closed = e.socks_closed /\ f.sending = e.sending
      /\ f.receiving <=> f.used = -1 /\ ~f.socks_closed
  <2>1. CASE e.used = -1 /\ ~e.socks_closed
    BY <1>2, <2>1 DEF ContinueReceiving, client_socks_recv_initiate, Client, SameUp, SameDown
  <2>2. CASE ~(e.used = -1 /\ ~e.socks_closed)
    BY <1>1, <1>2, <2>2 DEF ContinueReceiving, SameUp, SameDown, SameSocks
  <2> QED
    BY <2>1, <2>2
<1> HIDE DEF f
<1>4. Sides(f)
  BY SMT, <1>2, <1>3 DEF Sides, SocksFreed, SameSocks, SameDown
<1>5. UpSide(f)
  BY SMT, <1>2, <1>3 DEF UpSide, SameUp, SameSocks
<1>6. DownSide(f)
  <2>1. /\ f.socks_up /\ f.socks = d.socks /\ f.mem = "live" /\ f.sent = e.sent /\ f.used = e.used
        /\ f.recv_buf = d.recv_buf /\ e.sent = d.sent + k
        /\ IF d.sent + k < d.used THEN e.used = d.used ELSE e.used = -1
    BY <1>2, <1>3 DEF SameDown, SameSocks
  <2>2. f.socks # "connecting" /\ f.socks \in {"connecting", "up", "down"} /\ d.sent \in Nat
    BY <1>3, <2>1 DEF DownSide, Client
  <2>3. f.receiving => f.used = -1 /\ f.socks = "up"
    BY <1>3, <1>4, <2>1, <2>2 DEF Sides
  <2>4. f.used # -1 => f.used > 0 /\ f.used = Len(f.recv_buf) /\ f.sent <= f.used
    BY <1>1, <2>1, <2>2
  <2> QED
    BY <2>1, <2>2, <2>3, <2>4 DEF DownSide
<1>7. DownGoesOn(f)
  <2>1. Len(d.snd) \in Nat
    BY LenProperties DEF Client
  <2> QED
    <3>1. f.pending = Len(f.snd) /\ f.pending <= TCP_SND_BUF /\ f.pending \in Nat
      BY SMT, <1>1, <1>2, <1>3, <2>1 DEF SameDown
    <3>2. f.socks = "up" /\ f.used = -1 => f.receiving
      BY <1>3, <1>4 DEF Sides, SocksFreed
    <3>3. f.used # -1 => f.waiting /\ f.sent < f.used /\ f.pending > 0
      BY SMT, <1>2, <1>3, <3>1 DEF SameDown
    <3> QED
      BY <3>1, <3>2, <3>3 DEF DownGoesOn
<1>8. f.snd \o UnsentOf(f) = d.snd \o UnsentOf(d)
  <2>1. d.recv_buf \in Seq(Bytes) /\ d.snd \in Seq(Bytes) /\ d.sent \in Nat
    BY DEF Client
  <2>2. d.sent + k <= Len(d.recv_buf) /\ d.sent + k \in Nat
    BY SMT, <1>1, <2>1
  <2>3. Chunk(d, k) \o Drop(d.recv_buf, d.sent + k) = Drop(d.recv_buf, d.sent)
        /\ Chunk(d, k) \in Seq(Bytes)
    <3> DEFINE q == d.recv_buf
               m == d.sent
    <3>1. q \in Seq(Bytes) /\ m \in Nat /\ k \in Nat /\ m + k <= Len(q)
      BY <1>1, <2>1, <2>2
    <3> HIDE DEF q, m
    <3>2. /\ SubSeq(q, m + 1, m + k) \o Drop(q, m + k) = Drop(q, m)
          /\ SubSeq(q, m + 1, m + k) \in Seq(Bytes)
      BY ZenonT(60), <3>1, Extend
    <3> QED
      BY <3>2 DEF Chunk, q, m
  <2>4. UnsentOf(d) = Drop(d.recv_buf, d.sent)
    BY <1>1 DEF UnsentOf
  <2>5. /\ Drop(d.recv_buf, d.sent + k) \in Seq(Bytes)
        /\ Len(Drop(d.recv_buf, d.sent + k)) = Len(d.recv_buf) - (d.sent + k)
    BY ZenonT(60), <2>1, <2>2, Cut
  <2>6. UnsentOf(f) = Drop(d.recv_buf, d.sent + k)
    <3>1. CASE d.sent + k < d.used
      BY <1>1, <1>2, <1>3, <3>1 DEF UnsentOf, SameDown
    <3>2. CASE ~(d.sent + k < d.used)
      <4>1. Len(Drop(d.recv_buf, d.sent + k)) = 0
        BY SMT, <1>1, <2>1, <2>5, <3>2 DEF Client
      <4>2. Drop(d.recv_buf, d.sent + k) = <<>>
        BY <2>5, <4>1, EmptySeq
      <4> QED
        BY <1>2, <1>3, <3>2, <4>2 DEF UnsentOf, SameDown
    <3> QED
      BY <3>1, <3>2
  <2>7. (d.snd \o Chunk(d, k)) \o Drop(d.recv_buf, d.sent + k)
          = d.snd \o (Chunk(d, k) \o Drop(d.recv_buf, d.sent + k))
    <3> DEFINE x == d.snd
               y == Chunk(d, k)
               z == Drop(d.recv_buf, d.sent + k)
    <3>1. x \in Seq(Bytes) /\ y \in Seq(Bytes) /\ z \in Seq(Bytes)
      BY <2>1, <2>3, <2>5
    <3> HIDE DEF x, y, z
    <3>2. (x \o y) \o z = x \o (y \o z)
      BY SMT, <3>1, ConcatAssociative
    <3> QED
      BY <3>2 DEF x, y, z
  <2> QED
    BY <1>2, <1>3, <2>3, <2>4, <2>6, <2>7 DEF SameDown
<1> QED
  BY <1>2, <1>3, <1>4, <1>5, <1>6, <1>7, <1>8 DEF WentOn, ClientInv, SameUp, SameSocks, f
-----------------------------------------------------------------------------
(* Every action of TcpClient preserves the invariant.                         *)

\* A step that moves no byte in one direction.
LEMMA UpStays ==
  ASSUME UpFlow, upNext' = upNext, upGot' = upGot, c'.buf = c.buf, farLost => farLost',
         ~farLost' /\ c'.socks_closed => c'.buf = <<>> /\ c'.client_closed
  PROVE  UpFlow'
BY DEF UpFlow

\* A step that leaves the second pipe alone keeps DownFlow.
LEMMA DownStays ==
  ASSUME DownFlow, downNext' = downNext, downGot' = downGot, SameDown(c, c'), appLost => appLost',
         ~appLost' /\ c'.client_closed => c'.snd = <<>> /\ c'.used = -1 /\ c'.socks_closed
  PROVE  DownFlow'
BY DEF DownFlow, Unsent, SameDown

\* A client that listener_accept_func() has just set up satisfies the invariant.
LEMMA AcceptedInv == ClientInv(Accepted)
<1>1. Accepted \in Client
  BY SMT, SizesArePositive, EmptySeq DEF Accepted, Client
<1>2. Sides(Accepted)
  BY DEF Accepted, Sides, SocksFreed
<1>3. UpSide(Accepted)
  BY SMT, SizesArePositive, EmptySeq DEF Accepted, UpSide
<1>4. DownSide(Accepted) /\ DownGoesOn(Accepted)
  BY SMT, SizesArePositive, EmptySeq DEF Accepted, DownSide, DownGoesOn
<1> QED
  BY <1>1, <1>2, <1>3, <1>4 DEF ClientInv

\* Before the accept the invariant holds.
LEMMA InitIInv == Init => IInv
<1> SUFFICES ASSUME Init PROVE IInv
  OBVIOUS
<1> DEFINE a == Accepted
<1>1. a \in Client /\ Sides(a) /\ UpSide(a) /\ DownSide(a) /\ DownGoesOn(a)
  BY AcceptedInv DEF ClientInv
<1>2. /\ a.pcb = "open" /\ a.buf = <<>> /\ ~a.socks_up /\ ~a.socks_closed /\ ~a.client_closed
      /\ a.snd = <<>> /\ a.used = -1
  BY DEF Accepted
<1> HIDE DEF a
<1>3. /\ c \in Client /\ SameUp(a, c) /\ SameDown(a, c) /\ SameSocks(a, c) /\ c.socks_up = a.socks_up
      /\ c.pcb = a.pcb /\ c.client_closed = a.client_closed /\ c.killed = a.killed
      /\ c.mem = "none" /\ c.cb = {}
  <2>1. c = [a EXCEPT !.mem = "none", !.cb = {}]
    BY DEF Init, a
  <2> QED
    BY <1>1, <2>1 DEF Client, SameUp, SameDown, SameSocks
<1>4. Sides(c)
  BY <1>1, <1>2, <1>3 DEF Sides, SocksFreed, SameSocks
<1>5. UpSide(c)
  BY <1>1, <1>2, <1>3 DEF UpSide, SameUp, SameSocks
<1>6. DownSide(c) /\ DownGoesOn(c)
  BY <1>1, <1>2, <1>3 DEF DownSide, DownGoesOn, SameDown, SameSocks
<1>7. Returned
  BY DEF Init, Returned, ReturnTellsLwip
<1>8. upNext = 0 /\ upGot = <<>> /\ downNext = 0 /\ downGot = <<>>
  BY DEF Init
<1>9. UpFlow
  <2>1. <<>> \in Seq(Bytes) /\ Len(UpData) \in Nat
    BY DataAssumption, EmptySeq, LenProperties
  <2>2. SubSeq(UpData, 1, 0) = <<>>
    BY DataAssumption, Nothing
  <2>3. <<>> \o <<>> = <<>>
    BY <2>1, ConcatEmptySeq, SMT
  <2> QED
    BY SMT, <1>2, <1>3, <1>8, <2>1, <2>2, <2>3 DEF UpFlow, SameUp, SameSocks
<1>10. DownFlow
  <2>1. <<>> \in Seq(Bytes) /\ Len(DownData) \in Nat
    BY DataAssumption, EmptySeq, LenProperties
  <2>2. SubSeq(DownData, 1, 0) = <<>>
    BY DataAssumption, Nothing
  <2>3. <<>> \o <<>> = <<>>
    BY <2>1, ConcatEmptySeq, SMT
  <2> QED
    BY SMT, <1>2, <1>3, <1>8, <2>1, <2>2, <2>3 DEF DownFlow, Unsent, SameDown
<1> QED
  BY <1>3, <1>4, <1>5, <1>6, <1>7, <1>9, <1>10 DEF Init, IInv, ClientInv

\* listener_accept_func() keeps the invariant.
LEMMA Accept == ASSUME IInv, listener_accept_func PROVE IInv' /\ PipeStep
<1> USE DEF IInv, ClientInv
<1>1. c.mem = "none" /\ c.pcb = "open" /\ c.cb = {} /\ ~c.client_closed /\ ~c.socks_closed
      /\ c.buf = <<>> /\ c.snd = <<>> /\ c.used = -1 /\ ~c.socks_up
      /\ UNCHANGED <<upNext, upGot, downNext, downGot, fin, appLost, farLost>>
  BY DEF listener_accept_func, Sides, UpSide, DownSide
<1>2. CASE c' = Accepted /\ Executes("accept")
  <2>1. ClientInv(c')
    BY <1>2, AcceptedInv
  <2>2. /\ c'.buf = <<>> /\ c'.snd = <<>> /\ c'.used = -1 /\ ~c'.socks_closed /\ ~c'.client_closed
        /\ c'.mem = "live"
    BY <1>2 DEF Accepted
  <2>3. UpFlow'
    BY <1>1, <2>2, UpStays
  <2>4. DownFlow'
    BY SMT, <1>1, <2>2 DEF DownFlow, Unsent
  <2>5. Returned'
    BY <1>2, <2>2 DEF Executes, Returned, ReturnTellsLwip
  <2>6. PipeStep
    BY SMT, <1>1, <2>2, Stutters DEF SameEnds, UpOf, DownOf, UnsentOf
  <2> QED
    BY <1>1, <2>1, <2>3, <2>4, <2>5, <2>6
<1>3. CASE c' = [c EXCEPT !.pcb = "gone", !.socks = "down"] /\ Returns("MEM")
  <2>1. /\ c' \in Client /\ SameUp(c, c') /\ SameDown(c, c') /\ c'.pcb = "gone" /\ c'.socks = "down"
        /\ c'.mem = c.mem /\ c'.cb = c.cb /\ c'.client_closed = c.client_closed
        /\ c'.killed = c.killed /\ c'.socks_up = c.socks_up /\ c'.socks_closed = c.socks_closed
        /\ c'.sending = c.sending /\ c'.receiving = c.receiving
    BY <1>3 DEF Client, SameUp, SameDown
  <2>2. Sides(c')
    BY <1>1, <2>1 DEF Sides
  <2>3. c.sending = 0 /\ ~c.receiving
    BY SMT, <1>1, EmptySeq DEF UpSide, DownSide, Client
  <2>4. UpSide(c') /\ DownSide(c')
    BY <1>1, <2>1, <2>3 DEF UpSide, DownSide, SameUp, SameDown
  <2>5. DownGoesOn(c')
    BY <1>1, <2>1 DEF DownGoesOn, SameDown
  <2>6. UpFlow' /\ DownFlow'
    BY <1>1, <2>1, UpStays, DownStays DEF SameUp
  <2>7. Returned'
    BY <1>3 DEF Returns, Returned, ReturnTellsLwip
  <2>8. PipeStep
    BY <1>1, <2>1, Stutters DEF SameEnds, UpOf, DownOf, UnsentOf, SameUp, SameDown
  <2> QED
    BY <1>1, <2>1, <2>2, <2>4, <2>5, <2>6, <2>7, <2>8
<1> QED
  BY <1>2, <1>3 DEF listener_accept_func

\* The return of a callback to lwIP keeps the invariant.
LEMMA CallReturnsInv == ASSUME IInv, CallReturns PROVE IInv' /\ PipeStep
<1>1. c' = c /\ UNCHANGED <<upNext, upGot, downNext, downGot, fin, appLost, farLost>>
  BY DEF CallReturns
<1>2. UpFlow' /\ DownFlow'
  BY <1>1 DEF IInv, UpFlow, DownFlow, Unsent
<1>3. Returned'
  BY <1>1 DEF IInv, ClientInv, Sides, Client, Returned, ReturnTellsLwip, CallReturns, Returns
<1>4. PipeStep
  BY <1>1, Stutters DEF SameEnds
<1> QED
  BY <1>1, <1>2, <1>3, <1>4 DEF IInv

\* A change of the direction from the app alone.
UpChanged(d, w, b, i) == [d EXCEPT !.wnd = w, !.buf = b, !.sending = i]

\* Changing window, buffer and the number of bytes being sent leaves the rest of a client.
LEMMA ChangeUp ==
  ASSUME NEW d \in Client, NEW w \in Int, NEW b \in Seq(Bytes), NEW i \in Nat
  PROVE  LET e == UpChanged(d, w, b, i) IN
         /\ e \in Client /\ SameDown(d, e) /\ e.socks_up = d.socks_up
         /\ e.mem = d.mem /\ e.pcb = d.pcb /\ e.cb = d.cb
         /\ e.client_closed = d.client_closed /\ e.killed = d.killed
         /\ e.socks = d.socks /\ e.socks_closed = d.socks_closed /\ e.receiving = d.receiving
         /\ e.wnd = w /\ e.buf = b /\ e.sending = i
BY ZenonT(60) DEF Client, SameDown, UpChanged

\* client_recv_func() with data keeps the invariant.
LEMMA Receive == ASSUME IInv, client_recv_func PROVE IInv' /\ PipeStep
<1>1. /\ c \in Client /\ Sides(c) /\ UpSide(c) /\ DownSide(c) /\ DownGoesOn(c)
      /\ Returned /\ UpFlow /\ DownFlow /\ appLost \in BOOLEAN /\ farLost \in BOOLEAN
  BY DEF IInv, ClientInv
<1>2. /\ c.mem = "live" /\ c.pcb = "open" /\ "recv" \in c.cb
      /\ UNCHANGED <<upGot, downNext, downGot, fin, appLost, farLost>>
  BY DEF client_recv_func, LwipCalls
<1>3. ~c.client_closed /\ ~c.socks_closed /\ c.socks # "down"
  BY <1>1, <1>2 DEF Sides
<1>4. c.wnd \in Nat /\ c.wnd + Len(c.buf) = TCP_WND /\ TCP_WND \in Nat /\ Len(c.buf) \in Nat
      /\ upNext \in Nat /\ Len(UpData) \in Nat /\ upNext <= Len(UpData)
  BY SMT, <1>1, <1>2, SizesArePositive, DataAssumption, LenProperties DEF UpSide, Client, UpFlow
<1>5. PICK n \in Nat : n > 0 /\ n <= c.wnd /\ upNext + n <= Len(UpData) /\
        LET d == [c EXCEPT !.wnd = @ - n,
                           !.buf = @ \o SubSeq(UpData, upNext + 1, upNext + n)]
        IN /\ upNext' = upNext + n
           /\ IF n > TCP_WND - Len(c.buf) THEN c' = [c EXCEPT !.wnd = @ - n] /\ Returns("MEM")
              ELSE IF c.buf = <<>> /\ c.socks_up
              THEN c' = client_send_to_socks(d) /\ Executes("recv")
              ELSE c' = d /\ Returns("OK")
  <2>1. \A n \in 1 .. Min(c.wnd, Len(UpData) - upNext) :
          n \in Nat /\ n > 0 /\ n <= c.wnd /\ upNext + n <= Len(UpData)
    BY SMT, <1>4 DEF Min
  <2> QED
    BY <2>1 DEF client_recv_func
<1>6. n \in Nat /\ n > 0 /\ n <= c.wnd /\ upNext + n <= Len(UpData)
  BY <1>5
<1> DEFINE x == SubSeq(UpData, upNext + 1, upNext + n)
<1>7. x \in Seq(Bytes) /\ Len(x) = n
      /\ SubSeq(UpData, 1, upNext) \o x = SubSeq(UpData, 1, upNext + n)
  BY SMT, <1>4, <1>6, DataAssumption, Extend
<1>8. PICK w \in Nat, b \in Seq(Bytes) :
        /\ w = c.wnd - n /\ b = c.buf \o x
        /\ Len(b) = Len(c.buf) + n /\ b # <<>>
  <2>1. c.buf \in Seq(Bytes)
    BY <1>1 DEF Client
  <2>2. c.buf \o x \in Seq(Bytes) /\ Len(c.buf \o x) = Len(c.buf) + Len(x)
    BY <1>7, <2>1, ConcatProperties
  <2>3. c.wnd - n \in Nat /\ Len(c.buf) + n # 0
    BY SMT, <1>4, <1>6
  <2> QED
    BY <1>7, <2>2, <2>3, EmptySeq
<1>9. /\ w \in Int /\ b \in Seq(Bytes) /\ w = c.wnd - n /\ Len(b) = Len(c.buf) + n /\ b # <<>>
      /\ ~(n > TCP_WND - Len(c.buf))
  <2>1. ~(n > TCP_WND - Len(c.buf))
    BY SMT, <1>4, <1>6
  <2> QED
    BY SMT, <1>8, <2>1
<1>10. PICK i \in Nat :
         /\ i = IF c.buf = <<>> /\ c.socks_up THEN Len(b) ELSE c.sending
         /\ c' = [c EXCEPT !.wnd = w, !.buf = b, !.sending = i]
         /\ IF c.buf = <<>> /\ c.socks_up THEN Executes("recv") ELSE Returns("OK")
  <2> DEFINE d == [c EXCEPT !.wnd = @ - n, !.buf = @ \o x]
  <2>1. d = [c EXCEPT !.wnd = w, !.buf = b]
    BY <1>8
  <2>2. IF c.buf = <<>> /\ c.socks_up THEN c' = [d EXCEPT !.sending = Len(d.buf)] /\ Executes("recv")
        ELSE c' = d /\ Returns("OK")
    BY <1>5, <1>9 DEF client_send_to_socks
  <2> HIDE DEF d
  <2>3. c \in Client /\ Len(b) \in Nat /\ c.sending \in Nat
    BY <1>1, <1>9, LenProperties DEF Client
  <2>4. d.buf = b
    BY <2>1, <2>3 DEF Client
  <2>5. [d EXCEPT !.sending = Len(d.buf)] = [c EXCEPT !.wnd = w, !.buf = b, !.sending = Len(b)]
    BY <2>1, <2>3, <2>4
  <2>6. d = [c EXCEPT !.wnd = w, !.buf = b, !.sending = c.sending]
    BY <2>1, <2>3 DEF Client
  <2>7. CASE c.buf = <<>> /\ c.socks_up
    BY <2>2, <2>3, <2>5, <2>7
  <2>8. CASE ~(c.buf = <<>> /\ c.socks_up)
    BY <2>2, <2>3, <2>6, <2>8
  <2> QED
    BY <2>7, <2>8
<1> HIDE DEF x
<1>11. /\ c' \in Client /\ SameDown(c, c') /\ c'.socks_up = c.socks_up
       /\ c'.mem = c.mem /\ c'.pcb = c.pcb /\ c'.cb = c.cb
       /\ c'.client_closed = c.client_closed /\ c'.killed = c.killed
       /\ c'.socks = c.socks /\ c'.socks_closed = c.socks_closed /\ c'.receiving = c.receiving
       /\ c'.wnd = w /\ c'.buf = b
       /\ c'.sending = IF c.buf = <<>> /\ c.socks_up THEN Len(b) ELSE c.sending
  <2>1. c \in Client /\ w \in Int /\ b \in Seq(Bytes) /\ i \in Nat
    BY <1>1, <1>9
  <2>2. /\ c' = [c EXCEPT !.wnd = w, !.buf = b, !.sending = i]
        /\ i = IF c.buf = <<>> /\ c.socks_up THEN Len(b) ELSE c.sending
    BY SMT, <1>10
  <2> DEFINE e == UpChanged(c, w, b, i)
  <2>3. /\ e \in Client /\ SameDown(c, e) /\ e.socks_up = c.socks_up
        /\ e.mem = c.mem /\ e.pcb = c.pcb /\ e.cb = c.cb
        /\ e.client_closed = c.client_closed /\ e.killed = c.killed
        /\ e.socks = c.socks /\ e.socks_closed = c.socks_closed /\ e.receiving = c.receiving
        /\ e.wnd = w /\ e.buf = b /\ e.sending = i
    BY <2>1, ChangeUp, SMT
  <2>4. c' = e
    BY <2>2 DEF UpChanged
  <2> HIDE DEF e
  <2> QED
    BY <2>2, <2>3, <2>4
<1>12. Sides(c')
  BY <1>1, <1>2, <1>3, <1>11 DEF Sides
<1>13. UpSide(c')
  <2>1. c'.wnd + Len(c'.buf) = TCP_WND /\ c'.sending <= Len(c'.buf)
    <3>1. c.sending <= Len(c.buf) /\ c.sending \in Nat
      BY <1>1 DEF UpSide, Client
    <3>2. c'.wnd = c.wnd - n /\ Len(c'.buf) = Len(c.buf) + n
      BY <1>9, <1>11
    <3>3. c'.sending = Len(c'.buf) \/ c'.sending = c.sending
      BY <1>11
    <3>4. c'.wnd + Len(c'.buf) = TCP_WND
      BY SMT, <1>4, <1>6, <3>2
    <3>5. c'.sending <= Len(c'.buf)
      BY SMT, <1>4, <1>6, <3>1, <3>2, <3>3
    <3> QED
      BY <3>4, <3>5
  <2>2. c'.sending > 0 => c'.socks = "up"
    BY <1>1, <1>3, <1>11 DEF UpSide, DownSide, Client
  <2>3. c'.socks = "up" => c'.sending > 0
    BY SMT, <1>1, <1>2, <1>4, <1>6, <1>9, <1>11 DEF UpSide, DownSide
  <2> QED
    BY <1>2, <1>11, <2>1, <2>2, <2>3 DEF UpSide
<1>14. DownSide(c') /\ DownGoesOn(c')
  BY <1>1, <1>11 DEF DownSide, DownGoesOn, SameDown
<1>15. UpFlow'
  <2>1. c.buf \in Seq(Bytes) /\ upGot \in Seq(Bytes)
    BY <1>1 DEF Client, UpFlow
  <2>2. upGot \o (c.buf \o x) = (upGot \o c.buf) \o x
    <3> DEFINE y == c.buf
    <3>1. upGot \in Seq(Bytes) /\ y \in Seq(Bytes) /\ x \in Seq(Bytes)
      BY <1>7, <2>1
    <3> HIDE DEF y
    <3>2. (upGot \o y) \o x = upGot \o (y \o x)
      BY SMT, <3>1, ConcatAssociative
    <3> QED
      BY <3>2 DEF y
  <2>3. upNext' = upNext + n /\ upGot' = upGot /\ upNext' \in 0 .. Len(UpData)
    BY SMTT(60), <1>2, <1>4, <1>5, <1>6
  <2>4. ~farLost => upGot \o c'.buf = SubSeq(UpData, 1, upNext + n)
    BY <1>1, <1>7, <1>8, <1>11, <2>2 DEF UpFlow, x
  <2> QED
    BY <1>2, <1>3, <1>11, <2>1, <2>3, <2>4 DEF UpFlow
<1>16. DownFlow'
  BY <1>1, <1>2, <1>3, <1>11, DownStays
<1>17. Returned'
  BY <1>1, <1>2, <1>10, <1>11 DEF Returned, ReturnTellsLwip, Returns, Executes
<1>18. PipeStep
  <2>1. UpOf(c) = c.buf /\ UpOf(c') = c.buf \o x /\ DownOf(c') = DownOf(c) /\ SameEnds
    BY <1>3, <1>8, <1>11 DEF UpOf, DownOf, UnsentOf, SameDown, SameEnds
  <2>2. upNext + n \in upNext + 1 .. Len(UpData) /\ upNext' = upNext + n
    BY SMTT(60), <1>4, <1>5, <1>6
  <2> QED
    BY <1>2, <1>3, <2>1, <2>2, AppSends DEF x
<1> QED
  BY <1>1, <1>2, <1>11, <1>12, <1>13, <1>14, <1>15, <1>16, <1>17, <1>18 DEF IInv, ClientInv

\* The receive of lwIP without a callback of the client keeps the invariant.
LEMMA ReceiveNull == ASSUME IInv, tcp_recv_null PROVE IInv' /\ PipeStep
<1>1. /\ c' = c /\ call' = call /\ ret' = "none"
      /\ UNCHANGED <<upGot, downNext, downGot, fin, appLost, farLost>>
  BY DEF tcp_recv_null
<1>2. farLost /\ c.socks_closed /\ ~c.client_closed
  BY DEF IInv, ClientInv, Sides, UpFlow, tcp_recv_null
<1>3. upNext' \in upNext + 1 .. Len(UpData) /\ upNext' \in 0 .. Len(UpData)
  <2>1. c.wnd \in Int /\ upNext \in Nat /\ Len(UpData) \in Nat
    BY SMT, DataAssumption, LenProperties DEF IInv, ClientInv, Client, UpFlow
  <2> QED
    BY SMT, <2>1 DEF tcp_recv_null, Min
<1>4. UpFlow'
  BY <1>1, <1>2, <1>3 DEF IInv, UpFlow
<1>5. DownFlow' /\ Returned'
  BY <1>1 DEF IInv, DownFlow, Unsent, Returned, ReturnTellsLwip
<1>6. PipeStep
  BY <1>1, <1>2, <1>3, AppSends DEF SameEnds, UpOf
<1> QED
  BY <1>1, <1>4, <1>5, <1>6 DEF IInv

\* What is on its way to the app.
LEMMA DownTyped ==
  ASSUME NEW d, ClientInv(d) PROVE UnsentOf(d) \in Seq(Bytes) /\ DownOf(d) \in Seq(Bytes)
<1>1. UnsentOf(d) \in Seq(Bytes)
  <2>1. CASE d.used > 0
    <3>1. d.recv_buf \in Seq(Bytes) /\ d.sent \in Nat /\ d.sent <= Len(d.recv_buf)
      BY SMT, <2>1 DEF ClientInv, DownSide, Client
    <3> QED
      BY <2>1, <3>1, Cut DEF UnsentOf
  <2>2. CASE ~(d.used > 0)
    BY <2>2, EmptySeq DEF UnsentOf
  <2> QED
    BY <2>1, <2>2
<1>2. d.snd \in Seq(Bytes)
  BY DEF ClientInv, Client
<1>3. d.snd \o UnsentOf(d) \in Seq(Bytes)
  BY <1>1, <1>2, ConcatProperties
<1> QED
  BY <1>1, <1>3, EmptySeq DEF DownOf

\* The app closes or resets.
LEMMA AppGoes ==
  ASSUME IInv, c.mem = "live", ~c.client_closed, ClientFreed(c, c'), appLost' = TRUE,
         UNCHANGED <<upNext, upGot, downNext, downGot, farLost>>
  PROVE  ClientInv(c') /\ UpFlow' /\ DownFlow' /\ c'.pcb = "gone" /\ c'.mem # "none" /\ PipeStep
<1>1. ClientInv(c')
  BY FreeClientInv DEF IInv, ClientInv
<1>2. UpFlow'
  BY UpStays DEF IInv, UpFlow, ClientFreed, SameUp, SameSocks
<1>3. DownFlow'
  BY DownStays DEF IInv, ClientFreed
<1>4. PipeStep
  <2>1. DownOf(c) \in Seq(Bytes) /\ downGot \in Seq(Bytes) /\ downNext \in Nat /\ Len(DownData) \in Nat
        /\ downNext <= Len(DownData)
    BY SMT, DownTyped, DataAssumption, LenProperties DEF IInv, DownFlow
  <2>2. downGot' = downGot \o SubSeq(DownOf(c), 1, 0) /\ 0 \in 0 .. Len(DownOf(c))
    BY SMT, <2>1, Nothing, ConcatEmptySeq, LenProperties
  <2>3. downNext' \in downNext .. Len(DownData)
    BY SMT, <2>1
  <2>4. /\ c.client_closed \in BOOLEAN /\ c.socks_closed \in BOOLEAN
        /\ c'.client_closed \in BOOLEAN /\ c'.socks_closed \in BOOLEAN /\ c'.client_closed
        /\ c'.buf = c.buf /\ (c'.socks_closed <=> c.socks_closed \/ c.buf = <<>>)
    BY DEF ClientFreed, SameUp, SameSocks, SocksFreed, IInv, ClientInv, Client
  <2> QED
    BY <2>2, <2>3, <2>4, AppLeaves
<1> QED
  BY <1>1, <1>2, <1>3, <1>4 DEF ClientFreed

\* client_recv_func() at the end of the app's data keeps the invariant.
LEMMA Close == ASSUME IInv, client_recv_func_closed PROVE IInv' /\ PipeStep
<1>1. /\ c.mem = "live" /\ ~c.client_closed /\ c \in Client
      /\ UNCHANGED <<upNext, upGot, downNext, downGot, farLost>>
  BY DEF client_recv_func_closed, IInv, ClientInv, Sides
<1>2. CASE "recv" \in c.cb
  <2>1. c' = client_free_client(c) /\ appLost' = TRUE /\ Returns("ABRT")
    BY <1>2 DEF client_recv_func_closed
  <2>2. ClientInv(c') /\ UpFlow' /\ DownFlow' /\ c'.pcb = "gone" /\ c'.mem # "none" /\ PipeStep
    BY <1>1, <2>1, FreeClient, AppGoes
  <2>3. Returned'
    BY <2>1, <2>2 DEF Returned, ReturnTellsLwip, Returns
  <2> QED
    BY <1>1, <2>1, <2>2, <2>3 DEF IInv
<1>3. CASE "recv" \notin c.cb
  <2>1. c' = c /\ ret' = "none" /\ call' = call /\ appLost' = appLost
    BY <1>3 DEF client_recv_func_closed
  <2>2. UpFlow' /\ DownFlow' /\ Returned'
    BY <1>1, <2>1 DEF IInv, UpFlow, DownFlow, Unsent, Returned, ReturnTellsLwip
  <2>3. PipeStep
    BY <1>1, <2>1, Stutters DEF SameEnds
  <2> QED
    BY <1>1, <2>1, <2>2, <2>3 DEF IInv
<1> QED
  BY <1>2, <1>3

\* client_err_func() keeps the invariant.
LEMMA Reset == ASSUME IInv, client_err_func PROVE IInv' /\ PipeStep
<1>1. /\ c.mem = "live" /\ ~c.client_closed /\ c \in Client
      /\ UNCHANGED <<upNext, upGot, downNext, downGot, farLost>>
  BY DEF client_err_func, LwipCalls, IInv, ClientInv, Sides
<1>2. c' = client_handle_freed_client([c EXCEPT !.pcb = "gone", !.cb = {}])
      /\ appLost' = TRUE /\ ret' = "none" /\ call' = call
  BY DEF client_err_func
<1>3. ClientFreed(c, c')
  BY <1>1, <1>2, FreeClient
<1>4. ClientInv(c') /\ UpFlow' /\ DownFlow' /\ c'.mem # "none" /\ PipeStep
  BY <1>1, <1>2, <1>3, AppGoes
<1>5. Returned'
  BY <1>2, <1>4 DEF IInv, Returned, ReturnTellsLwip
<1> QED
  BY <1>1, <1>2, <1>4, <1>5 DEF IInv

\* client_socks_handler() for an error or a close keeps the invariant.
LEMMA Down == ASSUME IInv, SocksDown PROVE IInv' /\ PipeStep
<1>1. /\ c.mem = "live" /\ c.socks # "down" /\ c \in Client /\ c' = client_free_socks(c)
      /\ farLost' = TRUE /\ ret' = "none" /\ call' = call
      /\ UNCHANGED <<upNext, upGot, downNext, downGot, appLost>>
  BY DEF SocksDown, SocksCalls, IInv, ClientInv
<1>2. ConnectionFreed(c, c')
  BY <1>1, FreeSocks
<1>3. ClientInv(c')
  BY <1>1, <1>2, FreeSocksInv DEF IInv
<1>4. UpFlow'
  BY <1>1, <1>2, UpStays DEF IInv, ConnectionFreed, SameUp
<1>5. ~c.client_closed /\ c'.client_closed => c.snd = <<>> /\ c.used = -1
  <2>1. SUFFICES ASSUME c'.client_closed, ~c.client_closed
                 PROVE  c.snd = <<>> /\ c.used = -1
    OBVIOUS
  <2>2. ~Draining(c)
    BY <1>2, <2>1 DEF ConnectionFreed
  <2>3. c.snd \in Seq(Bytes) /\ Len(c.snd) \in Nat
    BY <1>1, LenProperties DEF Client
  <2>4. c.socks_up => c.used = -1 /\ Len(c.snd) = 0
    BY SMT, <1>1, <2>1, <2>2, <2>3 DEF IInv, ClientInv, DownSide, DownGoesOn, Draining
  <2> QED
    BY <2>3, <2>4, EmptySeq DEF IInv, ClientInv, DownSide
<1>6. ~appLost' /\ c'.client_closed => c'.snd = <<>> /\ c'.used = -1 /\ c'.socks_closed
  BY <1>1, <1>2, <1>5 DEF IInv, DownFlow, ConnectionFreed, SameDown, SocksFreed
<1>7. DownFlow'
  BY <1>1, <1>2, <1>6, DownStays DEF IInv, ConnectionFreed
<1>8. Returned'
  BY <1>1, <1>2 DEF IInv, Returned, ReturnTellsLwip, ConnectionFreed
<1>9. PipeStep
  <2>1. /\ c.client_closed \in BOOLEAN /\ c.socks_closed \in BOOLEAN
        /\ c'.client_closed \in BOOLEAN /\ c'.socks_closed \in BOOLEAN
        /\ ~c.socks_closed /\ c'.socks_closed /\ (c.client_closed => c'.client_closed)
        /\ SameDown(c, c')
    BY <1>1, <1>2 DEF ConnectionFreed, SocksFreed, IInv, ClientInv, Sides, Client
  <2>2. ~c.client_closed /\ c'.client_closed => DownOf(c) = <<>>
    BY SMT, <1>5, ConcatEmptySeq, EmptySeq DEF DownOf, UnsentOf
  <2>3. DownOf(c') = DownOf(c)
    BY <2>1, <2>2 DEF DownOf, UnsentOf, SameDown
  <2> QED
    BY <1>1, <2>1, <2>2, <2>3, FarLeaves
<1> QED
  BY <1>1, <1>3, <1>4, <1>7, <1>8, <1>9 DEF IInv

\* client_murder() keeps the invariant.
LEMMA Murdered == ASSUME IInv, Murder PROVE IInv' /\ PipeStep
<1>1. /\ c.mem = "live" /\ c \in Client /\ c' = client_murder(c)
      /\ farLost' = TRUE /\ appLost' = TRUE /\ ret' = "none" /\ call' = call
      /\ UNCHANGED <<upNext, upGot, downNext, downGot>>
  BY DEF Murder, IInv, ClientInv
<1>2. /\ c' \in Client /\ SameUp(c, c') /\ SameDown(c, c') /\ c'.socks_up = c.socks_up
      /\ c'.mem = "freed" /\ c'.client_closed
      /\ IF c.socks_closed THEN SameSocks(c, c') ELSE SocksFreed(c')
      /\ IF c.client_closed THEN c'.pcb = c.pcb /\ c'.cb = c.cb /\ c'.killed = c.killed
         ELSE c'.pcb = "gone" /\ c'.cb = {} /\ c'.killed
  BY <1>1, MurderClient
<1>3. SocksFreed(c')
  BY <1>1, <1>2 DEF IInv, ClientInv, Sides, SocksFreed, SameSocks
<1>4. Sides(c')
  BY <1>1, <1>2, <1>3 DEF IInv, ClientInv, Sides, SocksFreed
<1>5. UpSide(c')
  <2>1. Len(c'.buf) \in Nat
    BY <1>2, LenProperties DEF Client
  <2> QED
    BY SMT, <1>1, <1>2, <1>3, <1>4, <2>1 DEF UpSide, SocksFreed, Sides
<1>6. DownSide(c') /\ DownGoesOn(c')
  BY <1>1, <1>2, <1>3 DEF IInv, ClientInv, DownSide, DownGoesOn, SameDown, SocksFreed
<1>7. UpFlow' /\ DownFlow'
  BY <1>1, <1>2 DEF IInv, UpFlow, DownFlow, SameUp, SameDown
<1>8. Returned'
  BY <1>1, <1>2 DEF IInv, Returned, ReturnTellsLwip
<1>9. PipeStep
  BY <1>1, <1>2, <1>3, Ends DEF SocksFreed, Client
<1> QED
  BY <1>1, <1>2, <1>4, <1>5, <1>6, <1>7, <1>8, <1>9 DEF IInv, ClientInv

\* client_socks_handler(UP), as a relation between fields.
CameUp(d, e) ==
  /\ e \in Client /\ SameUp(d, e) /\ SameDown(d, e) /\ e.socks = "up" /\ e.socks_up
  /\ e.mem = d.mem /\ e.pcb = d.pcb /\ e.client_closed = d.client_closed /\ e.killed = d.killed
  /\ e.socks_closed = d.socks_closed
  /\ e.cb = IF d.client_closed THEN d.cb ELSE d.cb \cup {"sent"}
  /\ e.sending = IF d.buf # <<>> THEN Len(d.buf) ELSE d.sending
  /\ e.receiving <=> ~d.client_closed \/ d.receiving

\* What client_socks_handler() does to a client when the SOCKS connection is up.
LEMMA ComesUp ==
  ASSUME NEW d \in Client
  PROVE  LET g == [d EXCEPT !.socks = "up", !.socks_up = TRUE,
                            !.cb = IF d.client_closed THEN @ ELSE @ \cup {"sent"}]
             h == IF g.buf # <<>> THEN client_send_to_socks(g) ELSE g
         IN CameUp(d, IF h.client_closed THEN h ELSE client_socks_recv_initiate(h))
<1> DEFINE g == [d EXCEPT !.socks = "up", !.socks_up = TRUE,
                          !.cb = IF d.client_closed THEN @ ELSE @ \cup {"sent"}]
           h == IF g.buf # <<>> THEN client_send_to_socks(g) ELSE g
           e == IF h.client_closed THEN h ELSE client_socks_recv_initiate(h)
<1>1. /\ g \in Client /\ SameUp(d, g) /\ SameDown(d, g) /\ g.socks = "up" /\ g.socks_up
      /\ g.mem = d.mem /\ g.pcb = d.pcb /\ g.client_closed = d.client_closed /\ g.killed = d.killed
      /\ g.socks_closed = d.socks_closed /\ g.sending = d.sending /\ g.receiving = d.receiving
      /\ g.cb = IF d.client_closed THEN d.cb ELSE d.cb \cup {"sent"}
  BY DEF Client, SameUp, SameDown
<1> HIDE DEF g
<1>2. PICK l \in Nat : l = Len(g.buf)
  BY <1>1, LenProperties DEF Client
<1>3. /\ h \in Client /\ SameUp(g, h) /\ SameDown(g, h) /\ h.socks = g.socks /\ h.socks_up = g.socks_up
      /\ h.mem = g.mem /\ h.pcb = g.pcb /\ h.client_closed = g.client_closed /\ h.killed = g.killed
      /\ h.socks_closed = g.socks_closed /\ h.receiving = g.receiving /\ h.cb = g.cb
      /\ h.sending = IF g.buf # <<>> THEN l ELSE g.sending
  <2>1. CASE g.buf # <<>>
    <3>1. h = [g EXCEPT !.sending = l]
      BY <1>2, <2>1 DEF client_send_to_socks
    <3>2. g \in Client /\ l \in Nat
      BY <1>1
    <3> HIDE DEF h
    <3>3. /\ h \in Client /\ SameUp(g, h) /\ SameDown(g, h) /\ h.sending = l
          /\ h.socks = g.socks /\ h.socks_up = g.socks_up
          /\ h.mem = g.mem /\ h.pcb = g.pcb /\ h.client_closed = g.client_closed
          /\ h.killed = g.killed /\ h.socks_closed = g.socks_closed
          /\ h.receiving = g.receiving /\ h.cb = g.cb
      BY <3>1, <3>2 DEF Client, SameUp, SameDown
    <3> QED
      BY <2>1, <3>3
  <2>2. CASE g.buf = <<>>
    BY <1>1, <2>2 DEF SameUp, SameDown
  <2> QED
    BY <2>1, <2>2
<1> HIDE DEF h
<1>4. /\ e \in Client /\ SameUp(h, e) /\ SameDown(h, e) /\ e.socks = h.socks /\ e.socks_up = h.socks_up
      /\ e.mem = h.mem /\ e.pcb = h.pcb /\ e.client_closed = h.client_closed /\ e.killed = h.killed
      /\ e.socks_closed = h.socks_closed /\ e.cb = h.cb /\ e.sending = h.sending
      /\ e.receiving <=> ~h.client_closed \/ h.receiving
  <2>1. CASE h.client_closed
    BY <1>3, <2>1 DEF SameUp, SameDown
  <2>2. CASE ~h.client_closed
    <3>1. e = [h EXCEPT !.receiving = TRUE]
      BY <2>2 DEF client_socks_recv_initiate
    <3> QED
      BY ZenonT(60), <1>3, <2>2, <3>1 DEF Client, SameUp, SameDown
  <2> QED
    BY <2>1, <2>2
<1> HIDE DEF e
<1>5. CameUp(d, e)
  BY SMT, <1>1, <1>2, <1>3, <1>4 DEF CameUp, SameUp, SameDown
<1> QED
  BY <1>5 DEF e, h, g

\* client_socks_handler() for a connection that is up keeps the invariant.
LEMMA Up == ASSUME IInv, SocksUp PROVE IInv' /\ PipeStep
<1>1. /\ c \in Client /\ Sides(c) /\ UpSide(c) /\ DownSide(c) /\ DownGoesOn(c) /\ Returned /\ UpFlow /\ DownFlow
  BY DEF IInv, ClientInv
<1>2. /\ c.mem = "live" /\ c.socks = "connecting" /\ ret' = "none" /\ call' = call
      /\ UNCHANGED <<upNext, upGot, downNext, downGot, appLost, farLost>>
  BY DEF SocksUp, SocksCalls
<1>3. CameUp(c, c')
  BY <1>1, ComesUp DEF SocksUp
<1>4. ~c.socks_closed /\ ~c.socks_up /\ c.used = -1 /\ c.sending = 0 /\ Len(c.buf) \in Nat
      /\ (c.buf # <<>> => Len(c.buf) > 0)
  BY SMT, <1>1, <1>2, EmptySeq, LenProperties DEF Sides, SocksFreed, UpSide, DownSide, Client
<1>5. Sides(c')
  BY <1>1, <1>2, <1>3, <1>4 DEF CameUp, Sides
<1>6. UpSide(c')
  BY SMT, <1>1, <1>2, <1>3, <1>4 DEF CameUp, SameUp, UpSide
<1>7. DownSide(c') /\ DownGoesOn(c')
  BY <1>1, <1>2, <1>3, <1>4 DEF CameUp, SameDown, DownSide, DownGoesOn
<1>8. UpFlow'
  BY <1>1, <1>2, <1>3, <1>4, UpStays DEF CameUp, SameUp
<1>9. DownFlow'
  BY <1>1, <1>2, <1>3, <1>4, DownStays DEF CameUp, DownFlow
<1>10. Returned'
  BY <1>1, <1>2, <1>3 DEF CameUp, Returned, ReturnTellsLwip
<1>11. PipeStep
  BY <1>2, <1>3, Stutters DEF SameEnds, UpOf, DownOf, UnsentOf, CameUp, SameUp, SameDown
<1> QED
  BY <1>2, <1>3, <1>5, <1>6, <1>7, <1>8, <1>9, <1>10, <1>11 DEF IInv, ClientInv, CameUp

\* client_socks_send_handler_done() has taken n bytes out of client->buf.
Written(d, e, n) ==
  /\ e \in Client /\ SameDown(d, e) /\ e.socks_up = d.socks_up
  /\ e.mem = d.mem /\ e.pcb = d.pcb /\ e.cb = d.cb
  /\ e.client_closed = d.client_closed /\ e.killed = d.killed
  /\ e.socks = d.socks /\ e.socks_closed = d.socks_closed /\ e.receiving = d.receiving
  /\ e.wnd = (IF d.client_closed THEN d.wnd ELSE d.wnd + n) /\ e.buf = Drop(d.buf, n)

\* The connection is freed if that was the end of a closed client.
SendDone(d, n) ==
  LET g == Recved([d EXCEPT !.buf = Drop(@, n), !.sending = 0], n)
  IN IF g.buf # <<>> THEN client_send_to_socks(g) ELSE g

\* What n bytes that have been sent do to the client's buffer.
LEMMA WriteSome ==
  ASSUME NEW d \in Client, NEW n \in Nat, n <= Len(d.buf)
  PROVE  /\ Written(d, SendDone(d, n), n)
         /\ SendDone(d, n).sending = Len(Drop(d.buf, n))
         /\ SubSeq(d.buf, 1, n) \o Drop(d.buf, n) = d.buf /\ SubSeq(d.buf, 1, n) \in Seq(Bytes)
         /\ Len(Drop(d.buf, n)) = Len(d.buf) - n
<1> DEFINE q == d.buf
<1>1. q \in Seq(Bytes) /\ n <= Len(q) /\ Len(q) \in Nat /\ d.wnd \in Int
  BY LenProperties DEF Client
<1> HIDE DEF q
<1>2. /\ Drop(q, n) \in Seq(Bytes) /\ SubSeq(q, 1, n) \in Seq(Bytes)
      /\ SubSeq(q, 1, n) \o Drop(q, n) = q /\ Len(Drop(q, n)) = Len(q) - n
  BY <1>1, Cut
<1>3. PICK b \in Seq(Bytes), l \in Nat, w \in Int :
        b = Drop(q, n) /\ l = Len(b) /\ w = IF d.client_closed THEN d.wnd ELSE d.wnd + n
  BY SMT, <1>1, <1>2, LenProperties
<1>4. b = <<>> => l = 0
  BY <1>3, EmptySeq
<1> DEFINE g0 == [d EXCEPT !.buf = Drop(@, n), !.sending = 0]
           g == Recved(g0, n)
<1>5. g = [d EXCEPT !.wnd = w, !.buf = b, !.sending = 0]
  <2>1. g0 = [d EXCEPT !.buf = b, !.sending = 0]
    BY <1>3 DEF q
  <2> HIDE DEF g0
  <2>2. g0 \in Client /\ g0.wnd = d.wnd /\ g0.client_closed = d.client_closed
    BY <1>3, <2>1 DEF Client
  <2>3. g = [g0 EXCEPT !.wnd = w]
    BY <1>3, <2>2 DEF Recved
  <2> QED
    BY <2>1, <2>3
<1> HIDE DEF g
<1>6. g = UpChanged(d, w, b, 0) /\ 0 \in Nat
  BY <1>5 DEF UpChanged
<1>7. d \in Client /\ b \in Seq(Bytes) /\ l \in Nat /\ w \in Int
  BY <1>3
<1>8. g.buf = b
  BY <1>3, <1>5 DEF Client
<1>9. SendDone(d, n) = IF b # <<>> THEN [g EXCEPT !.sending = Len(b)] ELSE g
  BY <1>8 DEF SendDone, client_send_to_socks, g
<1>10. SendDone(d, n) = UpChanged(d, w, b, l)
  <2>1. CASE b # <<>>
    BY <1>3, <1>5, <1>9, <2>1 DEF UpChanged
  <2>2. CASE b = <<>>
    BY <1>4, <1>6, <1>9, <2>2
  <2> QED
    BY <2>1, <2>2
<1> DEFINE e == UpChanged(d, w, b, l)
<1>11. /\ e \in Client /\ SameDown(d, e) /\ e.socks_up = d.socks_up
       /\ e.mem = d.mem /\ e.pcb = d.pcb /\ e.cb = d.cb
       /\ e.client_closed = d.client_closed /\ e.killed = d.killed
       /\ e.socks = d.socks /\ e.socks_closed = d.socks_closed /\ e.receiving = d.receiving
       /\ e.wnd = w /\ e.buf = b /\ e.sending = l
  BY ZenonT(60), <1>7, ChangeUp
<1> HIDE DEF e
<1>12. Written(d, e, n) /\ e.sending = Len(Drop(d.buf, n))
  BY <1>3, <1>11 DEF Written, q
<1> QED
  BY <1>2, <1>10, <1>12 DEF q, e

\* client_socks_send_handler_done() keeps the invariant.
LEMMA Write == ASSUME IInv, client_socks_send_handler_done PROVE IInv' /\ PipeStep
<1>1. /\ c \in Client /\ Sides(c) /\ UpSide(c) /\ DownSide(c) /\ DownGoesOn(c) /\ Returned /\ UpFlow /\ DownFlow
  BY DEF IInv, ClientInv
<1>2. /\ c.mem = "live" /\ c.socks = "up" /\ ~c.socks_closed /\ ret' = "none" /\ call' = call
      /\ UNCHANGED <<upNext, downNext, downGot, appLost, farLost>>
  BY <1>1 DEF client_socks_send_handler_done, SocksCalls, UpSide, Sides, SocksFreed
<1>3. PICK n \in Nat :
        /\ n > 0 /\ n <= Len(c.buf) /\ upGot' = upGot \o SubSeq(c.buf, 1, n)
        /\ LET d == Recved([c EXCEPT !.buf = Drop(@, n), !.sending = 0], n)
           IN c' = IF d.buf # <<>> THEN client_send_to_socks(d)
                   ELSE IF d.client_closed THEN client_free_socks(d) ELSE d
  <2>1. \A n \in 1 .. c.sending : n \in Nat /\ n > 0 /\ n <= Len(c.buf)
    BY SMT, <1>1, LenProperties DEF UpSide, Client
  <2> QED
    BY <2>1 DEF client_socks_send_handler_done
<1> DEFINE e == SendDone(c, n)
<1>4. /\ Written(c, e, n) /\ e.sending = Len(Drop(c.buf, n))
      /\ SubSeq(c.buf, 1, n) \o Drop(c.buf, n) = c.buf /\ SubSeq(c.buf, 1, n) \in Seq(Bytes)
      /\ Len(Drop(c.buf, n)) = Len(c.buf) - n
  BY <1>1, <1>3, WriteSome
<1>5. c' = IF e.buf = <<>> /\ e.client_closed THEN client_free_socks(e) ELSE e
  <2> DEFINE d == Recved([c EXCEPT !.buf = Drop(@, n), !.sending = 0], n)
  <2>1. e = IF d.buf # <<>> THEN client_send_to_socks(d) ELSE d
    BY DEF SendDone
  <2>2. c' = IF d.buf # <<>> THEN client_send_to_socks(d)
             ELSE IF d.client_closed THEN client_free_socks(d) ELSE d
    BY <1>3
  <2>3. e.buf = d.buf
    BY SMT, <2>1 DEF client_send_to_socks
  <2> HIDE DEF d, e
  <2> QED
    BY <2>1, <2>2, <2>3
<1> HIDE DEF e
<1>6. ClientInv(e)
  <2>1. Sides(e)
    BY <1>1, <1>2, <1>4 DEF Written, Sides
  <2>2. UpSide(e)
    <3>1. Len(c.buf) \in Nat /\ c.wnd \in Int /\ e.buf \in Seq(Bytes)
      BY <1>1, <1>4, LenProperties DEF Client, Written
    <3>2. c.pcb = "open" => ~c.client_closed
      BY <1>1, <1>2 DEF Sides
    <3>3. e.pcb = "open" => e.wnd \in Nat /\ e.wnd + Len(e.buf) = TCP_WND
      <4> SUFFICES ASSUME e.pcb = "open" PROVE e.wnd \in Nat /\ e.wnd + Len(e.buf) = TCP_WND
        OBVIOUS
      <4>1. c.wnd \in Nat /\ c.wnd + Len(c.buf) = TCP_WND
        BY <1>1, <1>4 DEF UpSide, Written
      <4>2. e.wnd = c.wnd + n /\ Len(e.buf) = Len(c.buf) - n
        BY <1>4, <3>2 DEF Written
      <4> QED
        BY SMT, <3>1, <4>1, <4>2
    <3>4. e.sending <= Len(e.buf) /\ (e.buf # <<>> => e.sending > 0)
      BY SMT, <1>4, <3>1, EmptySeq DEF Written
    <3> QED
      BY <1>2, <1>4, <3>3, <3>4 DEF UpSide, Written
  <2>3. DownSide(e) /\ DownGoesOn(e)
    BY <1>1, <1>4 DEF DownSide, DownGoesOn, Written, SameDown
  <2> QED
    BY <1>4, <2>1, <2>2, <2>3 DEF ClientInv, Written
<1>7. /\ ClientInv(c') /\ SameUp(e, c') /\ SameDown(e, c') /\ c'.mem # "none"
      /\ c'.client_closed = e.client_closed /\ (c'.socks_closed => e.buf = <<>> /\ e.client_closed)
  <2>1. CASE e.buf = <<>> /\ e.client_closed
    <3>1. ConnectionFreed(e, c')
      BY <1>5, <1>6, <2>1, FreeSocks DEF ClientInv
    <3>2. ClientInv(c')
      BY <1>2, <1>4, <1>6, <3>1, FreeSocksInv DEF Written
    <3> QED
      BY <2>1, <3>1, <3>2, <1>4, <1>6, <1>2 DEF ConnectionFreed, Written, ClientInv, Client
  <2>2. CASE ~(e.buf = <<>> /\ e.client_closed)
    BY <1>2, <1>4, <1>5, <1>6, <2>2 DEF Written, SameUp, SameDown
  <2> QED
    BY <2>1, <2>2
<1>8. UpFlow'
  <2> DEFINE x == SubSeq(c.buf, 1, n)
             y == Drop(c.buf, n)
  <2>1. x \in Seq(Bytes) /\ y \in Seq(Bytes) /\ x \o y = c.buf /\ c'.buf = y /\ upGot \in Seq(Bytes)
    BY <1>1, <1>4, <1>7 DEF Written, SameUp, UpFlow, Client
  <2>2. upGot' = upGot \o x
    BY <1>3
  <2> HIDE DEF x, y
  <2>3. upGot' \in Seq(Bytes)
    BY <2>1, <2>2, ConcatProperties
  <2>4. upGot' \o y = upGot \o (x \o y)
    <3>1. x \in Seq(Bytes) /\ y \in Seq(Bytes) /\ upGot \in Seq(Bytes)
      BY <2>1
    <3>2. (upGot \o x) \o y = upGot \o (x \o y)
      BY SMT, <3>1, ConcatAssociative
    <3> QED
      BY <2>2, <3>2
  <2> QED
    BY <1>1, <1>2, <1>7, <2>1, <2>3, <2>4 DEF UpFlow, SameUp
<1>9. DownFlow'
  <2>1. SameDown(c, c')
    BY <1>4, <1>7 DEF Written, SameDown
  <2> QED
    BY <1>1, <1>2, <1>4, <1>7, <2>1, DownStays DEF DownFlow, Written
<1>10. Returned'
  BY <1>1, <1>2, <1>7 DEF Returned, ReturnTellsLwip
<1>11. PipeStep
  <2>1. UpOf(c) = c.buf /\ n \in 1 .. Len(UpOf(c)) /\ upGot' = upGot \o SubSeq(UpOf(c), 1, n)
    <3>1. UpOf(c) = c.buf /\ Len(c.buf) \in Nat
      BY <1>1, <1>2, LenProperties DEF UpOf, Client
    <3> QED
      BY SMT, <1>3, <3>1
  <2>2. UpOf(c') = Drop(c.buf, n) /\ (c'.socks_closed => c.client_closed /\ UpOf(c') = <<>>)
    BY <1>4, <1>7 DEF UpOf, Written, SameUp
  <2>3. DownOf(c') = DownOf(c) /\ c'.client_closed = c.client_closed /\ c'.socks_closed \in BOOLEAN
    BY <1>4, <1>7 DEF DownOf, UnsentOf, SameDown, Written, ClientInv, Client
  <2> QED
    BY <1>2, <2>1, <2>2, <2>3, FarTakes
<1> QED
  BY <1>2, <1>7, <1>8, <1>9, <1>10, <1>11 DEF IInv

\* lwIP has dropped n acknowledged bytes.
Acked(d, n) == [d EXCEPT !.snd = Drop(@, n), !.pending = @ - n]

AckedBytes(d, e, n) ==
  /\ e \in Client /\ SameUp(d, e) /\ SameSocks(d, e) /\ e.socks_up = d.socks_up
  /\ e.mem = d.mem /\ e.pcb = d.pcb /\ e.cb = d.cb
  /\ e.client_closed = d.client_closed /\ e.killed = d.killed
  /\ e.recv_buf = d.recv_buf /\ e.used = d.used /\ e.sent = d.sent
  /\ e.snd = Drop(d.snd, n) /\ e.pending = d.pending - n

\* What n acknowledged bytes do to a client.
LEMMA Acknowledge ==
  ASSUME NEW d \in Client, NEW n \in Nat, n <= Len(d.snd)
  PROVE  /\ AckedBytes(d, Acked(d, n), n) /\ Acked(d, n).waiting = d.waiting
         /\ AckedBytes(d, [Acked(d, n) EXCEPT !.waiting = FALSE], n)
         /\ SubSeq(d.snd, 1, n) \o Drop(d.snd, n) = d.snd /\ SubSeq(d.snd, 1, n) \in Seq(Bytes)
         /\ Drop(d.snd, n) \in Seq(Bytes) /\ Len(Drop(d.snd, n)) = Len(d.snd) - n
<1> DEFINE q == d.snd
           g == Acked(d, n)
<1>1. q \in Seq(Bytes) /\ n <= Len(q)
  BY DEF Client
<1> HIDE DEF q
<1>2. /\ Drop(q, n) \in Seq(Bytes) /\ SubSeq(q, 1, n) \in Seq(Bytes)
      /\ SubSeq(q, 1, n) \o Drop(q, n) = q /\ Len(Drop(q, n)) = Len(q) - n
  BY <1>1, Cut
<1>3. PICK x \in Seq(Bytes), p \in Int : x = Drop(q, n) /\ p = d.pending - n
  BY SMT, <1>2 DEF Client
<1>4. g = [d EXCEPT !.snd = x, !.pending = p]
  BY <1>3 DEF Acked, q
<1> HIDE DEF g
<1>5. x \in Seq(Bytes) /\ p \in Int
  BY <1>3
<1>6. /\ g \in Client /\ SameUp(d, g) /\ SameSocks(d, g) /\ g.socks_up = d.socks_up
      /\ g.mem = d.mem /\ g.pcb = d.pcb /\ g.cb = d.cb
      /\ g.client_closed = d.client_closed /\ g.killed = d.killed
      /\ g.recv_buf = d.recv_buf /\ g.used = d.used /\ g.sent = d.sent
      /\ g.snd = x /\ g.pending = p /\ g.waiting = d.waiting
  BY <1>4, <1>5 DEF Client, SameUp, SameSocks
<1>7. AckedBytes(d, g, n)
  BY <1>3, <1>6 DEF AckedBytes, q
<1>8. AckedBytes(d, [g EXCEPT !.waiting = FALSE], n)
  BY <1>7 DEF AckedBytes, Client, SameUp, SameSocks
<1> QED
  BY <1>2, <1>6, <1>7, <1>8 DEF q, g

\* The sides after that; DownGoesOn is for client_sent_func() to restore.
LEMMA AcknowledgeInv ==
  ASSUME NEW d, ClientInv(d), d.mem = "live", ~d.client_closed, d.socks_up,
         NEW n \in Nat, n <= Len(d.snd), NEW e, AckedBytes(d, e, n)
  PROVE  /\ e \in Client /\ Sides(e) /\ UpSide(e) /\ DownSide(e)
         /\ e.pending = Len(e.snd) /\ e.pending <= TCP_SND_BUF /\ e.pending \in Nat
         /\ UnsentOf(e) = UnsentOf(d)
<1>1. d \in Client /\ Sides(d) /\ UpSide(d) /\ DownSide(d) /\ DownGoesOn(d)
  BY DEF ClientInv
<1>2. e \in Client /\ Sides(e)
  BY <1>1 DEF AckedBytes, SameSocks, Sides, SocksFreed
<1>3. UpSide(e)
  BY <1>1 DEF AckedBytes, SameUp, SameSocks, UpSide
<1>4. DownSide(e)
  BY <1>1 DEF AckedBytes, SameSocks, DownSide
<1>5. UnsentOf(e) = UnsentOf(d)
  BY DEF UnsentOf, AckedBytes
<1>6. e.pending = Len(e.snd) /\ e.pending <= TCP_SND_BUF /\ e.pending \in Nat
  <2>1. Len(e.snd) = Len(d.snd) - n
    <3>1. Len(Drop(d.snd, n)) = Len(d.snd) - n
      BY <1>1, Acknowledge
    <3> QED
      BY <3>1 DEF AckedBytes
  <2>2. Len(d.snd) \in Nat /\ TCP_SND_BUF \in Nat
    BY <1>1, LenProperties, SizesArePositive DEF Client
  <2>3. d.pending = Len(d.snd) /\ d.pending <= TCP_SND_BUF /\ e.pending = d.pending - n
    BY <1>1 DEF DownGoesOn, AckedBytes
  <2> QED
    BY SMT, <2>1, <2>2, <2>3
<1> QED
  BY <1>2, <1>3, <1>4, <1>5, <1>6

\* client_sent_func() keeps the invariant.
LEMMA Sent == ASSUME IInv, client_sent_func PROVE IInv' /\ PipeStep
<1>1. /\ ClientInv(c) /\ c \in Client /\ Sides(c) /\ UpSide(c) /\ DownSide(c) /\ DownGoesOn(c)
      /\ Returned /\ UpFlow /\ DownFlow /\ appLost \in BOOLEAN /\ farLost \in BOOLEAN
  BY DEF IInv, ClientInv
<1>2. /\ c.mem = "live" /\ c.pcb = "open" /\ "sent" \in c.cb
      /\ UNCHANGED <<upNext, upGot, downNext, farLost>>
  BY DEF client_sent_func, LwipCalls
<1>3. ~c.client_closed /\ c.socks_up
  BY <1>1, <1>2 DEF Sides
<1>4. PICK n \in Nat :
        /\ n > 0 /\ n <= Len(c.snd) /\ downGot' = downGot \o SubSeq(c.snd, 1, n)
        /\ LET d == Acked(c, n) IN
           IF d.used > 0
           THEN \E k \in {0, Room(d)}, fails \in BOOLEAN :
                  LET e == client_socks_recv_send_out([d EXCEPT !.waiting = FALSE], k, fails)
                  IN IF e.client_closed
                     THEN c' = e /\ Returns("ABRT") /\ appLost' = TRUE
                     ELSE LET f == ContinueReceiving(e)
                          IN /\ c' = f /\ UNCHANGED appLost
                             /\ IF f.receiving THEN Executes("sent") ELSE Returns("OK")
           ELSE /\ UNCHANGED appLost
                /\ IF d.socks_closed /\ d.pending = 0
                   THEN c' = client_free_client(d) /\ Returns("ABRT")
                   ELSE c' = d /\ Returns("OK")
  <2>1. \A n \in 1 .. Len(c.snd) : n \in Nat /\ n > 0 /\ n <= Len(c.snd)
    BY SMT, <1>1, LenProperties DEF Client
  <2> QED
    BY <2>1 DEF client_sent_func, Acked
<1> DEFINE g == Acked(c, n)
           h == [g EXCEPT !.waiting = FALSE]
           x == SubSeq(c.snd, 1, n)
           y == Drop(c.snd, n)
<1>5. /\ AckedBytes(c, g, n) /\ g.waiting = c.waiting /\ AckedBytes(c, h, n)
      /\ x \o y = c.snd /\ x \in Seq(Bytes) /\ y \in Seq(Bytes)
  BY <1>1, <1>4, Acknowledge
<1>6. g.used = c.used /\ g.socks_closed = c.socks_closed /\ Room(h) = Room(g) /\ g.snd = y /\ h.snd = y
      /\ h.used = c.used
  BY <1>5 DEF AckedBytes, SameSocks, Room
<1> HIDE DEF g, h, x, y
<1>7. \A e : AckedBytes(c, e, n) =>
         /\ e \in Client /\ Sides(e) /\ UpSide(e) /\ DownSide(e)
         /\ e.pending = Len(e.snd) /\ e.pending <= TCP_SND_BUF /\ e.pending \in Nat
         /\ UnsentOf(e) = UnsentOf(c)
  BY <1>1, <1>2, <1>3, <1>4, AcknowledgeInv
\* The bytes are those of before, seen from the app.
<1>8. downGot' \in Seq(Bytes) /\ downGot' \o (y \o UnsentOf(c)) = downGot \o (c.snd \o UnsentOf(c))
  <2> DEFINE u == UnsentOf(c)
  <2>1. u \in Seq(Bytes)
    BY <1>1, DownTyped
  <2> HIDE DEF u
  <2>2. downGot \in Seq(Bytes) /\ downGot' = downGot \o x
    BY <1>1, <1>4 DEF DownFlow, x
  <2>3. x \in Seq(Bytes) /\ y \in Seq(Bytes)
    BY <1>5
  <2>4. downGot \o x \in Seq(Bytes) /\ y \o u \in Seq(Bytes)
    BY <2>1, <2>2, <2>3, ConcatProperties
  <2>5. (downGot \o x) \o (y \o u) = downGot \o (x \o (y \o u))
    <3> DEFINE z == y \o u
    <3>1. downGot \in Seq(Bytes) /\ x \in Seq(Bytes) /\ z \in Seq(Bytes)
      BY <2>2, <2>3, <2>4
    <3> HIDE DEF z
    <3>2. (downGot \o x) \o z = downGot \o (x \o z)
      BY SMT, <3>1, ConcatAssociative
    <3> QED
      BY <3>2 DEF z
  <2>6. (x \o y) \o u = x \o (y \o u)
    BY SMT, <2>1, <2>3, ConcatAssociative
  <2> QED
    BY <1>5, <2>2, <2>4, <2>5, <2>6 DEF u
<1>9. ~appLost => downGot \o (c.snd \o UnsentOf(c)) = SubSeq(DownData, 1, downNext)
  BY <1>1 DEF DownFlow, Unsent, UnsentOf
<1>10. Unsent' = UnsentOf(c')
  BY DEF Unsent, UnsentOf
<1>11. /\ n \in 1 .. Len(DownOf(c)) /\ n \in 0 .. Len(DownOf(c))
       /\ downGot' = downGot \o SubSeq(DownOf(c), 1, n) /\ Drop(DownOf(c), n) = y \o UnsentOf(c)
  <2> DEFINE u == UnsentOf(c)
             p == c.snd
  <2>1. p \in Seq(Bytes) /\ u \in Seq(Bytes) /\ n \in Nat /\ n > 0 /\ n <= Len(p)
    BY <1>1, <1>4, DownTyped DEF Client
  <2>2. DownOf(c) = p \o u /\ downGot' = downGot \o SubSeq(p, 1, n) /\ y = Drop(p, n)
    BY <1>3, <1>4 DEF DownOf, y
  <2> HIDE DEF u, p
  <2>3. /\ SubSeq(p \o u, 1, n) = SubSeq(p, 1, n) /\ Drop(p \o u, n) = Drop(p, n) \o u
        /\ p \o u \in Seq(Bytes) /\ n <= Len(p \o u)
    BY <2>1, TakeFirst
  <2>4. Len(p \o u) \in Nat
    BY <2>3, LenProperties
  <2>5. n \in 1 .. Len(p \o u) /\ n \in 0 .. Len(p \o u)
    BY SMT, <2>1, <2>3, <2>4
  <2> QED
    BY <2>2, <2>3, <2>5 DEF u
<1>12. downNext' \in downNext .. Len(DownData)
  <2>1. downNext \in Nat /\ Len(DownData) \in Nat /\ downNext <= Len(DownData)
    BY SMT, <1>1, DataAssumption, LenProperties DEF DownFlow
  <2> QED
    BY SMT, <1>2, <2>1
<1>13. CASE c.used > 0
  <2>1. PICK k \in {0, Room(h)}, fails \in BOOLEAN :
          LET e == client_socks_recv_send_out(h, k, fails)
          IN IF e.client_closed
             THEN c' = e /\ Returns("ABRT") /\ appLost' = TRUE
             ELSE LET f == ContinueReceiving(e)
                  IN /\ c' = f /\ UNCHANGED appLost
                     /\ IF f.receiving THEN Executes("sent") ELSE Returns("OK")
    BY ZenonT(60), <1>4, <1>6, <1>13 DEF g, h
  <2> DEFINE e == client_socks_recv_send_out(h, k, fails)
  <2>2. /\ h \in Client /\ Sides(h) /\ UpSide(h) /\ DownSide(h)
        /\ h.pending = Len(h.snd) /\ h.pending <= TCP_SND_BUF /\ UnsentOf(h) = UnsentOf(c)
    BY <1>5, <1>7
  <2>3. /\ h.mem = "live" /\ ~h.client_closed /\ h.used # -1 /\ h.socks_up /\ ~h.receiving
        /\ h.sent <= h.used /\ SameUp(c, h) /\ h.socks_closed = c.socks_closed
    BY SMT, <1>1, <1>2, <1>3, <1>5, <1>13 DEF AckedBytes, SameSocks, DownSide
  <2>4. k \in Nat /\ h.sent + k <= h.used
    BY <2>2, <2>3, RoomIsThere
  <2>5. SentOut(h, k, e)
    BY <2>2, <2>3, <2>4, SendOut
  <2> HIDE DEF e
  <2>6. CASE e.client_closed
    <3>1. c' = e /\ Returns("ABRT") /\ appLost' = TRUE
      BY <2>1, <2>6 DEF e
    <3>2. ClientInv(c') /\ SameUp(c, c') /\ c'.mem # "none" /\ c'.pcb = "gone"
          /\ (c'.socks_closed <=> c.socks_closed \/ c.buf = <<>>) /\ c'.client_closed
      BY <2>3, <2>5, <2>6, <3>1 DEF SentOut, SameUp
    <3>3. UpFlow'
      BY <1>1, <1>2, <1>3, <3>2, UpStays DEF UpFlow, SameUp
    <3>4. DownFlow'
      BY <1>1, <1>2, <1>8, <3>1 DEF DownFlow
    <3>5. Returned'
      BY <3>1, <3>2 DEF Returned, ReturnTellsLwip, Returns
    <3>6. PipeStep
      <4>1. /\ c.client_closed \in BOOLEAN /\ c.socks_closed \in BOOLEAN
            /\ c'.client_closed \in BOOLEAN /\ c'.socks_closed \in BOOLEAN
        BY <1>1, <3>2 DEF Client, ClientInv
      <4> QED
        BY <1>2, <1>3, <1>11, <1>12, <3>2, <4>1, AppLeaves DEF SameUp
    <3> QED
      BY <1>1, <1>2, <3>1, <3>2, <3>3, <3>4, <3>5, <3>6 DEF IInv
  <2>7. CASE ~e.client_closed
    <3>1. /\ c' = ContinueReceiving(e) /\ appLost' = appLost
          /\ Executes("sent") \/ Returns("OK")
      BY <2>1, <2>7 DEF e
    <3>2. WentOn(h, c')
      BY <2>2, <2>3, <2>5, <2>7, <3>1, SentOutInv
    <3>3. UpFlow'
      BY <1>1, <1>2, <1>3, <2>3, <3>2, UpStays DEF UpFlow, SameUp, WentOn
    <3>4. DownFlow'
      BY <1>1, <1>2, <1>6, <1>8, <1>9, <1>10, <2>2, <3>1, <3>2 DEF DownFlow, WentOn
    <3>5. c'.mem = "live" /\ c'.pcb = "open"
      BY <2>3, <3>2 DEF WentOn, ClientInv, Sides, Client
    <3>6. Returned'
      BY <3>1, <3>5 DEF Returned, ReturnTellsLwip, Returns, Executes
    <3>7. PipeStep
      <4>1. DownOf(c') = Drop(DownOf(c), n)
        BY <1>6, <1>11, <2>2, <3>2 DEF DownOf, WentOn
      <4>2. /\ c'.socks_closed = c.socks_closed /\ ~c'.client_closed /\ c'.client_closed \in BOOLEAN
            /\ UpOf(c') = UpOf(c)
        BY <2>3, <3>2 DEF WentOn, ClientInv, Client, UpOf, SameUp
      <4> QED
        BY <1>2, <1>3, <1>11, <4>1, <4>2, AppTakes
    <3> QED
      BY <1>1, <1>2, <3>1, <3>2, <3>3, <3>4, <3>6, <3>7 DEF IInv, WentOn
  <2> QED
    BY <2>6, <2>7
<1>14. CASE ~(c.used > 0)
  <2>1. /\ appLost' = appLost
        /\ IF g.socks_closed /\ g.pending = 0
           THEN c' = client_free_client(g) /\ Returns("ABRT")
           ELSE c' = g /\ Returns("OK")
    BY <1>4, <1>6, <1>14 DEF g
  <2>2. /\ g \in Client /\ Sides(g) /\ UpSide(g) /\ DownSide(g)
        /\ g.pending = Len(g.snd) /\ g.pending <= TCP_SND_BUF /\ UnsentOf(g) = UnsentOf(c)
    BY <1>5, <1>7
  <2>3. /\ g.mem = "live" /\ g.pcb = "open" /\ ~g.client_closed /\ g.used = -1
        /\ SameUp(c, g) /\ SameSocks(c, g)
    BY <1>1, <1>2, <1>3, <1>5, <1>14 DEF AckedBytes, DownSide
  <2>4. CASE g.socks_closed /\ g.pending = 0
    <3>1. ClientFreed(g, c') /\ Returns("ABRT")
      BY <2>1, <2>2, <2>4, FreeClient
    <3>2. ClientInv(c')
      BY <2>2, <2>3, <3>1, FreeClientInv
    <3>3. UpFlow'
      BY <1>1, <1>2, <1>3, <2>3, <2>4, <3>1, UpStays DEF UpFlow, SameUp, SameSocks, ClientFreed
    <3>4. DownFlow'
      <4>1. g.snd = <<>>
        BY <2>2, <2>4, EmptySeq DEF Client
      <4>2. UnsentOf(c') = UnsentOf(c) /\ c'.snd = y /\ c'.snd = <<>> /\ c'.used = -1 /\ c'.socks_closed
        BY <1>6, <2>2, <2>3, <2>4, <3>1, <4>1 DEF ClientFreed, SameDown, SameSocks, UnsentOf
      <4> QED
        BY <1>1, <1>2, <1>8, <1>9, <1>10, <2>1, <4>2 DEF DownFlow
    <3>5. Returned'
      BY <3>1 DEF Returned, ReturnTellsLwip, Returns, ClientFreed
    <3>6. PipeStep
      <4>1. UnsentOf(c) = <<>> /\ y = <<>>
        BY <1>6, <1>14, <2>2, <2>4, EmptySeq DEF Client, UnsentOf
      <4>2. DownOf(c') = Drop(DownOf(c), n) /\ DownOf(c') = <<>>
        BY <1>11, <3>1, <4>1, EmptySeq, ConcatEmptySeq DEF DownOf, ClientFreed
      <4>3. /\ c'.socks_closed = c.socks_closed /\ c.socks_closed /\ c'.client_closed \in BOOLEAN
            /\ UpOf(c') = UpOf(c)
        BY <1>1, <2>3, <2>4, <3>1 DEF ClientFreed, Client, UpOf, SameUp, SameSocks
      <4> QED
        BY <1>2, <1>3, <1>11, <4>2, <4>3, AppTakes
    <3> QED
      BY <1>1, <1>2, <2>1, <3>2, <3>3, <3>4, <3>5, <3>6 DEF IInv
  <2>5. CASE ~(g.socks_closed /\ g.pending = 0)
    <3>1. c' = g /\ Returns("OK")
      BY <2>1, <2>5
    <3>2. DownGoesOn(g)
      BY <1>1, <1>2, <1>3, <1>6, <2>2, <2>3 DEF DownGoesOn, SameSocks, DownSide
    <3>3. ClientInv(c')
      BY <2>2, <3>1, <3>2 DEF ClientInv
    <3>4. UpFlow'
      BY <1>1, <1>2, <1>3, <2>3, <3>1, UpStays DEF UpFlow, SameUp, SameSocks
    <3>5. DownFlow'
      BY <1>1, <1>2, <1>6, <1>8, <1>9, <1>10, <2>1, <2>2, <2>3, <3>1 DEF DownFlow
    <3>6. Returned'
      BY <2>3, <3>1 DEF Returned, ReturnTellsLwip, Returns
    <3>7. PipeStep
      <4>1. DownOf(c') = Drop(DownOf(c), n)
        BY <1>6, <1>11, <2>2, <2>3, <3>1 DEF DownOf
      <4>2. /\ c'.socks_closed = c.socks_closed /\ ~c'.client_closed /\ c'.client_closed \in BOOLEAN
            /\ UpOf(c') = UpOf(c)
        BY <2>2, <2>3, <3>1 DEF Client, UpOf, SameUp, SameSocks
      <4> QED
        BY <1>2, <1>3, <1>11, <4>1, <4>2, AppTakes
    <3> QED
      BY <1>1, <1>2, <2>1, <3>3, <3>4, <3>5, <3>6, <3>7 DEF IInv
  <2> QED
    BY <2>4, <2>5
<1> QED
  BY <1>13, <1>14

\* client_socks_recv_handler_done(): n bytes are in the receive buffer.
Loaded(d, q, n) ==
  [d EXCEPT !.receiving = FALSE, !.recv_buf = q, !.used = n, !.sent = 0, !.waiting = FALSE]

\* What a receive from the SOCKS client does to the receive buffer.
LEMMA Load ==
  ASSUME NEW d \in Client, NEW q \in Seq(Bytes), NEW n \in Nat
  PROVE  LET e == Loaded(d, q, n) IN
         /\ e \in Client /\ SameUp(d, e) /\ e.socks_up = d.socks_up
         /\ e.mem = d.mem /\ e.pcb = d.pcb /\ e.cb = d.cb
         /\ e.client_closed = d.client_closed /\ e.killed = d.killed
         /\ e.socks = d.socks /\ e.socks_closed = d.socks_closed /\ e.sending = d.sending
         /\ e.snd = d.snd /\ e.pending = d.pending /\ ~e.receiving
         /\ e.recv_buf = q /\ e.used = n /\ e.sent = 0
<1> DEFINE e == Loaded(d, q, n)
<1>1. PICK i \in Nat, j \in Int : i = 0 /\ j = n
  BY SMT
<1>2. i \in Nat /\ j \in Int
  OBVIOUS
<1>3. e = [d EXCEPT !.receiving = FALSE, !.recv_buf = q, !.used = j, !.sent = i, !.waiting = FALSE]
  BY <1>1 DEF Loaded
<1> HIDE DEF e
<1>4. /\ e \in Client /\ SameUp(d, e) /\ e.socks_up = d.socks_up
      /\ e.mem = d.mem /\ e.pcb = d.pcb /\ e.cb = d.cb
      /\ e.client_closed = d.client_closed /\ e.killed = d.killed
      /\ e.socks = d.socks /\ e.socks_closed = d.socks_closed /\ e.sending = d.sending
      /\ e.snd = d.snd /\ e.pending = d.pending /\ ~e.receiving
      /\ e.recv_buf = q /\ e.used = j /\ e.sent = i
  BY <1>2, <1>3 DEF Client, SameUp
<1> QED
  BY <1>1, <1>4 DEF e

\* client_socks_recv_handler_done() keeps the invariant.
LEMMA Read == ASSUME IInv, client_socks_recv_handler_done PROVE IInv' /\ PipeStep
<1>1. /\ ClientInv(c) /\ c \in Client /\ Sides(c) /\ UpSide(c) /\ DownSide(c) /\ DownGoesOn(c)
      /\ Returned /\ UpFlow /\ DownFlow /\ appLost \in BOOLEAN /\ farLost \in BOOLEAN
  BY DEF IInv, ClientInv
<1>2. /\ c.mem = "live" /\ c.receiving /\ c.used = -1 /\ c.socks = "up" /\ c.socks_up /\ ~c.socks_closed
      /\ ret' = "none" /\ call' = call
      /\ UNCHANGED <<upNext, upGot, downGot, farLost>>
  BY <1>1 DEF client_socks_recv_handler_done, SocksCalls, DownSide, Sides, SocksFreed
<1>3. downNext \in Nat /\ Len(DownData) \in Nat /\ SocksRecvBuf \in Nat
  BY SMT, <1>1, SizesArePositive, DataAssumption, LenProperties DEF DownFlow
<1>4. PICK n \in Nat :
        /\ n > 0 /\ downNext + n <= Len(DownData) /\ downNext' = downNext + n
        /\ LET d == Loaded(c, SubSeq(DownData, downNext + 1, downNext + n), n) IN
           IF c.client_closed THEN c' = [c EXCEPT !.receiving = FALSE] /\ UNCHANGED appLost
           ELSE \E k \in {0, Room(d)}, fails \in BOOLEAN :
                  LET e == client_socks_recv_send_out(d, k, fails)
                  IN /\ c' = IF e.client_closed THEN e ELSE ContinueReceiving(e)
                     /\ appLost' = (appLost \/ e.client_closed)
  <2>1. \A n \in 1 .. Min(SocksRecvBuf, Len(DownData) - downNext) :
          n \in Nat /\ n > 0 /\ downNext + n <= Len(DownData)
    BY SMT, <1>3 DEF Min
  <2> QED
    BY <2>1 DEF client_socks_recv_handler_done, Loaded
<1>5. downNext' \in 0 .. Len(DownData) /\ downNext' \in downNext .. Len(DownData)
      /\ downNext' \in downNext + 1 .. Len(DownData)
  BY SMT, <1>3, <1>4
<1>6. CASE c.client_closed
  <2>1. c' = [c EXCEPT !.receiving = FALSE] /\ appLost' = appLost
    BY <1>4, <1>6
  <2>2. /\ c' \in Client /\ SameUp(c, c') /\ SameDown(c, c') /\ c'.socks_up = c.socks_up
        /\ c'.mem = c.mem /\ c'.pcb = c.pcb /\ c'.cb = c.cb
        /\ c'.client_closed = c.client_closed /\ c'.killed = c.killed
        /\ c'.socks = c.socks /\ c'.socks_closed = c.socks_closed /\ c'.sending = c.sending
        /\ ~c'.receiving
    BY <1>1, <2>1 DEF Client, SameUp, SameDown
  <2>3. Sides(c')
    BY <1>1, <1>2, <2>2 DEF Sides
  <2>4. UpSide(c')
    BY <1>1, <2>2 DEF UpSide, SameUp
  <2>5. DownSide(c') /\ DownGoesOn(c')
    BY <1>1, <1>6, <2>2 DEF DownSide, DownGoesOn, SameDown
  <2>6. UpFlow'
    BY <1>1, <1>2, <2>2, UpStays DEF SameUp
  <2>7. DownFlow'
    BY <1>1, <1>2, <1>5, <1>6, <2>1 DEF DownFlow
  <2>8. Returned'
    BY <1>1, <1>2, <2>2 DEF Returned, ReturnTellsLwip
  <2>9. PipeStep
    <3>1. UpOf(c') = UpOf(c) /\ DownOf(c') = DownOf(c) /\ SameEnds
      BY <1>6, <2>2 DEF UpOf, DownOf, SameUp, SameEnds
    <3> QED
      BY <1>2, <1>5, <1>6, <3>1, FarSends
  <2> QED
    BY <1>1, <1>2, <2>1, <2>2, <2>3, <2>4, <2>5, <2>6, <2>7, <2>8, <2>9 DEF IInv, ClientInv
<1>7. CASE ~c.client_closed
  <2> DEFINE q == SubSeq(DownData, downNext + 1, downNext + n)
             d == Loaded(c, q, n)
  <2>1. q \in Seq(Bytes) /\ Len(q) = n
        /\ SubSeq(DownData, 1, downNext) \o q = SubSeq(DownData, 1, downNext + n)
    BY ZenonT(60), <1>3, <1>4, DataAssumption, Extend
  <2>2. PICK k \in {0, Room(d)}, fails \in BOOLEAN :
          LET e == client_socks_recv_send_out(d, k, fails)
          IN /\ c' = IF e.client_closed THEN e ELSE ContinueReceiving(e)
             /\ appLost' = (appLost \/ e.client_closed)
    BY <1>4, <1>7
  <2> HIDE DEF q
  <2>3. /\ d \in Client /\ SameUp(c, d) /\ d.socks_up = c.socks_up
        /\ d.mem = c.mem /\ d.pcb = c.pcb /\ d.cb = c.cb
        /\ d.client_closed = c.client_closed /\ d.killed = c.killed
        /\ d.socks = c.socks /\ d.socks_closed = c.socks_closed /\ d.sending = c.sending
        /\ d.snd = c.snd /\ d.pending = c.pending /\ ~d.receiving
        /\ d.recv_buf = q /\ d.used = n /\ d.sent = 0
    <3>1. c \in Client /\ q \in Seq(Bytes) /\ n \in Nat
      BY <1>1, <2>1
    <3> QED
      BY <3>1, Load
  <2> DEFINE e == client_socks_recv_send_out(d, k, fails)
  <2>4. c' = (IF e.client_closed THEN e ELSE ContinueReceiving(e)) /\ appLost' = (appLost \/ e.client_closed)
    BY <2>2
  <2> HIDE DEF d
  <2>5. Sides(d) /\ UpSide(d)
    BY <1>1, <1>2, <2>3 DEF Sides, UpSide, SameUp
  <2>6. DownSide(d)
    BY SMT, <1>1, <1>2, <1>4, <2>1, <2>3 DEF DownSide
  <2>7. /\ d.mem = "live" /\ ~d.client_closed /\ d.used # -1 /\ d.socks_up /\ d.sent <= d.used
        /\ d.pending = Len(d.snd) /\ d.pending <= TCP_SND_BUF
    BY SMT, <1>1, <1>2, <1>4, <1>7, <2>3 DEF DownGoesOn
  <2>8. k \in Nat /\ d.sent + k <= d.used
    BY <2>3, <2>7, RoomIsThere
  <2>9. SentOut(d, k, e)
    BY <2>3, <2>5, <2>6, <2>7, <2>8, SendOut
  <2> HIDE DEF e
  <2>10. CASE e.client_closed
    <3>1. c' = e /\ appLost' = TRUE
      BY <1>1, <2>4, <2>10
    <3>2. ClientInv(c') /\ SameUp(c, c') /\ c'.mem # "none"
          /\ (c'.socks_closed <=> c.socks_closed \/ c.buf = <<>>) /\ c'.client_closed
      BY <2>3, <2>9, <2>10, <3>1 DEF SentOut, SameUp
    <3>3. UpFlow'
      BY <1>1, <1>2, <3>2, UpStays DEF UpFlow, SameUp
    <3>4. DownFlow'
      BY <1>1, <1>2, <1>5, <3>1 DEF DownFlow
    <3>5. Returned'
      BY <1>1, <1>2, <3>2 DEF Returned, ReturnTellsLwip
    <3>6. PipeStep
      <4>1. /\ c.client_closed \in BOOLEAN /\ c.socks_closed \in BOOLEAN
            /\ c'.client_closed \in BOOLEAN /\ c'.socks_closed \in BOOLEAN
        BY <1>1, <3>2 DEF Client, ClientInv
      <4>2. DownOf(c) \in Seq(Bytes) /\ downGot \in Seq(Bytes)
        BY <1>1, DownTyped DEF DownFlow
      <4>3. downGot' = downGot \o SubSeq(DownOf(c), 1, 0) /\ 0 \in 0 .. Len(DownOf(c))
        BY SMT, <1>2, <4>2, Nothing, ConcatEmptySeq, LenProperties
      <4> QED
        BY <1>2, <1>5, <1>7, <3>2, <4>1, <4>3, AppLeaves DEF SameUp
    <3> QED
      BY <1>1, <1>2, <3>1, <3>2, <3>3, <3>4, <3>5, <3>6 DEF IInv
  <2>11. CASE ~e.client_closed
    <3>1. c' = ContinueReceiving(e) /\ appLost' = appLost
      BY <1>1, <2>4, <2>11
    <3>2. WentOn(d, c')
      BY <2>3, <2>5, <2>6, <2>7, <2>9, <2>11, <3>1, SentOutInv
    <3>3. UpFlow'
      BY <1>1, <1>2, <2>3, <3>2, UpStays DEF UpFlow, SameUp, WentOn
    <3>4. ~appLost => downGot \o (c'.snd \o UnsentOf(c')) = SubSeq(DownData, 1, downNext + n)
      <4>1. UnsentOf(d) = q
        BY <1>4, <2>1, <2>3, Nothing DEF UnsentOf
      <4>2. ~appLost => downGot \o c.snd = SubSeq(DownData, 1, downNext)
        <5>1. c.snd \o <<>> = c.snd
          BY <1>1, ConcatEmptySeq DEF Client
        <5> QED
          BY SMT, <1>1, <1>2, <5>1 DEF DownFlow, Unsent
      <4> DEFINE y == c.snd
      <4>3. downGot \in Seq(Bytes) /\ y \in Seq(Bytes) /\ q \in Seq(Bytes)
        BY <1>1, <2>1 DEF DownFlow, Client
      <4> HIDE DEF y
      <4>4. (downGot \o y) \o q = downGot \o (y \o q)
        BY SMT, <4>3, ConcatAssociative
      <4>5. c'.snd \o UnsentOf(c') = y \o q
        BY <2>3, <3>2, <4>1 DEF WentOn, y
      <4> QED
        BY <2>1, <4>2, <4>4, <4>5 DEF y
    <3>5. DownFlow'
      BY <1>1, <1>2, <1>4, <1>5, <3>1, <3>2, <3>4 DEF DownFlow, Unsent, UnsentOf, WentOn
    <3>6. c'.mem = "live" /\ c'.pcb = "open"
      BY <2>7, <3>2 DEF WentOn, ClientInv, Sides, Client
    <3>7. Returned'
      BY <1>1, <1>2, <3>6 DEF Returned, ReturnTellsLwip
    <3>8. PipeStep
      <4>1. UnsentOf(d) = q
        BY <1>4, <2>1, <2>3, Nothing DEF UnsentOf
      <4>2. DownOf(c) = c.snd
        BY SMT, <1>1, <1>2, <1>7, ConcatEmptySeq DEF DownOf, UnsentOf, Client
      <4>3. DownOf(c') = DownOf(c) \o q
        BY <2>3, <3>2, <4>1, <4>2 DEF WentOn, DownOf
      <4>4. DownOf(c') = DownOf(c) \o SubSeq(DownData, downNext + 1, downNext')
        BY <1>4, <4>3 DEF q
      <4>5. SameEnds /\ UpOf(c') = UpOf(c)
        BY <1>1, <1>7, <2>3, <3>2 DEF WentOn, SameEnds, UpOf, SameUp
      <4> QED
        BY <1>2, <1>5, <1>7, <4>4, <4>5, FarSends
    <3> QED
      BY <1>1, <1>2, <3>1, <3>2, <3>3, <3>5, <3>7, <3>8 DEF IInv, WentOn
  <2> QED
    BY <2>10, <2>11
<1> QED
  BY <1>6, <1>7

\* Every step keeps the invariant and is a step of RelayPipes or a stutter.
LEMMA NextIInv == IInv /\ [Next]_vars => IInv' /\ PipeStep
<1> SUFFICES ASSUME IInv, [Next]_vars PROVE IInv' /\ PipeStep
  OBVIOUS
<1>1. CASE UNCHANGED vars
  <2>1. IInv'
    BY <1>1 DEF vars, IInv, Returned, ReturnTellsLwip, UpFlow, DownFlow, Unsent
  <2>2. PipeStep
    BY <1>1, Stutters DEF vars, SameEnds
  <2> QED
    BY <2>1, <2>2
<1> QED
  BY <1>1, Accept, Receive, ReceiveNull, Close, Reset, Sent, CallReturnsInv, Up, Down, Write, Read,
     Murdered DEF Next, Lwip

\* The invariant holds in every behaviour.
LEMMA Invariance == Spec => []IInv
<1> QED
  BY InitIInv, NextIInv, PTL DEF Spec
-----------------------------------------------------------------------------
(* The theorems about the tcp_client, whatever its SOCKS connection does.     *)

\* Once client_dealloc() has run nothing is left that could call the client.
THEOREM MemoryIsSafe == Spec => []NothingCallsFreedMemory
<1>1. IInv => NothingCallsFreedMemory
  BY DEF IInv, ClientInv, Client, Sides, SocksFreed, NothingCallsFreedMemory
<1> QED
  BY <1>1, Invariance, PTL

\* client_recv_func() and client_sent_func() return ERR_ABRT exactly when the
\* pcb is gone.
THEOREM LwipIsTold == Spec => []ReturnTellsLwip
<1>1. IInv => ReturnTellsLwip
  BY DEF IInv, Returned
<1> QED
  BY <1>1, Invariance, PTL

\* The window lwIP offers is the room in client->buf.
THEOREM WindowFits == Spec => []WindowIsBuffer
<1>1. IInv => WindowIsBuffer
  BY DEF IInv, ClientInv, UpSide, WindowIsBuffer
<1> QED
  BY <1>1, Invariance, PTL

\* Each handler leaves a send, a receive or an acknowledgement to wait for.
THEOREM SomeoneGoesOn == Spec => []NeverStalls
<1>1. ASSUME IInv, c.mem = "live", c.used > 0, ~c.client_closed
      PROVE  c.waiting /\ c.sent < c.used /\ c.pending > 0 /\ c.pending = Len(c.snd) /\ "sent" \in c.cb
  BY SMT, <1>1 DEF IInv, ClientInv, Sides, DownSide, DownGoesOn, Client
<1>2. IInv => NeverStalls
  BY <1>1 DEF IInv, ClientInv, UpSide, DownGoesOn, NeverStalls
<1> QED
  BY <1>2, Invariance, PTL

\* Bytes taken from one end are at the other before the client is freed.
THEOREM NothingIsCutOff == Spec => []TakenIsDelivered
<1>1. ASSUME IInv, c.mem = "freed" PROVE farLost \/ upGot = SubSeq(UpData, 1, upNext)
  <2>1. c.socks_closed
    BY <1>1 DEF IInv, ClientInv, Sides
  <2>2. upGot \o <<>> = upGot
    BY <1>1, ConcatEmptySeq DEF IInv, UpFlow
  <2> QED
    BY <1>1, <2>1, <2>2 DEF IInv, UpFlow
<1>2. ASSUME IInv, c.mem = "freed" PROVE appLost \/ downGot = SubSeq(DownData, 1, downNext)
  <2>1. c.client_closed
    BY <1>2 DEF IInv, ClientInv, Sides
  <2>2. <<>> \o <<>> = <<>>
    BY EmptySeq, ConcatEmptySeq
  <2>3. downGot \o <<>> = downGot
    BY <1>2, ConcatEmptySeq DEF IInv, DownFlow
  <2> QED
    <3> SUFFICES ASSUME ~appLost PROVE downGot = SubSeq(DownData, 1, downNext)
      OBVIOUS
    <3>1. c.snd = <<>> /\ Unsent = <<>>
      BY SMT, <1>2, <2>1 DEF IInv, DownFlow, Unsent
    <3>2. downGot \o (c.snd \o Unsent) = SubSeq(DownData, 1, downNext)
      BY <1>2 DEF IInv, DownFlow
    <3> QED
      BY <2>2, <2>3, <3>1, <3>2
<1>3. IInv => TakenIsDelivered
  BY <1>1, <1>2 DEF TakenIsDelivered
<1> QED
  BY <1>3, Invariance, PTL

\* The client, its buffers and lwIP's carry bytes as two pipes do, each with an
\* end at the app and an end at the server.
THEOREM ClientIsPipes == Spec => ImplementsPipes
<1>1. Init => Pipes!PipeInit
  <2> SUFFICES ASSUME Init PROVE Pipes!PipeInit
    OBVIOUS
  <2>1. c.buf = <<>> /\ c.snd = <<>> /\ c.used = -1 /\ ~c.socks_closed /\ ~c.client_closed
    BY DEF Init, Accepted
  <2>2. Unsent = <<>> /\ c.snd \o Unsent = <<>>
    BY SMT, <2>1, EmptySeq, ConcatEmptySeq DEF Unsent
  <2> QED
    BY <2>1, <2>2 DEF Init, Pipes!PipeInit
<1>2. IInv /\ [Next]_vars => [Pipes!PipeNext]_(Pipes!pipeVars)
  BY NextIInv DEF PipeStep
<1> QED
  BY <1>1, <1>2, Invariance, PTL DEF Spec, ImplementsPipes, Pipes!PipeSpec
-----------------------------------------------------------------------------
-----------------------------------------------------------------------------
(* A step of RelayedConnection is a step of the tcp_client, of its SOCKS      *)
(* client, or of both.                                                        *)

\* A behaviour of the composition is one of the tcp_client.
LEMMA RelayIsClient == RelaySpec => Spec
<1>1. RelayInit => Init
  BY DEF RelayInit
<1>2. [RelayNext]_relayVars => [Next]_vars
  BY DEF RelayNext, relayVars, Reports, Uses, Receives, Server, Next
<1> QED
  BY <1>1, <1>2, PTL DEF RelaySpec, Spec

\* A behaviour of the composition is one of the SOCKS client.
LEMMA RelayIsSocks == RelaySpec => Socks!Spec
<1>1. RelayInit => Socks!Init
  BY DEF RelayInit
<1>2. [RelayNext]_relayVars => [Socks!Next]_(Socks!vars)
  BY DEF RelayNext, relayVars, socksVars, Reports, Uses, Receives, Server, Socks!Next, Socks!vars
<1> QED
  BY <1>1, <1>2, PTL DEF RelaySpec, Socks!Spec
-----------------------------------------------------------------------------
(* BSocksProofs, for the payload DownData.                                    *)

Proved == INSTANCE BSocksProofs WITH Data <- DownData

\* The SOCKS client of the composition is the one that BSocksProofs speaks of.
LEMMA SameSocksSpec == Socks!Spec => Proved!Spec
<1>1. Socks!Init => Proved!Init
  BY DEF Socks!Init, Proved!Init, Socks!Alloc, Proved!Alloc, Socks!Resources, Proved!Resources,
         Socks!None, Proved!None
<1>2. Socks!Free => Proved!Free
  BY DEF Socks!Free, Proved!Free, Socks!FreeWith, Proved!FreeWith, Socks!Freed, Proved!Freed,
         Socks!Release, Proved!Release, Socks!Resources, Proved!Resources, Socks!None, Proved!None
<1>3. Socks!ConnectorHandler => Proved!ConnectorHandler
  BY DEF Socks!ConnectorHandler, Proved!ConnectorHandler, Socks!Send, Proved!Send,
         Socks!ReserveBuffer, Proved!ReserveBuffer, Socks!Alloc, Proved!Alloc, Socks!Resources,
         Proved!Resources
<1>4. Socks!ConnectorFails => Proved!ConnectorFails
  BY DEF Socks!ConnectorFails, Proved!ConnectorFails, Socks!ReportError, Proved!ReportError,
         Socks!FreeWith, Proved!FreeWith, Socks!Freed, Proved!Freed, Socks!Release, Proved!Release,
         Socks!Alloc, Proved!Alloc, Socks!Resources, Proved!Resources, Socks!None, Proved!None
<1>5. Socks!ConnectionHandler => Proved!ConnectionHandler
  BY DEF Socks!ConnectionHandler, Proved!ConnectionHandler, Socks!ReportError, Proved!ReportError,
         Socks!FreeWith, Proved!FreeWith, Socks!Freed, Proved!Freed, Socks!Release, Proved!Release,
         Socks!Resources, Proved!Resources, Socks!None, Proved!None
<1>6. Socks!SendHandlerDone => Proved!SendHandlerDone
  BY DEF Socks!SendHandlerDone, Proved!SendHandlerDone, Socks!ReportError, Proved!ReportError,
         Socks!FreeWith, Proved!FreeWith, Socks!Freed, Proved!Freed, Socks!Release, Proved!Release,
         Socks!Resources, Proved!Resources, Socks!None, Proved!None, Socks!StartReceive,
         Proved!StartReceive
<1>7. Socks!RecvHandlerDone => Proved!RecvHandlerDone
  BY DEF Socks!RecvHandlerDone, Proved!RecvHandlerDone, Socks!Received, Proved!Received,
         Socks!ReceivedHello, Proved!ReceivedHello, Socks!ReceivedPasswordReply,
         Proved!ReceivedPasswordReply, Socks!ReceivedReplyHeader, Proved!ReceivedReplyHeader,
         Socks!ReceivedReply, Proved!ReceivedReply, Socks!AuthFinished, Proved!AuthFinished,
         Socks!Send, Proved!Send, Socks!ReportError, Proved!ReportError, Socks!FreeWith,
         Proved!FreeWith, Socks!Freed, Proved!Freed, Socks!Release, Proved!Release, Socks!Alloc,
         Proved!Alloc, Socks!Resources, Proved!Resources, Socks!None, Proved!None,
         Socks!StartReceive, Proved!StartReceive, Socks!AddrLen, Proved!AddrLen
<1>8. Socks!UserReceives => Proved!UserReceives
  BY DEF Socks!UserReceives, Proved!UserReceives, Socks!Freed, Proved!Freed, Socks!Release,
         Proved!Release, Socks!Resources, Proved!Resources
<1>9. Socks!Answer => Proved!Answer
  BY DEF Socks!Answer, Proved!Answer, Socks!Replies, Proved!Replies
<1>10. Socks!Payload => Proved!Payload
  BY DEF Socks!Payload, Proved!Payload
<1>11. [Socks!Next]_(Socks!vars) => [Proved!Next]_(Proved!vars)
  BY <1>2, <1>3, <1>4, <1>5, <1>6, <1>7, <1>8, <1>9, <1>10 DEF Socks!Next, Proved!Next,
         Socks!Handler, Proved!Handler, Socks!vars, Proved!vars
<1> QED
  BY <1>1, <1>11, PTL DEF Socks!Spec, Proved!Spec

\* The far end's data are bytes as BSocksProofs numbers them.
LEMMA PayloadIsBytes == DownData \in Seq(Proved!Byte)
<1>1. DownData \in Seq(Bytes)
  BY DataAssumption
<1>2. DownData \in [1 .. Len(DownData) -> Bytes] /\ Len(DownData) \in Nat /\ DOMAIN DownData = 1 .. Len(DownData)
  BY <1>1, LenProperties
<1>3. \A i \in 1 .. Len(DownData) : DownData[i] \in Proved!Byte
  BY <1>2 DEF Proved!Byte
<1>4. SubSeq(DownData, 1, Len(DownData)) \in Seq(Proved!Byte)
  BY SMTT(60), <1>2, <1>3, SubSeqProperties
<1> QED
  BY <1>1, <1>4, SubSeqFull

\* So the theorems of BSocksProofs speak of the composition.
LEMMA SocksIsProved == RelaySpec => Proved!Spec
<1> QED
  BY RelayIsSocks, SameSocksSpec, PTL
-----------------------------------------------------------------------------
(* The theorems.                                                              *)

\* The tcp_client of a relayed connection keeps what is proved of it for any
\* SOCKS connection: no callback finds freed memory, lwIP is told of a pcb that
\* is gone, the window is the room in client->buf, each handler leaves something
\* to wait for, and bytes that were taken are delivered.
THEOREM RelayIsSafe ==
  RelaySpec => [](/\ NothingCallsFreedMemory /\ ReturnTellsLwip /\ WindowIsBuffer
                  /\ NeverStalls /\ TakenIsDelivered)
<1> QED
  BY RelayIsClient, MemoryIsSafe, LwipIsTold, WindowFits, SomeoneGoesOn, NothingIsCutOff, PTL

\* A relayed connection is a pair of pipes between the app and the far end.
THEOREM RelayIsPipes == RelaySpec => ImplementsPipes
<1> QED
  BY RelayIsClient, ClientIsPipes, PTL

\* In whichever callback of the tcp_client it is freed, the SOCKS client releases
\* each of its resources once.
THEOREM RelayFreesSocks == RelaySpec => []SocksResourcesBalanced
<1>1. Proved!Spec => []Proved!ResourcesBalanced
  BY PayloadIsBytes, Proved!Balanced
<1>2. Proved!ResourcesBalanced => SocksResourcesBalanced
  BY DEF SocksResourcesBalanced, Socks!ResourcesBalanced, Proved!ResourcesBalanced,
         Socks!Resources, Proved!Resources
<1> QED
  BY <1>1, <1>2, SocksIsProved, PTL

\* What the tcp_client sees of its SOCKS client is a SocksConnection that carries
\* the far end's bytes from the first.
THEOREM RelayUsesConnection == RelaySpec => SocksImplements
<1>1. Proved!Spec => Proved!Implements
  BY PayloadIsBytes, Proved!KeepsPromise
<1>2. Proved!Promise!AbsInit => Socks!Promise!AbsInit
  BY DEF Proved!Promise!AbsInit, Socks!Promise!AbsInit
<1>3. [Proved!Promise!AbsNext]_(Proved!Promise!absVars) => [Socks!Promise!AbsNext]_(Socks!Promise!absVars)
  BY DEF Proved!Promise!AbsNext, Proved!Promise!ComeUp, Proved!Promise!GoDown,
         Proved!Promise!FarEndSends, Proved!Promise!Deliver, Proved!Promise!absVars,
         Socks!Promise!AbsNext, Socks!Promise!ComeUp, Socks!Promise!GoDown,
         Socks!Promise!FarEndSends, Socks!Promise!Deliver, Socks!Promise!absVars
<1> QED
  BY <1>1, <1>2, <1>3, SocksIsProved, PTL
     DEF SocksImplements, Socks!Implements, Proved!Implements,
         Socks!Promise!AbsSpec, Proved!Promise!AbsSpec
=============================================================================
