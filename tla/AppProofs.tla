----------------------------- MODULE AppProofs ------------------------------
(* The log and the list of the app: EventLog, for every capacity of the bus,  *)
(* size of a batch and number of events, and TunnelList, for any tunnels and  *)
(* I/O threads and any number of operations.                                  *)
(*                                                                            *)
(* ShownInOrder speaks of one concatenation; the steps move lines from one    *)
(* part of it to the next. IInv therefore speaks of the parts: each is in     *)
(* order, each lies before the next ones, and none holds an event that has    *)
(* not been dispatched, so that the next one comes last. BusInv says the      *)
(* same of the bus's buffer, beside what the view model has seen. ListInv     *)
(* is about what is saved, in memory and on disk, and what the screen shows.  *)
EXTENDS EventLog, TunnelList, SequenceTheorems, WellFoundedInduction,
        TLAPS

\* Zenon proves a leaf unless it names another prover.
USE Zenon

Before(a, b) == \A i \in DOMAIN a, j \in DOMAIN b : a[i] < b[j]
Ordered(s, n) == Increasing(s) /\ \A i \in DOMAIN s : s[i] <= n

Typed ==
  /\ dispatched \in Seq({"log", "exit"})
  /\ text \in Seq(Nat) /\ pending \in Seq(Nat) /\ logs \in Seq(Nat)

InOrder(t, p, l, n) ==
  /\ Ordered(t, n) /\ Ordered(p, n) /\ Ordered(l, n)
  /\ Before(t, p) /\ Before(t, l) /\ Before(p, l)

IInv == Typed /\ InOrder(text, pending, logs, Len(dispatched))

-----------------------------------------------------------------------------
\* The empty sequence is in order with everything.
LEMMA NoLines ==
  ASSUME NEW n \in Nat, NEW s
  PROVE  Ordered(<<>>, n) /\ Before(<<>>, s) /\ Before(s, <<>>)
  BY SMT DEF Ordered, Increasing, Before

\* What two sequences joined hold, and what the two parts of a sequence hold.
IsJoin(s, a, b) ==
  /\ s \in Seq(Nat) /\ Len(s) = Len(a) + Len(b)
  /\ \A i \in 1 .. Len(a) : s[i] = a[i]
  /\ \A i \in 1 .. Len(b) : s[Len(a) + i] = b[i]

\* A concatenation is a join.
LEMMA Concatenated ==
  ASSUME NEW a \in Seq(Nat), NEW b \in Seq(Nat)
  PROVE  IsJoin(a \o b, a, b)
<1>1. a \o b \in Seq(Nat) /\ Len(a \o b) = Len(a) + Len(b)
  BY ConcatProperties
<1>2. \A i \in 1 .. Len(a) + Len(b) :
        (a \o b)[i] = IF i <= Len(a) THEN a[i] ELSE b[i - Len(a)]
  BY ConcatProperties
<1> QED
  BY SMT, <1>1, <1>2 DEF IsJoin

\* Every element of a join is one of either part, at its place.
LEMMA JoinIndex ==
  ASSUME NEW a \in Seq(Nat), NEW b \in Seq(Nat), NEW s, IsJoin(s, a, b)
  PROVE  /\ DOMAIN s = 1 .. Len(s) /\ DOMAIN a = 1 .. Len(a) /\ DOMAIN b = 1 .. Len(b)
         /\ Len(a) \in Nat /\ Len(b) \in Nat /\ Len(s) = Len(a) + Len(b)
         /\ \A i \in 1 .. Len(s) : s[i] \in Nat
         /\ \A i \in 1 .. Len(a) : a[i] \in Nat /\ i \in 1 .. Len(s) /\ s[i] = a[i]
         /\ \A i \in 1 .. Len(b) : /\ b[i] \in Nat /\ Len(a) + i \in 1 .. Len(s)
                                   /\ s[Len(a) + i] = b[i]
         /\ \A i \in 1 .. Len(s) :
              \/ i \in 1 .. Len(a) /\ s[i] = a[i]
              \/ i - Len(a) \in 1 .. Len(b) /\ s[i] = b[i - Len(a)]
<1> USE DEF IsJoin
<1>1. ASSUME NEW i \in 1 .. Len(s), i \notin 1 .. Len(a)
      PROVE  i - Len(a) \in 1 .. Len(b) /\ s[i] = b[i - Len(a)]
  <2>1. i - Len(a) \in 1 .. Len(b) /\ Len(a) + (i - Len(a)) = i
    BY SMT, <1>1
  <2>2. s[Len(a) + (i - Len(a))] = b[i - Len(a)]
    BY <2>1
  <2> QED
    BY <2>1, <2>2
<1>2. \A i \in 1 .. Len(s) :
        \/ i \in 1 .. Len(a) /\ s[i] = a[i]
        \/ i - Len(a) \in 1 .. Len(b) /\ s[i] = b[i - Len(a)]
  BY <1>1
<1>3. /\ DOMAIN s = 1 .. Len(s) /\ DOMAIN a = 1 .. Len(a) /\ DOMAIN b = 1 .. Len(b)
      /\ Len(a) \in Nat /\ Len(b) \in Nat /\ Len(s) = Len(a) + Len(b)
  BY SMT
<1>4. \A i \in 1 .. Len(s) : s[i] \in Nat
  BY SMT
<1>5. \A i \in 1 .. Len(a) : a[i] \in Nat /\ i \in 1 .. Len(s) /\ s[i] = a[i]
  BY SMT, <1>3
<1>6. \A i \in 1 .. Len(b) : /\ b[i] \in Nat /\ Len(a) + i \in 1 .. Len(s)
                             /\ s[Len(a) + i] = b[i]
  BY SMT, <1>3
<1> QED
  BY <1>2, <1>3, <1>4, <1>5, <1>6

\* Two sequences are in order, one before the other, exactly if they are so joined.
LEMMA JoinIsOrdered ==
  ASSUME NEW a \in Seq(Nat), NEW b \in Seq(Nat), NEW s, IsJoin(s, a, b), NEW n \in Nat
  PROVE  Ordered(s, n) <=> Ordered(a, n) /\ Ordered(b, n) /\ Before(a, b)
<1> DEFINE J == Len(a)
           K == Len(b)
           L == Len(s)
<1>1. /\ DOMAIN s = 1 .. L /\ DOMAIN a = 1 .. J /\ DOMAIN b = 1 .. K
      /\ J \in Nat /\ K \in Nat /\ L = J + K
  BY JoinIndex
<1>2. \A i \in 1 .. L : s[i] \in Nat
  BY JoinIndex
<1>3. \A i \in 1 .. J : a[i] \in Nat /\ i \in 1 .. L /\ s[i] = a[i]
  BY SMT, JoinIndex
<1>4. \A i \in 1 .. K : b[i] \in Nat /\ J + i \in 1 .. L /\ s[J + i] = b[i]
  BY SMT, JoinIndex
<1>5. \A i \in 1 .. L : \/ i \in 1 .. J /\ s[i] = a[i]
                        \/ i - J \in 1 .. K /\ s[i] = b[i - J]
  BY SMT, JoinIndex
<1> HIDE DEF J, K, L
<1>6. ASSUME Ordered(s, n)
      PROVE  Ordered(a, n) /\ Ordered(b, n) /\ Before(a, b)
  <2>1. ASSUME NEW i \in 1 .. K, NEW j \in 1 .. K, i < j
        PROVE  b[i] < b[j]
    <3>1. J + i < J + j
      BY SMT, <1>1, <2>1
    <3>2. s[J + i] < s[J + j]
      BY <1>1, <1>4, <1>6, <3>1 DEF Ordered, Increasing
    <3> QED
      BY <1>4, <3>2
  <2>2. ASSUME NEW i \in 1 .. J, NEW j \in 1 .. K
        PROVE  a[i] < b[j]
    <3>1. i < J + j
      BY SMT, <1>1
    <3>2. s[i] < s[J + j]
      BY <1>1, <1>3, <1>4, <1>6, <3>1 DEF Ordered, Increasing
    <3> QED
      BY <1>3, <1>4, <3>2
  <2>3. ASSUME NEW i \in 1 .. J, NEW j \in 1 .. J, i < j
        PROVE  a[i] < a[j]
    <3>1. i \in 1 .. L /\ j \in 1 .. L /\ s[i] = a[i] /\ s[j] = a[j]
      BY <1>3
    <3> QED
      BY <1>1, <1>6, <2>3, <3>1 DEF Ordered, Increasing
  <2>4. \A i \in 1 .. J : a[i] <= n
    BY <1>1, <1>3, <1>6 DEF Ordered
  <2>5. \A i \in 1 .. K : b[i] <= n
    BY <1>1, <1>4, <1>6 DEF Ordered
  <2> QED
    BY <1>1, <2>1, <2>2, <2>3, <2>4, <2>5 DEF Ordered, Increasing, Before
<1>7. ASSUME Ordered(a, n), Ordered(b, n), Before(a, b)
      PROVE  Ordered(s, n)
  <2>1. \A i \in 1 .. L : s[i] <= n
    BY <1>1, <1>5, <1>7 DEF Ordered
  <2>2. ASSUME NEW i \in 1 .. L, NEW j \in 1 .. L, i < j
        PROVE  s[i] < s[j]
    <3>1. CASE i \in 1 .. J /\ j \in 1 .. J
      BY <1>1, <1>3, <1>7, <2>2, <3>1 DEF Ordered, Increasing
    <3>2. CASE i \in 1 .. J /\ j \notin 1 .. J
      BY <1>1, <1>3, <1>5, <1>7, <3>2 DEF Before
    <3>3. CASE i \notin 1 .. J
      <4>1. j \notin 1 .. J /\ i - J < j - J
        BY SMT, <1>1, <2>2, <3>3
      <4>2. /\ i - J \in 1 .. K /\ s[i] = b[i - J]
            /\ j - J \in 1 .. K /\ s[j] = b[j - J]
        BY <1>5, <3>3, <4>1
      <4> QED
        BY <1>1, <1>7, <4>1, <4>2 DEF Ordered, Increasing
    <3> QED
      BY <3>1, <3>2, <3>3
  <2> QED
    BY <1>1, <2>1, <2>2 DEF Ordered, Increasing
<1> QED
  BY <1>6, <1>7

\* What lies before, or after, two sequences lies so with respect to both together.
LEMMA JoinIsBefore ==
  ASSUME NEW a \in Seq(Nat), NEW b \in Seq(Nat), NEW s, IsJoin(s, a, b), NEW c \in Seq(Nat)
  PROVE  /\ Before(s, c) <=> Before(a, c) /\ Before(b, c)
         /\ Before(c, s) <=> Before(c, a) /\ Before(c, b)
<1>1. \A i \in 1 .. Len(s) :
        \/ i \in 1 .. Len(a) /\ s[i] = a[i]
        \/ i - Len(a) \in 1 .. Len(b) /\ s[i] = b[i - Len(a)]
  BY SMT, JoinIndex
<1>2. \A i \in 1 .. Len(a) : i \in 1 .. Len(s) /\ s[i] = a[i]
  BY SMT, JoinIndex
<1>3. \A i \in 1 .. Len(b) : Len(a) + i \in 1 .. Len(s) /\ s[Len(a) + i] = b[i]
  BY SMT, JoinIndex
<1>4. DOMAIN s = 1 .. Len(s) /\ DOMAIN a = 1 .. Len(a) /\ DOMAIN b = 1 .. Len(b)
  BY JoinIndex
<1>5. Before(s, c) => Before(a, c) /\ Before(b, c)
  BY <1>2, <1>3, <1>4 DEF Before
<1>6. Before(c, s) => Before(c, a) /\ Before(c, b)
  BY <1>2, <1>3, <1>4 DEF Before
<1>7. Before(a, c) /\ Before(b, c) => Before(s, c)
  BY <1>1, <1>4 DEF Before
<1>8. Before(c, a) /\ Before(c, b) => Before(c, s)
  BY <1>1, <1>4 DEF Before
<1> QED
  BY <1>5, <1>6, <1>7, <1>8

\* Append() is such a join, and so are the head and the tail of a sequence.
LEMMA Appended ==
  ASSUME NEW s \in Seq(Nat), NEW e \in Nat
  PROVE  Append(s, e) \in Seq(Nat) /\ <<e>> \in Seq(Nat) /\ IsJoin(Append(s, e), s, <<e>>)
  BY SMT DEF IsJoin

\* A sequence is the join of its head and its tail, as VmCollects and LogsCollects take it.
LEMMA HeadAndTail ==
  ASSUME NEW s \in Seq(Nat), s # <<>>
  PROVE  /\ Head(s) \in Nat /\ Tail(s) \in Seq(Nat) /\ <<Head(s)>> \in Seq(Nat)
         /\ IsJoin(s, <<Head(s)>>, Tail(s))
  BY SMT DEF IsJoin

\* A sequence is the join of any two parts it is cut into.
LEMMA Cut ==
  ASSUME NEW s \in Seq(Nat), NEW k \in Nat, k <= Len(s)
  PROVE  /\ SubSeq(s, 1, k) \in Seq(Nat) /\ SubSeq(s, k + 1, Len(s)) \in Seq(Nat)
         /\ Len(SubSeq(s, 1, k)) = k
         /\ IsJoin(s, SubSeq(s, 1, k), SubSeq(s, k + 1, Len(s)))
<1> DEFINE a == SubSeq(s, 1, k)
           b == SubSeq(s, k + 1, Len(s))
<1>1. a \in Seq(Nat) /\ Len(a) = k /\ \A i \in 1 .. k : a[i] = s[i]
  BY SMT, SubSeqProperties
<1>2. b \in Seq(Nat) /\ Len(b) = Len(s) - k /\ \A i \in 1 .. Len(s) - k : b[i] = s[k + i]
  BY SMT, SubSeqProperties
<1> HIDE DEF a, b
<1>3. IsJoin(s, a, b)
  BY SMT, <1>1, <1>2 DEF IsJoin
<1> QED
  BY <1>1, <1>2, <1>3 DEF a, b

-----------------------------------------------------------------------------
\* What is in order among the first n events is so among the first n + 1.
LEMMA MoreEvents ==
  ASSUME NEW s \in Seq(Nat), NEW n \in Nat, Ordered(s, n)
  PROVE  Ordered(s, n + 1)
  BY SMT DEF Ordered

\* The newest event is in order by itself, and after all the others.
LEMMA OneLine ==
  ASSUME NEW n \in Nat
  PROVE  /\ Ordered(<<n + 1>>, n + 1)
         /\ \A c \in Seq(Nat) : Ordered(c, n) => Before(c, <<n + 1>>)
<1>1. DOMAIN <<n + 1>> = {1} /\ <<n + 1>>[1] = n + 1
  BY SMT
<1>2. ASSUME NEW c \in Seq(Nat), Ordered(c, n), NEW i \in DOMAIN c
      PROVE  c[i] < n + 1
  BY SMT, <1>2 DEF Ordered
<1> QED
  BY SMT, <1>1, <1>2 DEF Ordered, Increasing, Before

\* Offer() keeps a buffer in order when it is given the newest event, whether or not it
\* drops the oldest one, and keeps it behind what it was behind.
LEMMA Offered ==
  ASSUME NEW s \in Seq(Nat), NEW n \in Nat, Ordered(s, n)
  PROVE  /\ Offer(s, n + 1) \in Seq(Nat) /\ Ordered(Offer(s, n + 1), n + 1)
         /\ \A c \in Seq(Nat) : Ordered(c, n) /\ Before(c, s) => Before(c, Offer(s, n + 1))
<1>1. PICK r \in Seq(Nat) : /\ Offer(s, n + 1) = Append(r, n + 1) /\ Ordered(r, n)
                            /\ \A c \in Seq(Nat) : Before(c, s) => Before(c, r)
  <2>1. CASE Len(s) = Capacity
    <3>1. s # <<>>
      BY <2>1, LogAssumption
    <3>2. /\ Tail(s) \in Seq(Nat) /\ <<Head(s)>> \in Seq(Nat) /\ Ordered(Tail(s), n)
          /\ \A c \in Seq(Nat) : Before(c, s) => Before(c, Tail(s))
      BY <3>1, HeadAndTail, JoinIsOrdered, JoinIsBefore
    <3> QED
      BY <2>1, <3>2 DEF Offer
  <2>2. CASE Len(s) # Capacity
    BY <2>2 DEF Offer
  <2> QED
    BY <2>1, <2>2
<1> DEFINE e == <<n + 1>>
           w == Append(r, n + 1)
<1>2. w \in Seq(Nat) /\ e \in Seq(Nat) /\ IsJoin(w, r, e)
  BY SMT, Appended
<1>3. Ordered(e, n + 1) /\ \A c \in Seq(Nat) : Ordered(c, n) => Before(c, e)
  BY OneLine
<1> HIDE DEF e, w
<1>4. Ordered(w, n + 1)
  <2>1. Ordered(r, n + 1) /\ Before(r, e)
    BY <1>1, <1>3, MoreEvents
  <2> QED
    BY SMT, <1>2, <1>3, <2>1, JoinIsOrdered
<1>5. ASSUME NEW c \in Seq(Nat), Ordered(c, n), Before(c, s)
      PROVE  Before(c, w)
  <2>1. Before(c, r) /\ Before(c, e)
    BY <1>1, <1>3, <1>5
  <2> QED
    BY SMT, <1>2, <2>1, JoinIsBefore
<1> QED
  BY <1>1, <1>2, <1>4, <1>5 DEF w

\* dispatch(): the event comes after all that is shown, pending or buffered.
LEMMA DispatchInOrder ==
  ASSUME IInv, NEW kind \in {"log", "exit"}, dispatch(kind)
  PROVE  IInv'
<1> DEFINE n == Len(dispatched)
<1>1. n \in Nat /\ dispatched' \in Seq({"log", "exit"}) /\ Len(dispatched') = n + 1
  BY SMT DEF dispatch, IInv, Typed
<1>2. text' = text /\ pending' = pending /\ logs' \in {logs, Offer(logs, n + 1)}
  BY DEF dispatch
<1> HIDE DEF n
<1>3. Typed /\ InOrder(text, pending, logs, n)
  BY DEF IInv, n
<1>4. Ordered(text, n + 1) /\ Ordered(pending, n + 1) /\ Ordered(logs, n + 1)
  BY <1>1, <1>3, MoreEvents DEF InOrder, Typed
<1>5. /\ Offer(logs, n + 1) \in Seq(Nat) /\ Ordered(Offer(logs, n + 1), n + 1)
      /\ Before(text, Offer(logs, n + 1)) /\ Before(pending, Offer(logs, n + 1))
  BY <1>1, <1>3, Offered DEF InOrder, Typed
<1>6. InOrder(text', pending', logs', n + 1)
  BY <1>2, <1>3, <1>4, <1>5 DEF InOrder
<1>7. Typed'
  BY <1>1, <1>2, <1>3, <1>5 DEF Typed
<1> QED
  BY <1>1, <1>6, <1>7 DEF IInv

\* The collector of LogsFragment moves a line from the front of the buffer to the end of
\* the pending ones, or drops an event that is no line.
LEMMA CollectInOrder ==
  ASSUME IInv, LogsCollects
  PROVE  IInv'
<1> DEFINE n == Len(dispatched)
           h == Head(logs)
           r == Tail(logs)
<1>1. n \in Nat /\ Typed /\ InOrder(text, pending, logs, n)
  BY SMT DEF IInv, Typed
<1>2. h \in Nat /\ r \in Seq(Nat) /\ <<h>> \in Seq(Nat) /\ IsJoin(logs, <<h>>, r)
  BY <1>1, HeadAndTail DEF LogsCollects, Typed
<1>3. /\ dispatched' = dispatched /\ text' = text /\ logs' = r
      /\ pending' \in {pending, Append(pending, h)}
  BY DEF LogsCollects, bus
<1> HIDE DEF n, h, r
<1> DEFINE e == <<h>>
           w == Append(pending, h)
<1>4. w \in Seq(Nat) /\ e \in Seq(Nat) /\ IsJoin(w, pending, e)
  BY <1>1, <1>2, Appended DEF Typed
<1> HIDE DEF e, w
<1>5. e \in Seq(Nat) /\ IsJoin(logs, e, r)
  BY <1>2 DEF e
<1>6. Ordered(e, n) /\ Ordered(r, n) /\ Before(e, r)
  BY <1>1, <1>2, <1>5, JoinIsOrdered DEF InOrder, Typed
<1>7. Before(text, e) /\ Before(text, r) /\ Before(pending, e) /\ Before(pending, r)
  BY SMT, <1>1, <1>2, <1>5, JoinIsBefore DEF InOrder, Typed
<1>8. Ordered(w, n)
  BY <1>1, <1>4, <1>6, <1>7, JoinIsOrdered DEF InOrder, Typed
<1>9. Before(text, w) /\ Before(w, r)
  BY SMT, <1>1, <1>2, <1>4, <1>6, <1>7, JoinIsBefore DEF InOrder, Typed
<1>10. InOrder(text', pending', logs', n)
  BY <1>1, <1>3, <1>6, <1>7, <1>8, <1>9 DEF InOrder, w
<1>11. Typed'
  BY <1>1, <1>2, <1>3, <1>4 DEF Typed, w
<1> QED
  BY <1>3, <1>10, <1>11 DEF IInv, n

\* flushPending() moves a batch from the front of the pending lines to the end of the text.
LEMMA FlushInOrder ==
  ASSUME IInv, Runnable
  PROVE  IInv'
<1> DEFINE n == Len(dispatched)
           k == IF Len(pending) < Batch THEN Len(pending) ELSE Batch
           a == SubSeq(pending, 1, k)
           b == SubSeq(pending, k + 1, Len(pending))
<1>1. n \in Nat /\ Typed /\ InOrder(text, pending, logs, n)
  BY SMT DEF IInv, Typed
<1>2. k \in Nat /\ k <= Len(pending)
  BY SMT, <1>1, LogAssumption DEF Typed
<1>3. a \in Seq(Nat) /\ b \in Seq(Nat) /\ Len(a) = k /\ IsJoin(pending, a, b)
  <2> HIDE DEF k
  <2> QED
    BY <1>1, <1>2, Cut DEF Typed
<1>4. Show(pending) = a
  BY DEF Show
<1>5. /\ dispatched' = dispatched /\ text' = text \o a /\ pending' = b /\ logs' = logs
  BY <1>3, <1>4 DEF Runnable, bus
<1> HIDE DEF n, k, a, b
<1>6. Ordered(a, n) /\ Ordered(b, n) /\ Before(a, b)
  BY <1>1, <1>3, JoinIsOrdered DEF InOrder, Typed
<1>7. /\ Before(text, a) /\ Before(text, b) /\ Before(a, logs) /\ Before(b, logs)
  BY SMT, <1>1, <1>3, JoinIsBefore DEF InOrder, Typed
<1>8. IsJoin(text \o a, text, a) /\ text \o a \in Seq(Nat)
  BY <1>1, <1>3, Concatenated DEF Typed, IsJoin
<1>9. Ordered(text \o a, n)
  BY <1>1, <1>3, <1>6, <1>7, <1>8, JoinIsOrdered DEF InOrder, Typed
<1>10. Before(text \o a, b) /\ Before(text \o a, logs)
  BY SMT, <1>1, <1>3, <1>6, <1>7, <1>8, JoinIsBefore DEF InOrder, Typed
<1>11. InOrder(text', pending', logs', n)
  BY <1>1, <1>5, <1>6, <1>7, <1>9, <1>10 DEF InOrder
<1>12. Typed'
  BY <1>1, <1>3, <1>5, <1>8 DEF Typed
<1> QED
  BY <1>5, <1>11, <1>12 DEF IInv, n

-----------------------------------------------------------------------------
\* The clear button, a new view and the end of a view only empty some of the parts.
LEMMA EmptiedInOrder ==
  ASSUME IInv, dispatched' = dispatched, text' \in {text, <<>>}, pending' \in {pending, <<>>},
         logs' \in {logs, <<>>}
  PROVE  IInv'
<1> DEFINE n == Len(dispatched)
<1>1. n \in Nat /\ Typed /\ InOrder(text, pending, logs, n)
  BY SMT DEF IInv, Typed
<1> HIDE DEF n
<1>2. Ordered(<<>>, n) /\ \A s : Before(<<>>, s) /\ Before(s, <<>>)
  BY <1>1, NoLines
<1>3. InOrder(text', pending', logs', n)
  BY <1>1, <1>2 DEF InOrder
<1>4. Typed'
  <2>1. <<>> \in Seq(Nat)
    BY SMT
  <2> QED
    BY <1>1, <2>1 DEF Typed
<1> QED
  BY <1>3, <1>4 DEF IInv, n

\* Every step of EventLog keeps the lines in order.
LEMMA StepInOrder ==
  ASSUME IInv, [Next]_vars
  PROVE  IInv'
<1>1. CASE \E kind \in {"log", "exit"} : dispatch(kind)
  BY <1>1, DispatchInOrder
<1>2. CASE VmCollects
  BY <1>2, EmptiedInOrder DEF VmCollects
<1>3. CASE LogsCollects
  BY <1>3, CollectInOrder
<1>4. CASE Runnable
  BY <1>4, FlushInOrder
<1>5. CASE Clear
  BY <1>5, EmptiedInOrder DEF Clear, bus
<1>6. CASE onViewCreated
  BY <1>6, EmptiedInOrder DEF onViewCreated, bus
<1>7. CASE onDestroyView
  BY <1>7, EmptiedInOrder DEF onDestroyView, bus
<1>8. CASE UNCHANGED vars
  BY <1>8, EmptiedInOrder DEF vars
<1> QED
  BY SMT, <1>1, <1>2, <1>3, <1>4, <1>5, <1>6, <1>7, <1>8 DEF Next

\* enqueue() and flushPending() never show a line before an earlier one, nor twice, however
\* many events, overflows of the bus, flushes, clears and views there are.
THEOREM LinesInOrder == Spec => []ShownInOrder
<1>1. Init => IInv
  <2> SUFFICES ASSUME Init PROVE IInv
    OBVIOUS
  <2>1. Typed /\ Len(dispatched) = 0
    BY SMT DEF Init, Typed
  <2>2. InOrder(<<>>, <<>>, <<>>, 0)
    BY NoLines DEF InOrder
  <2> QED
    BY <2>1, <2>2 DEF Init, IInv
<1>2. IInv /\ [Next]_vars => IInv'
  BY StepInOrder
<1>3. IInv => ShownInOrder
  <2> SUFFICES ASSUME IInv PROVE ShownInOrder
    OBVIOUS
  <2> DEFINE n == Len(dispatched)
             p == text \o pending
  <2>1. n \in Nat /\ Typed /\ InOrder(text, pending, logs, n)
    BY SMT DEF IInv, Typed
  <2>2. p \in Seq(Nat) /\ IsJoin(p, text, pending)
    BY <2>1, Concatenated DEF Typed, IsJoin
  <2> HIDE DEF n
  <2>3. Ordered(p, n) /\ Before(p, logs)
    BY SMT, <2>1, <2>2, JoinIsOrdered, JoinIsBefore DEF Typed, InOrder
  <2>4. Ordered(p \o logs, n)
    <3> HIDE DEF p
    <3> QED
      BY <2>1, <2>2, <2>3, Concatenated, JoinIsOrdered DEF Typed, InOrder
  <2> QED
    BY <2>4 DEF ShownInOrder, Ordered
<1> QED
  BY <1>1, <1>2, <1>3, PTL DEF Spec

-----------------------------------------------------------------------------
(* The same for the other reader: TunnelsViewModel. What it has been given    *)
(* and what the bus still holds for it are the parts here.                    *)
BusInv ==
  /\ dispatched \in Seq({"log", "exit"}) /\ vm \in Seq(Nat) /\ seen \in Seq(Nat)
  /\ Ordered(seen, Len(dispatched)) /\ Ordered(vm, Len(dispatched)) /\ Before(seen, vm)
  /\ \A e \in Range(vm) : e \in DOMAIN dispatched
  /\ \A e \in Range(seen) : e \in DOMAIN dispatched /\ dispatched[e] = "exit"
  /\ ~vmLagged =>
       \A e \in DOMAIN dispatched : dispatched[e] = "exit" => e \in Range(seen) \cup Range(vm)

\* The elements of a join are those of its parts.
LEMMA JoinMembers ==
  ASSUME NEW a \in Seq(Nat), NEW b \in Seq(Nat), NEW s, IsJoin(s, a, b)
  PROVE  Range(s) = Range(a) \cup Range(b)
<1>1. DOMAIN s = 1 .. Len(s) /\ DOMAIN a = 1 .. Len(a) /\ DOMAIN b = 1 .. Len(b)
  BY JoinIndex
<1>2. \A i \in 1 .. Len(s) :
        \/ i \in 1 .. Len(a) /\ s[i] = a[i]
        \/ i - Len(a) \in 1 .. Len(b) /\ s[i] = b[i - Len(a)]
  BY SMT, JoinIndex
<1>3. \A i \in 1 .. Len(a) : i \in 1 .. Len(s) /\ s[i] = a[i]
  BY SMT, JoinIndex
<1>4. \A i \in 1 .. Len(b) : Len(a) + i \in 1 .. Len(s) /\ s[Len(a) + i] = b[i]
  BY SMT, JoinIndex
<1>5. ASSUME NEW x \in Range(s) PROVE x \in Range(a) \/ x \in Range(b)
  <2>1. PICK i \in 1 .. Len(s) : x = s[i]
    BY <1>1 DEF Range
  <2> QED
    BY <1>1, <1>2, <2>1 DEF Range
<1>6. ASSUME NEW x \in Range(a) PROVE x \in Range(s)
  BY <1>1, <1>3 DEF Range
<1>7. ASSUME NEW x \in Range(b) PROVE x \in Range(s)
  BY <1>1, <1>4 DEF Range
<1> QED
  BY <1>5, <1>6, <1>7

\* One event is the only element of a sequence of its own.
LEMMA OneMember == ASSUME NEW e PROVE Range(<<e>>) = {e}
<1>1. DOMAIN <<e>> = {1} /\ <<e>>[1] = e
  BY SMT
<1> QED
  BY <1>1 DEF Range

\* Offer() adds the event; what it drops, it drops from a full buffer.
LEMMA OfferedMembers ==
  ASSUME NEW s \in Seq(Nat), NEW e \in Nat
  PROVE  /\ Range(Offer(s, e)) \subseteq Range(s) \cup {e} /\ e \in Range(Offer(s, e))
         /\ Len(s) # Capacity => Range(s) \subseteq Range(Offer(s, e))
<1>1. ASSUME NEW r \in Seq(Nat) PROVE Range(Append(r, e)) = Range(r) \cup {e}
  <2> DEFINE a == Append(r, e)
             o == <<e>>
  <2>1. a \in Seq(Nat) /\ o \in Seq(Nat) /\ IsJoin(a, r, o) /\ Range(o) = {e}
    BY Appended, OneMember
  <2> HIDE DEF a, o
  <2>2. Range(a) = Range(r) \cup {e}
    BY SMT, <2>1, JoinMembers
  <2> QED
    BY <2>2 DEF a
<1>2. CASE Len(s) = Capacity
  <2>1. s # <<>>
    BY <1>2, LogAssumption
  <2>2. Tail(s) \in Seq(Nat) /\ Range(Tail(s)) \subseteq Range(s)
    <3> DEFINE h == <<Head(s)>>
               r == Tail(s)
    <3>1. r \in Seq(Nat) /\ h \in Seq(Nat) /\ IsJoin(s, h, r)
      BY <2>1, HeadAndTail
    <3> HIDE DEF h, r
    <3>2. Range(s) = Range(h) \cup Range(r)
      BY <3>1, JoinMembers
    <3> QED
      BY <3>1, <3>2 DEF r
  <2> QED
    BY <1>1, <1>2, <2>2 DEF Offer
<1>3. CASE Len(s) # Capacity
  BY <1>1, <1>3 DEF Offer
<1> QED
  BY <1>2, <1>3

\* dispatch() puts the event behind those waiting for the view model, or marks it as lagged.
LEMMA DispatchDelivers ==
  ASSUME BusInv, NEW kind \in {"log", "exit"}, dispatch(kind)
  PROVE  BusInv'
<1> DEFINE n == Len(dispatched)
           v == Offer(vm, n + 1)
<1>1. /\ n \in Nat /\ DOMAIN dispatched = 1 .. n
      /\ dispatched' \in Seq({"log", "exit"}) /\ Len(dispatched') = n + 1
      /\ DOMAIN dispatched' = 1 .. n + 1
      /\ \A e \in 1 .. n : dispatched'[e] = dispatched[e]
  BY SMT DEF dispatch, BusInv
<1>2. seen' = seen /\ vm' = v /\ vmLagged' = (vmLagged \/ Len(vm) = Capacity)
  BY DEF dispatch
<1>3. /\ vm \in Seq(Nat) /\ seen \in Seq(Nat) /\ Ordered(seen, n) /\ Ordered(vm, n)
      /\ Before(seen, vm)
  BY DEF BusInv
<1>4. v \in Seq(Nat) /\ Ordered(v, n + 1) /\ Before(seen, v) /\ Ordered(seen, n + 1)
  BY <1>1, <1>3, Offered, MoreEvents
<1>5. /\ Range(v) \subseteq Range(vm) \cup {n + 1} /\ n + 1 \in Range(v)
      /\ Len(vm) # Capacity => Range(vm) \subseteq Range(v)
  BY SMT, <1>1, <1>3, OfferedMembers
<1> HIDE DEF n, v
<1>6. \A e : e \in 1 .. n + 1 <=> e \in 1 .. n \/ e = n + 1
  BY SMT, <1>1
<1>7. /\ \A e \in Range(vm) : e \in 1 .. n
      /\ \A e \in Range(seen) : e \in 1 .. n /\ dispatched[e] = "exit"
      /\ ~vmLagged => \A e \in 1 .. n : dispatched[e] = "exit" => e \in Range(seen) \cup Range(vm)
  BY <1>1 DEF BusInv
<1>8. /\ \A e \in Range(v) : e \in 1 .. n + 1
      /\ \A e \in Range(seen) : e \in 1 .. n + 1 /\ dispatched'[e] = "exit"
      /\ ~vmLagged' => \A e \in 1 .. n + 1 : dispatched'[e] = "exit" => e \in Range(seen) \cup Range(v)
  BY <1>1, <1>2, <1>5, <1>6, <1>7
<1> QED
  BY <1>1, <1>2, <1>4, <1>8 DEF BusInv

\* The view model sees the first waiting event; an exit moves from the waiting to the seen ones.
LEMMA VmCollectsDelivers ==
  ASSUME BusInv, VmCollects
  PROVE  BusInv'
<1> DEFINE n == Len(dispatched)
           h == Head(vm)
           r == Tail(vm)
           e == <<h>>
           w == Append(seen, h)
<1>1. /\ dispatched' = dispatched /\ vmLagged' = vmLagged /\ vm' = r
      /\ seen' = IF dispatched[h] = "exit" THEN w ELSE seen
  BY DEF VmCollects
<1>2. /\ n \in Nat /\ vm \in Seq(Nat) /\ seen \in Seq(Nat) /\ Ordered(seen, n) /\ Ordered(vm, n)
      /\ Before(seen, vm) /\ vm # <<>>
  BY SMT DEF BusInv, VmCollects
<1>3. h \in Nat /\ r \in Seq(Nat) /\ e \in Seq(Nat) /\ IsJoin(vm, e, r)
  BY <1>2, HeadAndTail
<1>4. w \in Seq(Nat) /\ IsJoin(w, seen, e) /\ Range(e) = {h}
  BY <1>2, <1>3, Appended, OneMember
<1> HIDE DEF n, h, r, e, w
<1>5. Ordered(e, n) /\ Ordered(r, n) /\ Before(e, r)
  BY <1>2, <1>3, JoinIsOrdered
<1>6. Before(seen, e) /\ Before(seen, r)
  BY <1>2, <1>3, JoinIsBefore
<1>7. Ordered(w, n) /\ Before(w, r)
  BY SMT, <1>2, <1>3, <1>4, <1>5, <1>6, JoinIsOrdered, JoinIsBefore
<1>8. Range(vm) = {h} \cup Range(r) /\ Range(w) = Range(seen) \cup {h}
  BY SMT, <1>2, <1>3, <1>4, JoinMembers
<1> QED
  BY <1>1, <1>2, <1>3, <1>4, <1>5, <1>6, <1>7, <1>8 DEF BusInv, n

\* The view model is told of the end of OpenFlux in order and once, and always unless the
\* bus overflowed, for every capacity and any number of events.
THEOREM ExitsDelivered == Spec => []ExitIsDelivered
<1>1. Init => BusInv
  <2> SUFFICES ASSUME Init PROVE BusInv
    OBVIOUS
  <2>1. /\ dispatched = <<>> /\ vm = <<>> /\ seen = <<>> /\ <<>> \in Seq(Nat)
        /\ dispatched \in Seq({"log", "exit"}) /\ Len(dispatched) = 0
    BY SMT DEF Init
  <2>2. Range(<<>>) = {} /\ DOMAIN dispatched = {}
    BY SMT, <2>1 DEF Range
  <2> QED
    BY <2>1, <2>2, NoLines DEF BusInv
<1>2. BusInv /\ [Next]_vars => BusInv'
  <2> SUFFICES ASSUME BusInv, [Next]_vars PROVE BusInv'
    OBVIOUS
  <2>1. CASE \E kind \in {"log", "exit"} : dispatch(kind)
    BY <2>1, DispatchDelivers
  <2>2. CASE VmCollects
    BY <2>2, VmCollectsDelivers
  <2>3. CASE UNCHANGED bus
    BY <2>3 DEF bus, BusInv
  <2> QED
    BY <2>1, <2>2, <2>3
    DEF Next, vars, bus, LogsCollects, Runnable, Clear, onViewCreated, onDestroyView
<1>3. BusInv => ExitIsDelivered
  <2> SUFFICES ASSUME BusInv PROVE ExitIsDelivered
    OBVIOUS
  <2>1. IsJoin(seen \o vm, seen, vm)
    BY Concatenated DEF BusInv
  <2>2. Range(seen \o vm) = Range(seen) \cup Range(vm)
    BY <2>1, JoinMembers DEF BusInv
  <2>3. Ordered(seen \o vm, Len(dispatched))
    BY SMT, <2>1, JoinIsOrdered DEF BusInv
  <2> QED
    BY <2>2, <2>3 DEF BusInv, ExitIsDelivered, Ordered
<1> QED
  BY <1>1, <1>2, <1>3, PTL DEF Spec
-----------------------------------------------------------------------------
\* Induction and recursion over numbers, as lemmas about sets and functions instead of
\* schemes: what a recursive function computes is proved by these.

\* A set with 0 and with the successor of each of its numbers holds all of them: the least
\* number outside would have its predecessor inside.
LEMMA Induction ==
  ASSUME NEW S, 0 \in S, \A n \in Nat : n \in S => n + 1 \in S
  PROVE  Nat \subseteq S
<1> SUFFICES ASSUME Nat \ S # {} PROVE FALSE
  OBVIOUS
<1>1. PICK x \in Nat \ S : \A y \in Nat \ S : <<y, x>> \notin OpToRel(<, Nat)
  BY NatLessThanWellFounded, WFMin
<1>2. x \in Nat /\ x # 0 /\ x - 1 \in Nat /\ x - 1 + 1 = x /\ x - 1 < x
  BY SMT
<1>3. <<x - 1, x>> \in OpToRel(<, Nat)
  BY <1>2 DEF OpToRel
<1>4. x - 1 \in S
  BY <1>1, <1>2, <1>3
<1> QED
  BY <1>1, <1>2, <1>4

\* g is defined by recursion on 0 .. n, from base by step.
IsRecursive(g, A, n, base, step) ==
  /\ g \in [0 .. n -> A] /\ g[0] = base
  /\ \A i \in 1 .. n : g[i] = step[<<i, g[i - 1]>>]

\* Such a function exists for every n, by induction on n.
LEMMA Recursion ==
  ASSUME NEW A, NEW base \in A, NEW step, NEW n \in Nat,
         \A i \in 1 .. n, a \in A : step[<<i, a>>] \in A
  PROVE  \E g : IsRecursive(g, A, n, base, step)
<1> DEFINE S == {k \in Nat : k <= n => \E g : IsRecursive(g, A, k, base, step)}
<1>1. 0 \in S
  <2>1. IsRecursive([i \in 0 .. 0 |-> base], A, 0, base, step)
    BY SMT DEF IsRecursive
  <2> QED
    BY <2>1
<1>2. ASSUME NEW k \in Nat, k \in S, k + 1 <= n PROVE \E g : IsRecursive(g, A, k + 1, base, step)
  <2>1. PICK g : IsRecursive(g, A, k, base, step)
    BY SMT, <1>2
  <2> DEFINE v == step[<<k + 1, g[k]>>]
             h == [i \in 0 .. k + 1 |-> IF i = k + 1 THEN v ELSE g[i]]
  <2>2. v \in A
    BY SMTT(60), <1>2, <2>1 DEF IsRecursive
  <2>3. \A i \in 1 .. k : h[i] = step[<<i, h[i - 1]>>]
    <3> SUFFICES ASSUME NEW i \in 1 .. k PROVE h[i] = step[<<i, h[i - 1]>>]
      OBVIOUS
    <3>1. h[i] = g[i] /\ h[i - 1] = g[i - 1]
      BY SMT
    <3> QED
      BY <2>1, <3>1 DEF IsRecursive
  <2>4. h[k + 1] = step[<<k + 1, h[k]>>] /\ h[0] = base
    BY SMT, <2>1 DEF IsRecursive
  <2>5. h \in [0 .. k + 1 -> A]
    BY SMT, <2>1, <2>2 DEF IsRecursive
  <2> HIDE DEF h
  <2>6. \A i \in 1 .. k + 1 : h[i] = step[<<i, h[i - 1]>>]
    <3> SUFFICES ASSUME NEW i \in 1 .. k + 1 PROVE h[i] = step[<<i, h[i - 1]>>]
      OBVIOUS
    <3>1. i \in 1 .. k \/ (i = k + 1 /\ i - 1 = k)
      BY SMT
    <3> QED
      BY <2>3, <2>4, <3>1
  <2> QED
    BY <2>4, <2>5, <2>6 DEF IsRecursive
<1>3. \A k \in Nat : k \in S => k + 1 \in S
  BY SMT, <1>2
<1> HIDE DEF S
<1>4. Nat \subseteq S
  BY <1>1, <1>3, Induction
<1> QED
  BY SMT, <1>4 DEF S

-----------------------------------------------------------------------------
Unique(list) == \A i, j \in DOMAIN list : list[i].id = list[j].id => i = j
IsList(list) == list \in Seq(Tunnels) /\ Unique(list)

\* What the first i elements of a list leave when those with an id are taken out.
IsKept(kept, list, id) ==
  /\ kept[0] = <<>>
  /\ \A i \in 1 .. Len(list) :
       kept[i] = IF list[i].id = id THEN kept[i - 1] ELSE Append(kept[i - 1], list[i])

\* removeAll() is computed along the list.
LEMMA RemoveAllUnfolds ==
  ASSUME NEW list \in Seq(Tunnels), NEW id
  PROVE  \E kept : IsKept(kept, list, id) /\ removeAll(list, id) = kept[Len(list)]
<1> DEFINE A == Seq(Tunnels)
           n == Len(list)
           next(i, s) == IF list[i].id = id THEN s ELSE Append(s, list[i])
           step == [p \in (1 .. n) \X A |-> next(p[1], p[2])]
<1>1. \A i \in 1 .. n, s \in A : step[<<i, s>>] = next(i, s) /\ next(i, s) \in A
  BY SMT
<1>2. n \in Nat /\ <<>> \in A
  BY SMT
<1> HIDE DEF step, A, n, next
<1>3. PICK g : IsRecursive(g, A, n, <<>>, step)
  BY <1>1, <1>2, Recursion
<1>4. g \in [0 .. n -> A] /\ g[0] = <<>> /\ \A i \in 1 .. n : g[i] = next(i, g[i - 1])
  <2> SUFFICES ASSUME NEW i \in 1 .. n PROVE g[i] = next(i, g[i - 1])
    BY <1>3 DEF IsRecursive
  <2>1. i - 1 \in 0 .. n
    BY SMT, <1>2
  <2>2. g[i - 1] \in A /\ g[i] = step[<<i, g[i - 1]>>]
    BY <1>3, <2>1 DEF IsRecursive
  <2> QED
    BY <1>1, <2>2
<1> DEFINE kept[i \in 0 .. Len(list)] ==
             IF i = 0 THEN <<>>
             ELSE IF list[i].id = id THEN kept[i - 1] ELSE Append(kept[i - 1], list[i])
<1>5. g = [i \in 0 .. Len(list) |->
             IF i = 0 THEN <<>>
             ELSE IF list[i].id = id THEN g[i - 1] ELSE Append(g[i - 1], list[i])]
  <2> DEFINE f == [i \in 0 .. n |-> IF i = 0 THEN <<>> ELSE next(i, g[i - 1])]
  <2>1. \A i \in 0 .. n : g[i] = IF i = 0 THEN <<>> ELSE next(i, g[i - 1])
    BY SMT, <1>2, <1>4
  <2>2. g = f
    BY <1>4, <2>1
  <2> QED
    BY <2>2 DEF next, n
<1>6. kept = [i \in 0 .. Len(list) |->
                IF i = 0 THEN <<>>
                ELSE IF list[i].id = id THEN kept[i - 1] ELSE Append(kept[i - 1], list[i])]
  BY <1>5
<1>7. removeAll(list, id) = kept[Len(list)]
  BY DEF removeAll
<1>8. IsKept(kept, list, id)
  <2> HIDE DEF kept
  <2>1. 0 \in 0 .. Len(list) /\ \A i \in 1 .. Len(list) : i \in 0 .. Len(list) /\ i # 0
    BY SMT
  <2>2. \A i \in 0 .. Len(list) :
          kept[i] = IF i = 0 THEN <<>>
                    ELSE IF list[i].id = id THEN kept[i - 1] ELSE Append(kept[i - 1], list[i])
    BY <1>6
  <2>3. kept[0] = <<>>
    BY <2>1, <2>2
  <2> QED
    BY <2>1, <2>2, <2>3 DEF IsKept
<1> QED
  BY <1>7, <1>8

\* A tunnel whose id a list does not have may be appended to it.
LEMMA AppendedIsList ==
  ASSUME NEW list, IsList(list), NEW t \in Tunnels, \A i \in DOMAIN list : list[i].id # t.id
  PROVE  IsList(Append(list, t))
<1> DEFINE a == Append(list, t)
           n == Len(list)
<1>1. list \in Seq(Tunnels) /\ n \in Nat /\ DOMAIN list = 1 .. n
  BY SMT DEF IsList
<1>2. /\ a \in Seq(Tunnels) /\ DOMAIN a = 1 .. n + 1 /\ a[n + 1] = t
      /\ \A i \in 1 .. n : a[i] = list[i]
  BY SMT, <1>1, AppendProperties
<1> HIDE DEF a, n
<1>3. ASSUME NEW i \in 1 .. n + 1, NEW j \in 1 .. n + 1, a[i].id = a[j].id
      PROVE  i = j
  <2>1. (i \in 1 .. n \/ i = n + 1) /\ (j \in 1 .. n \/ j = n + 1)
    BY SMT, <1>1
  <2> QED
    BY <1>1, <1>2, <1>3, <2>1 DEF IsList, Unique
<1> QED
  BY <1>2, <1>3 DEF IsList, Unique, a

From(s, list, i) == \A k \in DOMAIN s : \E j \in 1 .. i : s[k] = list[j]

\* removeAll() leaves a list whose ids are different, if they were.
LEMMA RemoveAllKeepsList ==
  ASSUME NEW list, IsList(list), NEW id
  PROVE  IsList(removeAll(list, id))
<1>1. list \in Seq(Tunnels) /\ Len(list) \in Nat /\ DOMAIN list = 1 .. Len(list)
  BY SMT DEF IsList
<1>2. PICK kept : IsKept(kept, list, id) /\ removeAll(list, id) = kept[Len(list)]
  BY <1>1, RemoveAllUnfolds
<1> DEFINE S == {i \in Nat : i <= Len(list) => IsList(kept[i]) /\ From(kept[i], list, i)}
<1>3. 0 \in S
  <2>1. IsList(<<>>) /\ From(<<>>, list, 0)
    BY SMT DEF IsList, Unique, From
  <2> QED
    BY <1>2, <2>1 DEF IsKept
<1>4. ASSUME NEW n \in Nat, n \in S, n + 1 <= Len(list)
      PROVE  IsList(kept[n + 1]) /\ From(kept[n + 1], list, n + 1)
  <2> DEFINE s == kept[n]
             t == list[n + 1]
  <2>1. IsList(s) /\ From(s, list, n)
    BY SMT, <1>1, <1>4
  <2>2. n + 1 \in 1 .. Len(list) /\ (n + 1) - 1 = n /\ t \in Tunnels
    BY SMT, <1>1, <1>4
  <2>3. kept[n + 1] = IF t.id = id THEN s ELSE Append(s, t)
    BY <1>2, <2>2 DEF IsKept
  <2> HIDE DEF s, t
  <2>4. \A k \in DOMAIN s : s[k].id # t.id
    <3> SUFFICES ASSUME NEW k \in DOMAIN s, s[k].id = t.id PROVE FALSE
      OBVIOUS
    <3>1. PICK j \in 1 .. n : s[k] = list[j]
      BY <2>1 DEF From
    <3>2. j \in 1 .. Len(list) /\ j # n + 1 /\ list[j].id = list[n + 1].id
      BY SMT, <1>1, <1>4, <3>1 DEF t
    <3> QED
      BY <1>1, <2>2, <3>2 DEF IsList, Unique
  <2>5. IsList(Append(s, t))
    BY <2>1, <2>2, <2>4, AppendedIsList
  <2>6. From(s, list, n + 1)
    BY SMT, <2>1 DEF From
  <2>7. From(Append(s, t), list, n + 1)
    <3>1. s \in Seq(Tunnels)
      BY <2>1 DEF IsList
    <3>2. /\ DOMAIN Append(s, t) = 1 .. Len(s) + 1 /\ Append(s, t)[Len(s) + 1] = t
          /\ \A i \in 1 .. Len(s) : Append(s, t)[i] = s[i]
          /\ DOMAIN s = 1 .. Len(s) /\ Len(s) \in Nat
      BY SMT, <2>2, <3>1, AppendProperties
    <3> HIDE DEF From
    <3>3. ASSUME NEW k \in 1 .. Len(s) + 1 PROVE \E j \in 1 .. n + 1 : Append(s, t)[k] = list[j]
      <4>1. CASE k \in 1 .. Len(s)
        BY <2>6, <3>2, <4>1 DEF From
      <4>2. CASE k = Len(s) + 1
        BY SMT, <3>2, <4>2 DEF t
      <4> QED
        BY SMT, <3>2, <4>1, <4>2
    <3> QED
      BY <3>2, <3>3 DEF From
  <2> QED
    BY <2>1, <2>3, <2>5, <2>6, <2>7
<1>5. \A n \in Nat : n \in S => n + 1 \in S
  BY SMT, <1>4
<1> HIDE DEF S
<1>6. Nat \subseteq S
  BY <1>3, <1>5, Induction
<1> QED
  BY SMT, <1>1, <1>2, <1>6 DEF S

-----------------------------------------------------------------------------
Prefs == [list : Seq(Tunnels), id : Ids \cup {0}]
Choice == Tunnels \cup {NoTunnel}
Io ==
  [at : {"idle", "load", "show", "getSelected", "select"}, list : Seq(Tunnels), sel : Choice]

Saved(p) == p \in Prefs /\ Unique(p.list)

\* What is saved and on the screen.
Shown ==
  /\ Saved(prefs) /\ tunnels \in Seq(Tunnels) /\ selected \in Choice
  /\ ~stale => tunnels = prefs.list /\ selected = getSelected(prefs)

\* What may be saved, shown or started later.
ToCome ==
  /\ Saved(disk) /\ active \in Choice /\ pendingStart \in Choice
  /\ io \in [Workers -> Io]

ListInv == Shown /\ ToCome

-----------------------------------------------------------------------------
\* The elements of a list are tunnels.
LEMMA Members ==
  ASSUME NEW list \in Seq(Tunnels)
  PROVE  /\ Range(list) \subseteq Tunnels
         /\ \A i \in DOMAIN list : list[i] \in Range(list)
         /\ \A t \in Range(list) : \E i \in DOMAIN list : list[i] = t
  BY SMT DEF Range

\* null is a choice of its own, of no tunnel's id.
LEMMA NoTunnelIsChoice == NoTunnel \in Choice /\ NoTunnel.id = 0 /\ \A t \in Choice : t.id \in Ids \cup {0}
  BY SMT DEF NoTunnel, Choice, Tunnels

\* An idle I/O thread is one of the states of a thread.
LEMMA IdleIsIo == IdleIo \in Io
<1>1. <<>> \in Seq(Tunnels)
  BY SMT
<1> QED
  BY <1>1, NoTunnelIsChoice DEF IdleIo, Io

\* getSelected() returns a tunnel of the list or null.
LEMMA SelectedIsChoice ==
  ASSUME NEW p \in Prefs
  PROVE  getSelected(p) \in Choice
<1>1. p.list \in Seq(Tunnels)
  BY DEF Prefs
<1>2. p.list # <<>> => Head(p.list) \in Tunnels
  BY SMT, <1>1
<1> QED
  BY <1>1, <1>2, Members DEF getSelected, Choice

\* Fields of the preferences after a change of one of them.
LEMMA ChangedList ==
  ASSUME NEW p \in Prefs, NEW list \in Seq(Tunnels)
  PROVE  [p EXCEPT !.list = list] \in Prefs /\ [p EXCEPT !.list = list].list = list
  BY DEF Prefs

\* Writing the selected id leaves the list alone.
LEMMA ChangedId ==
  ASSUME NEW p \in Prefs, NEW id \in Ids \cup {0}
  PROVE  /\ [p EXCEPT !.id = id] \in Prefs /\ [p EXCEPT !.id = id].id = id
         /\ [p EXCEPT !.id = id].list = p.list
  BY DEF Prefs

\* The tunnel whose id is saved is the selected one.
LEMMA SelectedById ==
  ASSUME NEW p, Saved(p), NEW t \in Range(p.list)
  PROVE  getSelected([p EXCEPT !.id = t.id]) = t
<1> DEFINE q == [p EXCEPT !.id = t.id]
<1>1. p \in Prefs /\ p.list \in Seq(Tunnels) /\ Unique(p.list)
  BY DEF Saved, Prefs
<1>2. t \in Tunnels /\ t.id \in Ids \cup {0}
  BY <1>1, Members DEF Tunnels
<1>3. q.list = p.list /\ q.id = t.id
  BY <1>1, <1>2, ChangedId
<1> HIDE DEF q
<1>4. p.list # <<>>
  BY SMT, <1>1 DEF Range
<1>5. \A u \in Range(p.list) : u.id = t.id => u = t
  BY SMT, <1>1, Members DEF Unique
<1>6. (CHOOSE u \in Range(p.list) : u.id = t.id) = t
  BY <1>5
<1> QED
  BY <1>3, <1>4, <1>6 DEF getSelected, q

-----------------------------------------------------------------------------
\* refresh() on the main thread shows what is saved.
LEMMA RefreshedIsShown ==
  ASSUME NEW p, Saved(p), refresh(p)
  PROVE  Shown'
<1>1. p \in Prefs /\ p.list \in Seq(Tunnels)
  BY DEF Saved, Prefs
<1>2. prefs' = p /\ tunnels' = p.list /\ selected' = getSelected(p)
  BY DEF refresh
<1>3. getSelected(prefs)' = getSelected(p)
  BY <1>2 DEF getSelected
<1>4. selected' \in Choice
  BY <1>1, <1>2, SelectedIsChoice
<1> QED
  BY <1>1, <1>2, <1>3, <1>4 DEF Shown, Saved

\* addTunnel() saves a list whose ids are different.
LEMMA AddedIsSaved ==
  ASSUME Saved(prefs), NEW t \in Tunnels
  PROVE  Saved(addTunnel(t))
<1>1. prefs \in Prefs /\ prefs.list \in Seq(Tunnels) /\ Unique(prefs.list)
  BY DEF Saved, Prefs
<1> DEFINE l == Append(prefs.list, t)
<1>2. CASE \E u \in Range(prefs.list) : u.id = t.id
  BY <1>2 DEF addTunnel
<1>3. CASE ~\E u \in Range(prefs.list) : u.id = t.id
  <2>1. \A i \in DOMAIN prefs.list : prefs.list[i].id # t.id
    BY <1>1, <1>3, Members
  <2>2. IsList(l)
    BY <1>1, <2>1, AppendedIsList DEF IsList
  <2>3. addTunnel(t) = [prefs EXCEPT !.list = l]
    BY <1>3 DEF addTunnel
  <2> HIDE DEF l
  <2> QED
    BY <1>1, <2>2, <2>3, ChangedList DEF Saved, IsList
<1> QED
  BY <1>2, <1>3

\* addTunnel(), with the refresh() it ends in.
LEMMA AddTunnelStep ==
  ASSUME ListInv, AddTunnel
  PROVE  ListInv'
<1>1. PICK t \in Tunnels : refresh(addTunnel(t))
  BY DEF AddTunnel
<1>2. Shown'
  BY <1>1, AddedIsSaved, RefreshedIsShown DEF ListInv, Shown
<1>3. ToCome'
  BY DEF AddTunnel, session, ui, ListInv, ToCome
<1> QED
  BY <1>2, <1>3 DEF ListInv

\* removeTunnel(), with the refresh() it ends in.
LEMMA RemoveTunnelStep ==
  ASSUME ListInv, RemoveTunnel
  PROVE  ListInv'
<1>1. PICK t \in Range(tunnels) : refresh([prefs EXCEPT !.list = removeAll(@, t.id)])
  BY DEF RemoveTunnel
<1> DEFINE l == removeAll(prefs.list, t.id)
<1>2. prefs \in Prefs /\ IsList(prefs.list)
  BY DEF ListInv, Shown, Saved, Prefs, IsList
<1>3. IsList(l)
  BY <1>2, RemoveAllKeepsList
<1>4. refresh([prefs EXCEPT !.list = l])
  BY <1>1
<1> HIDE DEF l
<1>5. Saved([prefs EXCEPT !.list = l])
  BY <1>2, <1>3, ChangedList DEF Saved, IsList
<1>6. Shown'
  BY <1>4, <1>5, RefreshedIsShown
<1>7. ToCome'
  BY DEF RemoveTunnel, session, ui, ListInv, ToCome
<1> QED
  BY <1>6, <1>7 DEF ListInv

\* updateTunnel(), with the refresh() it ends in.
LEMMA UpdateTunnelStep ==
  ASSUME ListInv, UpdateTunnel
  PROVE  ListInv'
<1>1. PICK old \in Range(tunnels), c \in Contents, idx \in DOMAIN prefs.list :
        /\ prefs.list[idx].id = old.id
        /\ refresh([prefs EXCEPT !.list[idx] = [old EXCEPT !.fields = c]])
  BY DEF UpdateTunnel
<1> DEFINE new == [old EXCEPT !.fields = c]
           l == [prefs.list EXCEPT ![idx] = new]
<1>2. prefs \in Prefs /\ IsList(prefs.list) /\ tunnels \in Seq(Tunnels)
  BY DEF ListInv, Shown, Saved, Prefs, IsList
<1>3. new \in Tunnels /\ new.id = old.id
  BY <1>2, Members DEF Tunnels
<1>4. refresh([prefs EXCEPT !.list = l])
  BY <1>1
<1> HIDE DEF new
<1>5. IsList(l)
  <2>1. /\ prefs.list \in Seq(Tunnels) /\ Unique(prefs.list)
        /\ DOMAIN l = DOMAIN prefs.list /\ l[idx] = new
        /\ \A i \in DOMAIN prefs.list : i # idx => l[i] = prefs.list[i]
    BY <1>2, <1>3 DEF IsList
  <2>2. l \in Seq(Tunnels)
    BY SMT, <1>3, <2>1
  <2> HIDE DEF l
  <2>3. \A i \in DOMAIN prefs.list : l[i].id = prefs.list[i].id
    BY <1>1, <1>3, <2>1
  <2> QED
    BY <2>1, <2>2, <2>3 DEF IsList, Unique
<1> HIDE DEF l
<1>6. Saved([prefs EXCEPT !.list = l])
  BY <1>2, <1>5, ChangedList DEF Saved, IsList
<1>7. Shown'
  BY <1>4, <1>6, RefreshedIsShown
<1>8. ToCome'
  BY DEF UpdateTunnel, ui, ListInv, ToCome
<1> QED
  BY <1>7, <1>8 DEF ListInv

\* A tunnel of the list that is started or selected is the one whose id is saved.
LEMMA ChosenIsShown ==
  ASSUME NEW p, Saved(p), NEW t \in Choice,
         prefs' = [p EXCEPT !.id = t.id], selected' = t, tunnels' \in Seq(Tunnels),
         ~stale' => tunnels' = p.list /\ t \in Range(p.list)
  PROVE  Shown'
<1>1. p \in Prefs /\ Unique(p.list) /\ t.id \in Ids \cup {0}
  BY NoTunnelIsChoice DEF Saved
<1>2. prefs' \in Prefs /\ prefs'.list = p.list
  BY <1>1, ChangedId
<1>3. ~stale' => getSelected(prefs)' = t
  <2>1. t \in Range(p.list) => getSelected([p EXCEPT !.id = t.id]) = t
    BY SelectedById
  <2>2. getSelected(prefs)' = getSelected([p EXCEPT !.id = t.id])
    BY SMT DEF getSelected
  <2> QED
    BY <2>1, <2>2
<1> QED
  BY <1>1, <1>2, <1>3 DEF Shown, Saved

\* selectTunnel().
LEMMA SelectTunnelStep ==
  ASSUME ListInv, SelectTunnel
  PROVE  ListInv'
<1>1. PICK t \in Range(tunnels) :
        /\ prefs' = [prefs EXCEPT !.id = t.id] /\ selected' = t
        /\ stale' = (stale \/ t \notin Range(prefs.list) \/ IoBusy)
  BY DEF SelectTunnel
<1>2. tunnels' = tunnels /\ tunnels \in Seq(Tunnels) /\ Saved(prefs)
  BY DEF SelectTunnel, ListInv, Shown
<1>3. t \in Choice
  BY <1>2, Members DEF Choice
<1>4. ~stale' => tunnels' = prefs.list /\ t \in Range(prefs.list)
  BY <1>1, <1>2 DEF ListInv, Shown
<1>5. Shown'
  BY <1>1, <1>2, <1>3, <1>4, ChosenIsShown
<1>6. ToCome'
  BY DEF SelectTunnel, ui, ListInv, ToCome
<1> QED
  BY <1>5, <1>6 DEF ListInv

\* What is on the screen when a change of the preferences to p was shown, if it was one.
ShownAfter(p) ==
  /\ Saved(p) /\ tunnels' \in Seq(Tunnels)
  /\ IF p = prefs THEN tunnels' = tunnels ELSE tunnels' = p.list

\* A screen that shows what is saved is left alone when nothing is saved, and shows the new
\* selection otherwise.
LEMMA LeftAsSaved ==
  ASSUME Shown, NEW p, ShownAfter(p), prefs' = p,
         IF p = prefs THEN UNCHANGED <<selected, stale>> ELSE selected' = getSelected(p) /\ stale' = IoBusy
  PROVE  Shown'
<1>1. CASE p = prefs
  <2>1. prefs' = prefs /\ tunnels' = tunnels /\ selected' = selected /\ stale' = stale
    BY <1>1 DEF ShownAfter
  <2>2. getSelected(prefs)' = getSelected(prefs)
    BY <2>1 DEF getSelected
  <2> QED
    BY <2>1, <2>2 DEF Shown
<1>2. CASE p # prefs
  <2>1. tunnels' = p.list /\ selected' = getSelected(p) /\ Saved(p) /\ p \in Prefs
    BY <1>2 DEF ShownAfter, Saved
  <2>2. getSelected(prefs)' = getSelected(p)
    BY DEF getSelected
  <2>3. selected' \in Choice
    BY <2>1, SelectedIsChoice
  <2> QED
    BY <2>1, <2>2, <2>3 DEF Shown, ShownAfter
<1> QED
  BY <1>1, <1>2

\* startTunnel() selects the tunnel it starts, on the screen as in the preferences.
LEMMA StartedIsShown ==
  ASSUME Shown, NEW p, ShownAfter(p), NEW t \in Choice, startTunnel(t, p), active \in Choice
  PROVE  Shown' /\ active' \in Choice
<1>1. CASE /\ active = t /\ prefs' = p
           /\ IF p = prefs THEN UNCHANGED <<selected, stale>> ELSE selected' = getSelected(p) /\ stale' = IoBusy
           /\ UNCHANGED session
  BY <1>1, LeftAsSaved DEF session
<1>2. CASE /\ prefs' = [p EXCEPT !.id = t.id] /\ selected' = t
           /\ stale' = ((p = prefs /\ stale) \/ t \notin Range(p.list) \/ IoBusy)
           /\ active' = t /\ stopping' = FALSE
  <2>1. ~stale' => tunnels' = p.list /\ t \in Range(p.list)
    BY <1>2 DEF Shown, ShownAfter
  <2>2. Shown'
    BY <1>2, <2>1, ChosenIsShown DEF ShownAfter
  <2> QED
    BY <1>2, <2>2
<1> QED
  BY <1>1, <1>2 DEF startTunnel

\* startCurrent() does so with the active, the shown or the saved tunnel.
LEMMA StartCurrentIsShown ==
  ASSUME Shown, startCurrent, active \in Choice, tunnels' = tunnels
  PROVE  Shown' /\ active' \in Choice
<1>1. Current \in Choice
  BY SelectedIsChoice DEF Current, Shown, Saved
<1>2. ShownAfter(prefs)
  BY DEF ShownAfter, Shown
<1>3. CASE Current = NoTunnel
  <2>1. prefs' = prefs /\ selected' = selected /\ stale' = stale /\ active' = active
    BY <1>3 DEF startCurrent, session
  <2>2. getSelected(prefs)' = getSelected(prefs)
    BY <2>1 DEF getSelected
  <2> QED
    BY <2>1, <2>2 DEF Shown
<1>4. CASE Current # NoTunnel
  BY <1>1, <1>2, <1>4, StartedIsShown DEF startCurrent
<1> QED
  BY <1>3, <1>4

\* requestVpnAndStart() leaves the question, with what it is for.
LEMMA AskedIsShown ==
  ASSUME Shown, NEW p, ShownAfter(p), NEW t, AskPermission(t, p)
  PROVE  Shown' /\ active' = active /\ pendingStart' = t
  BY LeftAsSaved DEF AskPermission, session

\* With the preferences left alone there is nothing new to show.
LEMMA SavedIsShownAfter ==
  ASSUME Shown, tunnels' = tunnels
  PROVE  ShownAfter(prefs)
  BY DEF ShownAfter, Shown

\* A tap on the connect button stops, asks for the permission or starts.
LEMMA ConnectButtonStep ==
  ASSUME ListInv, ConnectButton
  PROVE  ListInv'
<1>1. /\ Shown /\ active \in Choice /\ pendingStart \in Choice
      /\ tunnels' = tunnels /\ disk' = disk /\ io' = io
  BY DEF ListInv, ToCome, ConnectButton
<1>2. ShownAfter(prefs)
  BY <1>1, SavedIsShownAfter
<1>3. Shown' /\ active' \in Choice /\ pendingStart' \in Choice
  <2>1. CASE active # NoTunnel
    <3>1. /\ prefs' = prefs /\ selected' = selected /\ stale' = stale /\ active' = active
          /\ pendingStart' = pendingStart
      BY <2>1 DEF ConnectButton, ui
    <3>2. getSelected(prefs)' = getSelected(prefs)
      BY <3>1 DEF getSelected
    <3> QED
      BY <1>1, <3>1, <3>2 DEF Shown
  <2>2. CASE AskPermission(NoTunnel, prefs)
    BY <1>1, <1>2, <2>2, AskedIsShown, NoTunnelIsChoice
  <2>3. CASE startCurrent /\ UNCHANGED ui
    BY <1>1, <2>3, StartCurrentIsShown DEF ui
  <2> QED
    BY <2>1, <2>2, <2>3 DEF ConnectButton
<1> QED
  BY <1>1, <1>3 DEF ListInv, ToCome

\* A scanned code adds its tunnel, unless the list has its id, and starts it.
LEMMA QrScannedStep ==
  ASSUME ListInv, QrScanned
  PROVE  ListInv'
<1>1. PICK t \in Tunnels :
        /\ tunnels' = IF addTunnel(t) = prefs THEN tunnels ELSE addTunnel(t).list
        /\ AskPermission(t, addTunnel(t)) \/ (startTunnel(t, addTunnel(t)) /\ UNCHANGED ui)
  BY DEF QrScanned
<1>2. /\ Shown /\ Saved(prefs) /\ active \in Choice /\ pendingStart \in Choice /\ t \in Choice
      /\ disk' = disk /\ io' = io
  BY DEF ListInv, ToCome, Shown, QrScanned, Choice
<1>3. ShownAfter(addTunnel(t))
  <2>1. Saved(addTunnel(t)) /\ addTunnel(t).list \in Seq(Tunnels)
    BY <1>2, AddedIsSaved DEF Saved, Prefs
  <2> QED
    BY <1>1, <1>2, <2>1 DEF ShownAfter, Shown
<1>4. Shown' /\ active' \in Choice /\ pendingStart' \in Choice
  <2>1. CASE AskPermission(t, addTunnel(t))
    BY <1>2, <1>3, <2>1, AskedIsShown
  <2>2. CASE startTunnel(t, addTunnel(t)) /\ UNCHANGED ui
    BY <1>2, <1>3, <2>2, StartedIsShown DEF ui
  <2> QED
    BY <1>1, <2>1, <2>2
<1> QED
  BY <1>2, <1>4 DEF ListInv, ToCome

\* The answer of the permission dialog starts what was to be started, or nothing.
LEMMA VpnPermissionStep ==
  ASSUME ListInv, VpnPermission
  PROVE  ListInv'
<1>1. /\ Shown /\ active \in Choice /\ pendingStart \in Choice
      /\ tunnels' = tunnels /\ disk' = disk /\ io' = io /\ pendingStart' = NoTunnel
  BY DEF ListInv, ToCome, VpnPermission
<1>2. ShownAfter(prefs)
  BY <1>1, SavedIsShownAfter
<1>3. Shown' /\ active' \in Choice
  <2>1. CASE UNCHANGED <<prefs, selected, stale, session>>
    <3>1. prefs' = prefs /\ selected' = selected /\ stale' = stale /\ active' = active
      BY <2>1 DEF session
    <3>2. getSelected(prefs)' = getSelected(prefs)
      BY <3>1 DEF getSelected
    <3> QED
      BY <1>1, <3>1, <3>2 DEF Shown
  <2>2. CASE startTunnel(pendingStart, prefs)
    BY <1>1, <1>2, <2>2, StartedIsShown
  <2>3. CASE startCurrent
    BY <1>1, <2>3, StartCurrentIsShown
  <2> QED
    BY <2>1, <2>2, <2>3 DEF VpnPermission
<1> QED
  BY <1>1, <1>3, NoTunnelIsChoice DEF ListInv, ToCome

\* A session ends by itself or is stopped.
LEMMA SessionStep ==
  ASSUME ListInv, Session
  PROVE  ListInv'
<1>1. /\ prefs' = prefs /\ disk' = disk /\ tunnels' = tunnels /\ selected' = selected
      /\ pendingStart' = pendingStart /\ stale' = stale /\ active' \in {active, NoTunnel}
  BY DEF Session, ui
<1>2. PICK w \in Workers : io' = [io EXCEPT ![w].at = "load"]
  BY DEF Session
<1>3. Shown'
  BY <1>1 DEF ListInv, Shown, getSelected
<1>4. active' \in Choice
  BY <1>1, NoTunnelIsChoice DEF ListInv, ToCome
<1>5. io' \in [Workers -> Io]
  BY <1>2 DEF ListInv, ToCome, Io
<1> QED
  BY <1>1, <1>3, <1>4, <1>5 DEF ListInv, ToCome

\* A refresh() on another thread shows a list and a selection of its own, which may be
\* older than what is saved.
LEMMA IoRefreshStep ==
  ASSUME ListInv, NEW w \in Workers, IoRefresh(w)
  PROVE  ListInv'
<1>1. /\ prefs' = prefs /\ disk' = disk /\ active' = active /\ pendingStart' = pendingStart
  BY DEF IoRefresh, session, ui
<1>2. /\ Shown /\ io \in [Workers -> Io] /\ prefs.list \in Seq(Tunnels)
      /\ getSelected(prefs) \in Choice /\ getSelected(prefs)' = getSelected(prefs)
  BY <1>1, SelectedIsChoice DEF ListInv, Shown, ToCome, Saved, Prefs, getSelected
<1>3. io[w].list \in Seq(Tunnels) /\ io[w].sel \in Choice
  BY <1>2 DEF Io
<1>4. Shown' /\ io' \in [Workers -> Io]
  <2>1. CASE io[w].at = "load"
    <3>1. /\ io' = [io EXCEPT ![w].at = "show", ![w].list = prefs.list]
          /\ tunnels' = tunnels /\ selected' = selected /\ stale' = stale
      BY <2>1 DEF IoRefresh
    <3>2. io' \in [Workers -> Io]
      BY <1>2, <3>1 DEF Io
    <3> QED
      BY <1>1, <1>2, <3>1, <3>2 DEF Shown
  <2>2. CASE io[w].at = "show"
    <3>1. /\ io' = [io EXCEPT ![w].at = "getSelected"] /\ tunnels' = io[w].list
          /\ stale' = (stale \/ io[w].list # prefs.list) /\ selected' = selected
      BY <2>2 DEF IoRefresh
    <3>2. io' \in [Workers -> Io]
      BY <1>2, <3>1 DEF Io
    <3> QED
      BY <1>1, <1>2, <1>3, <3>1, <3>2 DEF Shown
  <2>3. CASE io[w].at = "getSelected"
    <3>1. /\ io' = [io EXCEPT ![w].at = "select", ![w].sel = getSelected(prefs)]
          /\ tunnels' = tunnels /\ selected' = selected /\ stale' = stale
      BY <2>3 DEF IoRefresh
    <3>2. io' \in [Workers -> Io]
      BY <1>2, <3>1 DEF Io
    <3> QED
      BY <1>1, <1>2, <3>1, <3>2 DEF Shown
  <2>4. CASE io[w].at = "select"
    <3>1. /\ io' = [io EXCEPT ![w] = IdleIo] /\ selected' = io[w].sel
          /\ stale' = (stale \/ io[w].sel # getSelected(prefs)) /\ tunnels' = tunnels
      BY <2>4 DEF IoRefresh
    <3>2. io' \in [Workers -> Io]
      BY <1>2, <3>1, IdleIsIo
    <3> QED
      BY <1>1, <1>2, <1>3, <3>1, <3>2 DEF Shown
  <2> QED
    BY <2>1, <2>2, <2>3, <2>4 DEF IoRefresh
<1> QED
  BY <1>1, <1>4 DEF ListInv, ToCome

\* The process comes back with what was on disk.
LEMMA RestartedStep ==
  ASSUME ListInv, Restarted
  PROVE  ListInv'
<1>1. /\ prefs' = disk /\ disk' = disk /\ tunnels' = disk.list /\ selected' = getSelected(disk)
      /\ active' = NoTunnel /\ io' = [v \in Workers |-> IdleIo] /\ pendingStart' = pendingStart
  BY DEF Restarted, ui
<1>2. Saved(disk) /\ disk.list \in Seq(Tunnels) /\ getSelected(disk) \in Choice
  BY SelectedIsChoice DEF ListInv, ToCome, Saved, Prefs
<1>3. getSelected(prefs)' = getSelected(disk)
  BY <1>1 DEF getSelected
<1>4. Shown'
  BY <1>1, <1>2, <1>3 DEF Shown, Saved
<1>5. ToCome'
  BY <1>1, IdleIsIo, NoTunnelIsChoice DEF ListInv, ToCome, Saved
<1> QED
  BY <1>4, <1>5 DEF ListInv

\* Every step of TunnelList keeps the invariant.
LEMMA ListStep ==
  ASSUME ListInv, [ListNext]_listVars
  PROVE  ListInv'
<1>1. CASE AddTunnel
  BY <1>1, AddTunnelStep
<1>2. CASE RemoveTunnel
  BY <1>2, RemoveTunnelStep
<1>3. CASE UpdateTunnel
  BY <1>3, UpdateTunnelStep
<1>4. CASE SelectTunnel
  BY <1>4, SelectTunnelStep
<1>5. CASE ConnectButton
  BY <1>5, ConnectButtonStep
<1>6. CASE QrScanned
  BY <1>6, QrScannedStep
<1>7. CASE VpnPermission
  BY <1>7, VpnPermissionStep
<1>8. CASE Session
  BY <1>8, SessionStep
<1>9. CASE \E w \in Workers : IoRefresh(w)
  BY <1>9, IoRefreshStep
<1>10. CASE WriteToDisk
  <2>1. Shown'
    BY <1>10 DEF WriteToDisk, ListInv, Shown, getSelected, Saved
  <2>2. ToCome'
    BY <1>10 DEF WriteToDisk, session, ui, ListInv, Shown, ToCome, Saved
  <2> QED
    BY <2>1, <2>2 DEF ListInv
<1>11. CASE Recreated
  <2>1. Shown'
    BY <1>11 DEF Recreated, ListInv, Shown, getSelected, Saved
  <2>2. ToCome'
    BY <1>11, NoTunnelIsChoice DEF Recreated, session, ListInv, ToCome, Saved
  <2> QED
    BY <2>1, <2>2 DEF ListInv
<1>12. CASE Restarted
  BY <1>12, RestartedStep
<1>13. CASE UNCHANGED listVars
  BY <1>13 DEF listVars, ListInv, Shown, ToCome, Saved, getSelected
<1> QED
  BY SMTT(60), <1>1, <1>2, <1>3, <1>4, <1>5, <1>6, <1>7, <1>8, <1>9, <1>10, <1>11, <1>12, <1>13 DEF ListNext

\* The invariant holds throughout.
LEMMA ListInvariant == ListSpec => []ListInv
<1>1. ListInit => ListInv
  <2> SUFFICES ASSUME ListInit PROVE ListInv
    OBVIOUS
  <2>1. prefs \in Prefs /\ prefs.list = <<>> /\ disk = prefs /\ Unique(<<>>)
    BY SMT DEF ListInit, Prefs, Unique
  <2>2. getSelected(prefs) = NoTunnel
    BY <2>1 DEF getSelected
  <2>3. <<>> \in Seq(Tunnels)
    BY SMT
  <2> QED
    BY SMT, <2>1, <2>2, <2>3, IdleIsIo, NoTunnelIsChoice DEF ListInit, ListInv, Shown, ToCome, Saved
<1>2. ListInv /\ [ListNext]_listVars => ListInv'
  BY ListStep
<1> QED
  BY <1>1, <1>2, PTL DEF ListSpec

\* addTunnel(), removeTunnel() and updateTunnel() never leave two tunnels with one id, in
\* memory or on disk, for any ids and fields and however often the process is killed.
THEOREM UniqueIds == ListSpec => []IdsAreUnique
<1>1. ListInv => IdsAreUnique
  BY DEF ListInv, Shown, ToCome, Saved, Unique, IdsAreUnique
<1> QED
  BY <1>1, ListInvariant, PTL

\* With any number of threads inside refresh(), the screen shows what is saved as soon as
\* they are out, unless one of them showed something older.
THEOREM SavedIsShown == ListSpec => []ScreenIsSaved
<1>1. ListInv => ScreenIsSaved
  BY DEF ListInv, Shown, ScreenIsSaved
<1> QED
  BY <1>1, ListInvariant, PTL
=============================================================================
