------------------------------ MODULE DnsProofs ------------------------------
(* DNS on its way: the two invariants of DnsNat, for any sets of ports and    *)
(* addresses and any number of queries, and AllIsCarried of DnsTcpRelay, for  *)
(* any set of connections, any number of upstreams and any amount of data.    *)
(* ChecksumsAgree of PacketChecksums, for every packet that an IP header can  *)
(* describe.                                                                  *)
EXTENDS DnsNat, DnsTcpRelay, PacketChecksums, FiniteSetTheorems, SequenceTheorems,
        WellFoundedInduction, TLAPS

\* Zenon proves a leaf unless it names another prover.
USE Zenon
-----------------------------------------------------------------------------
(* The two invariants of DnsNat depend on each other: an answer finds its     *)
(* entry because the count is right, and the entry has its addresses because  *)
(* it exists as long as a query of the port is unanswered.                    *)

Waiting == {"at pdnsd", "answered", "lost"}
States == Waiting \cup {"unasked", "done", "refused"}

Connection == [local : Locals, remote : Servers, count : Nat]
QueryRecord ==
  [state : States, port : Ports \cup {None}, local : Locals \cup {None},
   server : Servers \cup {None}, clean : BOOLEAN,
   to : Locals \cup {None}, from : Servers \cup {None}]

TypeOK ==
  /\ init \in BOOLEAN
  /\ DOMAIN connections_tree \subseteq Ports
  /\ connections_tree \in [DOMAIN connections_tree -> Connection]
  /\ query \in [Queries -> QueryRecord]

\* Only a query puts an entry into the table, and it sets the flag.
TableIsInitialised == connections_tree # Empty => init

Asked == \A q \in Queries : query[q].state \in Waiting => query[q].port \in Ports

\* The entry of a port has the addresses of every clean query that it is for.
EntryFitsClean ==
  \A q \in Queries : query[q].state \in Waiting /\ query[q].clean
                       /\ query[q].port \in DOMAIN connections_tree =>
    /\ connections_tree[query[q].port].local = query[q].local
    /\ connections_tree[query[q].port].remote = query[q].server

IInv ==
  /\ TypeOK /\ TableIsInitialised /\ Asked /\ EntryFitsClean
  /\ EntriesCountUnanswered /\ AnswersAreReaddressed
-----------------------------------------------------------------------------
\* The queries of a port that are unanswered are finitely many.
LEMMA UnansweredIsFinite ==
  ASSUME MaxQueries \in Nat, NEW p
  PROVE  IsFiniteSet(Unanswered(p)) /\ Cardinality(Unanswered(p)) \in Nat
<1>1. IsFiniteSet(Queries)
  BY SMT, FS_Interval DEF Queries
<1>2. Unanswered(p) \in SUBSET Queries
  BY DEF Unanswered
<1>3. IsFiniteSet(Unanswered(p))
  BY <1>1, <1>2, FS_Subset
<1> QED
  BY <1>3, FS_CardinalityType

\* The invariant holds before the first query: the table is empty.
LEMMA InitIInv == TableInit => IInv
<1> SUFFICES ASSUME TableInit PROVE IInv
  OBVIOUS
<1>1. DOMAIN connections_tree = {} /\ \A q \in Queries : query[q] = Unasked
  BY DEF TableInit, Empty
<1>2. Unasked \in QueryRecord /\ Unasked.state = "unasked"
  BY DEF Unasked, QueryRecord, States
<1>3. TypeOK
  BY <1>2 DEF TableInit, TypeOK, Empty
<1>4. TableIsInitialised /\ Asked /\ EntryFitsClean
  BY <1>1, <1>2 DEF TableInit, TableIsInitialised, Asked, EntryFitsClean, Waiting
<1>5. EntriesCountUnanswered /\ AnswersAreReaddressed
  BY <1>1, <1>2 DEF EntriesCountUnanswered, AnswersAreReaddressed, Unanswered
<1> QED
  BY <1>3, <1>4, <1>5 DEF IInv

\* Queries, answers and losses preserve it: with a query one more query of its
\* port is unanswered, and insert_connection() has counted it; an answer finds
\* its entry, and remove_connection() has counted it down.
LEMMA NextIInv ==
  ASSUME MaxQueries \in Nat
  PROVE  IInv /\ [TableNext]_tableVars => IInv'
<1> SUFFICES ASSUME IInv, [TableNext]_tableVars PROVE IInv'
  OBVIOUS
<1>1. query \in [Queries -> QueryRecord]
  BY DEF IInv, TypeOK
<1>2. ASSUME NEW q \in Queries, NEW port \in Ports, NEW local \in Locals, NEW server \in Servers,
             NEW cl \in BOOLEAN, cl => Clean(port, local, server),
             query[q] = Unasked, init' = TRUE,
             connections_tree' = insert_connection(local, server, port),
             query' = [query EXCEPT ![q] =
                        [@ EXCEPT !.state = "at pdnsd", !.port = port, !.local = local,
                                  !.server = server, !.clean = cl]]
      PROVE  IInv'
  <2>1. \A r \in Queries \ {q} : query'[r] = query[r]
    BY <1>1, <1>2
  <2>2. /\ query'[q].state = "at pdnsd" /\ query'[q].port = port /\ query'[q].clean = cl
        /\ query'[q].local = local /\ query'[q].server = server
        /\ query'[q] \in QueryRecord
        /\ query[q].state = "unasked"
    <3>1. query'[q] = [Unasked EXCEPT !.state = "at pdnsd", !.port = port, !.local = local,
                                      !.server = server, !.clean = cl]
      BY <1>1, <1>2
    <3>2. Unasked \in QueryRecord /\ Unasked.state = "unasked"
      BY DEF Unasked, QueryRecord, States
    <3>3. query'[q] \in QueryRecord
      BY <3>1, <3>2 DEF QueryRecord, States, Waiting
    <3>4. /\ query'[q].state = "at pdnsd" /\ query'[q].port = port /\ query'[q].clean = cl
          /\ query'[q].local = local /\ query'[q].server = server
      BY <3>1, <3>2 DEF QueryRecord
    <3> QED
      BY <1>2, <3>2, <3>3, <3>4
  <2>3. /\ DOMAIN connections_tree' = DOMAIN connections_tree \cup {port}
        /\ \A p \in DOMAIN connections_tree \ {port} : connections_tree'[p] = connections_tree[p]
        /\ port \in DOMAIN connections_tree =>
             connections_tree'[port] = [connections_tree[port] EXCEPT !.count = @ + 1]
        /\ port \notin DOMAIN connections_tree =>
             connections_tree'[port] = [local |-> local, remote |-> server, count |-> 1]
    BY <1>2 DEF insert_connection, IInv, TypeOK
  <2>4. TypeOK'
    <3>1. query' \in [Queries -> QueryRecord]
      BY <1>1, <1>2, <2>2
    <3>2. connections_tree'[port] \in Connection
      BY SMT, <2>3 DEF IInv, TypeOK, Connection
    <3>3. connections_tree' \in [DOMAIN connections_tree' -> Connection]
      BY <1>2, <2>3, <3>2 DEF IInv, TypeOK, insert_connection
    <3> QED
      BY <1>2, <2>3, <3>1, <3>3 DEF IInv, TypeOK
  <2>5. TableIsInitialised' /\ Asked'
    BY <1>2, <2>1, <2>2 DEF IInv, TableIsInitialised, Asked
  <2>6. /\ \A p \in Ports \ {port} : Unanswered(p)' = Unanswered(p)
        /\ Unanswered(port)' = Unanswered(port) \cup {q}
        /\ q \notin Unanswered(port)
    BY <2>1, <2>2 DEF Unanswered
  <2>7. EntriesCountUnanswered'
    <3>1. Cardinality(Unanswered(port)') = Cardinality(Unanswered(port)) + 1
      BY <2>6, UnansweredIsFinite, FS_AddElement
    <3>2. connections_tree'[port].count = Cardinality(Unanswered(port)')
      <4>1. CASE port \in DOMAIN connections_tree
        <5>1. connections_tree[port].count = Cardinality(Unanswered(port))
          BY <4>1 DEF IInv, EntriesCountUnanswered
        <5> QED
          BY <2>3, <3>1, <4>1, <5>1 DEF IInv, TypeOK, Connection
      <4>2. CASE port \notin DOMAIN connections_tree
        <5>1. Unanswered(port) = {}
          BY <4>2 DEF IInv, EntriesCountUnanswered
        <5> QED
          BY SMT, <2>3, <3>1, <4>2, <5>1, FS_EmptySet
      <4> QED
        BY <4>1, <4>2
    <3>3. \A r \in Queries : query'[r].state # "refused"
      BY <2>1, <2>2 DEF IInv, EntriesCountUnanswered
    <3>4. ASSUME NEW p \in Ports
          PROVE  IF Unanswered(p)' = {} THEN p \notin DOMAIN connections_tree'
                 ELSE /\ p \in DOMAIN connections_tree'
                      /\ connections_tree'[p].count = Cardinality(Unanswered(p)')
      BY ZenonT(60), <2>3, <2>6, <3>2 DEF IInv, EntriesCountUnanswered
    <3> QED
      BY <3>3, <3>4 DEF EntriesCountUnanswered
  <2>8. EntryFitsClean'
    <3>1. cl /\ port \in DOMAIN connections_tree =>
            connections_tree[port].local = local /\ connections_tree[port].remote = server
      <4> SUFFICES ASSUME cl, port \in DOMAIN connections_tree
                   PROVE  connections_tree[port].local = local /\ connections_tree[port].remote = server
        OBVIOUS
      <4>1. PICK r \in Queries : query[r].port = port /\ query[r].state \in Waiting
        BY DEF IInv, EntriesCountUnanswered, Unanswered, Waiting
      <4> QED
        BY ZenonT(60), <1>2, <4>1 DEF Clean, IInv, EntryFitsClean, Waiting
    <3>2. cl => connections_tree'[port].local = local /\ connections_tree'[port].remote = server
      BY SMT, <2>3, <3>1 DEF IInv, TypeOK, Connection
    <3>3. port \in DOMAIN connections_tree =>
            /\ connections_tree'[port].local = connections_tree[port].local
            /\ connections_tree'[port].remote = connections_tree[port].remote
      BY <2>3 DEF IInv, TypeOK, Connection
    <3>4. ASSUME NEW r \in Queries \ {q}, query[r].state \in Waiting, query[r].clean
          PROVE  /\ connections_tree'[query[r].port].local = query[r].local
                 /\ connections_tree'[query[r].port].remote = query[r].server
      <4>1. query[r].port \in DOMAIN connections_tree
        BY <3>4 DEF IInv, Asked, EntriesCountUnanswered, Unanswered, Waiting
      <4>2. /\ connections_tree'[query[r].port].local = connections_tree[query[r].port].local
            /\ connections_tree'[query[r].port].remote = connections_tree[query[r].port].remote
        BY <2>3, <3>3, <4>1
      <4> QED
        BY <3>4, <4>1, <4>2 DEF IInv, EntryFitsClean
    <3>5. ASSUME NEW r \in Queries, query'[r].state \in Waiting, query'[r].clean
          PROVE  /\ connections_tree'[query'[r].port].local = query'[r].local
                 /\ connections_tree'[query'[r].port].remote = query'[r].server
      <4>1. CASE r = q
        BY <2>2, <3>2, <3>5, <4>1
      <4>2. CASE r # q
        BY <2>1, <3>4, <3>5, <4>2
      <4> QED
        BY <4>1, <4>2
    <3> QED
      BY <3>5 DEF EntryFitsClean
  <2>9. AnswersAreReaddressed'
    BY <2>1, <2>2 DEF IInv, AnswersAreReaddressed
  <2> QED
    BY <2>4, <2>5, <2>7, <2>8, <2>9 DEF IInv
<1>3. ASSUME NEW q \in Queries, query[q].state = "answered", init' = init,
             IF init /\ query[q].port \in DOMAIN connections_tree
             THEN /\ query' = [query EXCEPT ![q] =
                       [@ EXCEPT !.state = "done",
                                 !.from = connections_tree[query[q].port].remote,
                                 !.to = connections_tree[query[q].port].local]]
                  /\ connections_tree' = remove_connection(query[q].port)
             ELSE /\ query' = [query EXCEPT ![q].state = "refused"]
                  /\ UNCHANGED connections_tree
      PROVE  IInv'
  <2>1. PICK port, con : port = query[q].port /\ con = connections_tree[port]
    OBVIOUS
  <2>2. port \in Ports /\ port \in DOMAIN connections_tree /\ q \in Unanswered(port)
    BY <1>3, <2>1 DEF IInv, Asked, Waiting, EntriesCountUnanswered, Unanswered
  <2>3. init /\ con \in Connection /\ con.count = Cardinality(Unanswered(port))
    BY <2>1, <2>2 DEF IInv, TypeOK, TableIsInitialised, EntriesCountUnanswered, Empty
  <2>4. query' = [query EXCEPT ![q] = [@ EXCEPT !.state = "done", !.from = con.remote, !.to = con.local]]
    BY <1>3, <2>1, <2>2, <2>3
  <2>5. connections_tree' = remove_connection(port)
    BY <1>3, <2>1, <2>2, <2>3
  <2>6. \A r \in Queries \ {q} : query'[r] = query[r]
    BY <1>1, <2>4
  <2>7. query'[q] = [query[q] EXCEPT !.state = "done", !.from = con.remote, !.to = con.local]
    BY <1>1, <2>4
  <2>8. /\ query'[q].state = "done" /\ query'[q].from = con.remote /\ query'[q].to = con.local
        /\ query'[q].clean = query[q].clean /\ query'[q].port = query[q].port
        /\ query'[q].local = query[q].local /\ query'[q].server = query[q].server
        /\ query'[q] \in QueryRecord
    BY <1>1, <2>3, <2>7 DEF QueryRecord, States, Waiting, Connection
  <2>9. /\ con.count <= 1 => connections_tree' =
             [p \in DOMAIN connections_tree \ {port} |-> connections_tree[p]]
        /\ ~(con.count <= 1) => connections_tree' = [connections_tree EXCEPT ![port].count = @ - 1]
    BY <2>1, <2>5 DEF remove_connection
  <2>10. /\ \A p \in Ports \ {port} : Unanswered(p)' = Unanswered(p)
        /\ Unanswered(port)' = Unanswered(port) \ {q}
    BY ZenonT(60), <2>1, <2>6, <2>8 DEF Unanswered
  <2>11. /\ Cardinality(Unanswered(port)') = con.count - 1
         /\ con.count \in Nat \ {0}
         /\ con.count = 1 <=> Unanswered(port)' = {}
    <3>1. IsFiniteSet(Unanswered(port)) /\ IsFiniteSet(Unanswered(port)')
      BY SMT, <2>10, UnansweredIsFinite, FS_RemoveElement
    <3>2. Cardinality(Unanswered(port)') = Cardinality(Unanswered(port)) - 1
      BY <2>2, <2>10, <3>1, FS_RemoveElement
    <3>3. Cardinality(Unanswered(port)) \in Nat /\ Cardinality(Unanswered(port)')  \in Nat
      BY <3>1, FS_CardinalityType
    <3>4. Cardinality(Unanswered(port)') = 0 <=> Unanswered(port)' = {}
      BY <3>1, FS_EmptySet
    <3> QED
      BY SMT, <2>3, <3>2, <3>3, <3>4
  <2>12. /\ \A p \in DOMAIN connections_tree \ {port} :
              p \in DOMAIN connections_tree' /\ connections_tree'[p] = connections_tree[p]
         /\ DOMAIN connections_tree' \subseteq DOMAIN connections_tree
         /\ IF con.count = 1 THEN port \notin DOMAIN connections_tree'
            ELSE /\ port \in DOMAIN connections_tree'
                 /\ connections_tree'[port] = [con EXCEPT !.count = @ - 1]
    <3>1. CASE con.count = 1
      BY SMT, <2>9, <3>1
    <3>2. CASE con.count # 1
      BY SMT, <2>1, <2>2, <2>9, <2>11, <3>2 DEF IInv, TypeOK
    <3> QED
      BY <3>1, <3>2
  <2>13. con.count # 1 =>
           /\ connections_tree'[port] \in Connection
           /\ connections_tree'[port].count = con.count - 1
           /\ connections_tree'[port].local = con.local /\ connections_tree'[port].remote = con.remote
    BY SMT, <2>3, <2>11, <2>12 DEF Connection
  <2>14. TypeOK'
    <3>1. query' \in [Queries -> QueryRecord]
      BY <1>1, <2>4, <2>8
    <3>2. \A p \in DOMAIN connections_tree' : connections_tree'[p] \in Connection
      BY <2>12, <2>13 DEF IInv, TypeOK
    <3>3. connections_tree' \in [DOMAIN connections_tree' -> Connection]
      BY <2>9, <3>2 DEF IInv, TypeOK
    <3> QED
      BY <1>3, <2>12, <3>1, <3>3 DEF IInv, TypeOK
  <2>15. TableIsInitialised' /\ Asked'
    BY <1>3, <2>3, <2>6, <2>8 DEF IInv, TableIsInitialised, Asked, Waiting
  <2>16. EntriesCountUnanswered'
    <3>1. \A r \in Queries : query'[r].state # "refused"
      BY <2>6, <2>8 DEF IInv, EntriesCountUnanswered
    <3>2. ASSUME NEW p \in Ports
          PROVE  IF Unanswered(p)' = {} THEN p \notin DOMAIN connections_tree'
                 ELSE /\ p \in DOMAIN connections_tree'
                      /\ connections_tree'[p].count = Cardinality(Unanswered(p)')
      BY <2>10, <2>11, <2>12, <2>13 DEF IInv, EntriesCountUnanswered
    <3> QED
      BY <3>1, <3>2 DEF EntriesCountUnanswered
  <2>17. EntryFitsClean'
    <3>1. ASSUME NEW r \in Queries \ {q}, query[r].state \in Waiting, query[r].clean,
                 query[r].port \in DOMAIN connections_tree'
          PROVE  /\ connections_tree'[query[r].port].local = query[r].local
                 /\ connections_tree'[query[r].port].remote = query[r].server
      <4>1. query[r].port \in DOMAIN connections_tree
        BY <2>12, <3>1
      <4>2. /\ connections_tree'[query[r].port].local = connections_tree[query[r].port].local
            /\ connections_tree'[query[r].port].remote = connections_tree[query[r].port].remote
        BY SMT, <2>1, <2>12, <2>13, <3>1, <4>1
      <4> QED
        BY <3>1, <4>1, <4>2 DEF IInv, EntryFitsClean
    <3> QED
      BY <2>6, <2>8, <3>1 DEF EntryFitsClean, Waiting
  <2>18. AnswersAreReaddressed'
    <3>1. query[q].clean => con.local = query[q].local /\ con.remote = query[q].server
      BY <1>3, <2>1, <2>2 DEF IInv, EntryFitsClean, Waiting
    <3> QED
      BY SMT, <2>6, <2>8, <3>1 DEF IInv, AnswersAreReaddressed
  <2> QED
    BY <2>14, <2>15, <2>16, <2>17, <2>18 DEF IInv
<1>4. ASSUME NEW q \in Queries, NEW s \in Waiting, query[q].state \in Waiting,
             query' = [query EXCEPT ![q].state = s], UNCHANGED <<init, connections_tree>>
      PROVE  IInv'
  <2>1. \A r \in Queries \ {q} : query'[r] = query[r]
    BY <1>1, <1>4
  <2>2. query'[q] = [query[q] EXCEPT !.state = s]
    BY <1>1, <1>4
  <2>3. /\ query'[q] \in QueryRecord /\ query'[q].state = s
        /\ query'[q].clean = query[q].clean /\ query'[q].port = query[q].port
        /\ query'[q].local = query[q].local /\ query'[q].server = query[q].server
    BY SMT, <1>1, <1>4, <2>2 DEF QueryRecord, States
  <2>4. \A p : Unanswered(p)' = Unanswered(p)
    BY <1>4, <2>1, <2>3 DEF Unanswered, Waiting
  <2>5. TypeOK'
    BY <1>1, <1>4, <2>3 DEF IInv, TypeOK
  <2>6. TableIsInitialised' /\ Asked' /\ EntryFitsClean'
    BY SMT, <1>4, <2>1, <2>3 DEF IInv, TableIsInitialised, Asked, EntryFitsClean
  <2>7. EntriesCountUnanswered' /\ AnswersAreReaddressed'
    BY <1>4, <2>1, <2>3, <2>4 DEF IInv, EntriesCountUnanswered, AnswersAreReaddressed, Waiting
  <2> QED
    BY <2>5, <2>6, <2>7 DEF IInv
<1>5. CASE Query
  <2>1. PICK q \in Queries, port \in Ports, local \in Locals, server \in Servers :
          /\ query[q] = Unasked /\ init' = TRUE
          /\ connections_tree' = insert_connection(local, server, port)
          /\ query' = [query EXCEPT ![q] =
                         [@ EXCEPT !.state = "at pdnsd", !.port = port, !.local = local,
                                   !.server = server, !.clean = Clean(port, local, server)]]
    BY <1>5 DEF Query
  <2> DEFINE cl == Clean(port, local, server)
  <2>2. cl \in BOOLEAN /\ (cl => Clean(port, local, server))
    BY DEF Clean
  <2> QED
    BY <1>2, <2>1, <2>2
<1>6. CASE Answer
  BY <1>3, <1>6 DEF Answer
<1>7. CASE PdnsdAnswers \/ Lose
  BY <1>4, <1>7 DEF PdnsdAnswers, Lose, Waiting
<1>8. CASE UNCHANGED tableVars
  BY <1>8 DEF tableVars, IInv, TypeOK, TableIsInitialised, Asked, EntryFitsClean,
      EntriesCountUnanswered, AnswersAreReaddressed, Unanswered
<1> QED
  BY <1>5, <1>6, <1>7, <1>8 DEF TableNext

\* The conjunction is an invariant.
LEMMA Invariance == ASSUME MaxQueries \in Nat PROVE TableSpec => []IInv
  BY InitIInv, NextIInv, PTL DEF TableSpec

(* insert_connection() and remove_connection() balance for any number of      *)
(* queries, retries and losses: an entry counts the unanswered queries of its *)
(* port, and no answer is refused.                                            *)
THEOREM TableCounts == ASSUME MaxQueries \in Nat PROVE TableSpec => []EntriesCountUnanswered
<1>1. IInv => EntriesCountUnanswered
  BY DEF IInv
<1> QED
  BY <1>1, Invariance, PTL

(* An answer is readdressed to the app that asked, as if from the server it   *)
(* asked, unless the port was in use for another pair of addresses.           *)
THEOREM Readdressed == ASSUME MaxQueries \in Nat PROVE TableSpec => []AnswersAreReaddressed
<1>1. IInv => AnswersAreReaddressed
  BY DEF IInv
<1> QED
  BY <1>1, Invariance, PTL
-----------------------------------------------------------------------------
(* DnsTcpRelay: what the two pumps of a connection have carried when they end. *)

PumpTypes ==
  /\ stage \in [Conns -> Stages]
  /\ back \in [Conns -> {"none", "running", "over"}]
  /\ sent \in [Conns -> [Dirs -> Nat]] /\ copied \in [Conns -> [Dirs -> Nat]]
  /\ eof \in [Conns -> [Dirs -> BOOLEAN]] /\ broken \in [Conns -> [Dirs -> BOOLEAN]]
  /\ cut \in [Conns -> BOOLEAN]

\* A pump that ended of itself has carried its whole stream, and the sockets
\* are closed only after both have.
PumpsCarried ==
  \A c \in Conns : ~cut[c] =>
    /\ stage[c] \in {"waiting", "over"} => AtEnd(c, "answer")
    /\ back[c] = "over" => AtEnd(c, "query")
    /\ stage[c] = "over" => back[c] = "over"

PumpInv == PumpTypes /\ PumpsCarried
-----------------------------------------------------------------------------
\* Before the first connection nothing has ended.
LEMMA InitPumps == Init => PumpInv
  BY SMT DEF Init, PumpInv, PumpTypes, PumpsCarried, Stages, Dirs

\* Every step of the threads, of close() and of the two ends preserves it.
LEMMA NextPumps == PumpInv /\ [Next]_(vars) => PumpInv'
<1> SUFFICES ASSUME PumpInv, [Next]_(vars) PROVE PumpInv'
  OBVIOUS
<1> USE DEF PumpInv, PumpTypes, PumpsCarried, AtEnd, Stages, Dirs,
            Live, streams
<1>1. ASSUME NEW c \in Conns, Connect(c) PROVE PumpInv'
  BY <1>1 DEF Connect
<1>2. ASSUME NEW c \in Conns, NEW d \in Dirs, Speak(c, d) PROVE PumpInv'
  <2>1. stage' = stage /\ back' = back /\ copied' = copied /\ cut' = cut
    BY <1>2 DEF Speak
  <2>2. /\ sent' \in [Conns -> [Dirs -> Nat]]
        /\ \A x \in Conns, e \in Dirs : eof[x][e] => sent'[x][e] = sent[x][e]
    <3>1. CASE sent' = [sent EXCEPT ![c][d] = @ + 1]
      BY SMT, <1>2, <3>1 DEF Speak
    <3> QED
      BY <1>2, <3>1 DEF Speak
  <2>3. /\ eof' \in [Conns -> [Dirs -> BOOLEAN]]
        /\ \A x \in Conns, e \in Dirs : eof[x][e] => eof'[x][e]
    <3>1. CASE eof' = [eof EXCEPT ![c][d] = TRUE]
      BY SMT, <1>2, <3>1 DEF Speak
    <3> QED
      BY <1>2, <3>1 DEF Speak
  <2>4. broken' \in [Conns -> [Dirs -> BOOLEAN]]
    BY <1>2 DEF Speak
  <2> QED
    BY SMT, <2>1, <2>2, <2>3, <2>4
<1>3. CASE Accept
  BY SMT, <1>3 DEF Accept
<1>4. CASE AcceptEnds
  BY <1>4 DEF AcceptEnds
<1>5. CASE Execute
  BY SMTT(60), <1>5 DEF Execute
<1>6. ASSUME NEW c \in Conns, ConnectUpstreamFails(c) PROVE PumpInv'
  <2>1. PumpTypes'
    BY <1>6 DEF ConnectUpstreamFails
  <2>2. PumpsCarried'
    BY SMT, <1>6 DEF ConnectUpstreamFails
  <2> QED
    BY <2>1, <2>2
<1>7. ASSUME NEW c \in Conns, ConnectUpstream(c) PROVE PumpInv'
  <2>1. PumpTypes'
    BY <1>7 DEF ConnectUpstream
  <2>2. PumpsCarried'
    BY SMT, <1>7 DEF ConnectUpstream
  <2> QED
    BY <2>1, <2>2
<1>8. ASSUME NEW c \in Conns, NEW d \in Dirs, Copy(c, d) PROVE PumpInv'
  BY SMT, <1>8 DEF Copy
<1>9. ASSUME NEW c \in Conns, EndBack(c) PROVE PumpInv'
  BY <1>9 DEF EndBack, Ends
<1>10. ASSUME NEW c \in Conns, EndPump(c) PROVE PumpInv'
  BY <1>10 DEF EndPump, Ends
<1>11. ASSUME NEW c \in Conns, Finish(c) PROVE PumpInv'
  BY <1>11 DEF Finish
<1>12. CASE close
  BY <1>12 DEF close
<1>13. CASE UNCHANGED vars
  BY <1>13 DEF vars
<1> QED
  BY SMT, <1>1, <1>2, <1>3, <1>4, <1>5, <1>6, <1>7, <1>8, <1>9, <1>10, <1>11, <1>12, <1>13
     DEF Next, Acceptor, Thread

(* serve() closes the sockets of a connection that nothing cut short only     *)
(* when both its pumps have carried all that their ends sent.                 *)
THEOREM Carried == Spec => []AllIsCarried
<1>1. PumpInv => AllIsCarried
  BY DEF PumpInv, PumpsCarried, AllIsCarried, AtEnd, Dirs
<1> QED
  BY <1>1, InitPumps, NextPumps, PTL DEF Spec
-----------------------------------------------------------------------------
\* Induction and recursion over numbers, as lemmas about sets and functions instead of
\* schemes: what a recursive function computes is proved by these.

\* A set with 0 and with the successor of each of its numbers holds all of them: the least
\* number outside would have its predecessor inside.
LEMMA Induction ==
  ASSUME NEW S, 0 \in S, \A n \in Nat : n \in S => n + 1 \in S
  PROVE  Nat \subseteq S
<1> SUFFICES ASSUME Nat \ S # {} PROVE FALSE
  OBVIOUS
<1>1. PICK x \in Nat \ S : \A y \in Nat \ S : <<y, x>> \notin OpToRel(<, Nat)
  BY NatLessThanWellFounded, WFMin
<1>2. x \in Nat /\ x # 0 /\ x - 1 \in Nat /\ x - 1 + 1 = x /\ x - 1 < x
  BY SMT
<1>3. <<x - 1, x>> \in OpToRel(<, Nat)
  BY <1>2 DEF OpToRel
<1>4. x - 1 \in S
  BY <1>1, <1>2, <1>3
<1> QED
  BY <1>1, <1>2, <1>4

\* g is defined by recursion on 0 .. n, from base by step.
IsRecursive(g, A, n, base, step) ==
  /\ g \in [0 .. n -> A] /\ g[0] = base
  /\ \A i \in 1 .. n : g[i] = step[<<i, g[i - 1]>>]

\* Such a function exists for every n, by induction on n.
LEMMA Recursion ==
  ASSUME NEW A, NEW base \in A, NEW step, NEW n \in Nat,
         \A i \in 1 .. n, a \in A : step[<<i, a>>] \in A
  PROVE  \E g : IsRecursive(g, A, n, base, step)
<1> DEFINE S == {k \in Nat : k <= n => \E g : IsRecursive(g, A, k, base, step)}
<1>1. 0 \in S
  <2>1. IsRecursive([i \in 0 .. 0 |-> base], A, 0, base, step)
    BY SMT DEF IsRecursive
  <2> QED
    BY <2>1
<1>2. ASSUME NEW k \in Nat, k \in S, k + 1 <= n PROVE \E g : IsRecursive(g, A, k + 1, base, step)
  <2>1. PICK g : IsRecursive(g, A, k, base, step)
    BY SMT, <1>2
  <2> DEFINE v == step[<<k + 1, g[k]>>]
             h == [i \in 0 .. k + 1 |-> IF i = k + 1 THEN v ELSE g[i]]
  <2>2. v \in A
    BY SMT, <1>2, <2>1 DEF IsRecursive
  <2>3. \A i \in 1 .. k : h[i] = step[<<i, h[i - 1]>>]
    <3> SUFFICES ASSUME NEW i \in 1 .. k PROVE h[i] = step[<<i, h[i - 1]>>]
      OBVIOUS
    <3>1. h[i] = g[i] /\ h[i - 1] = g[i - 1]
      BY SMT
    <3> QED
      BY <2>1, <3>1 DEF IsRecursive
  <2>4. h[k + 1] = step[<<k + 1, h[k]>>] /\ h[0] = base
    BY SMT, <2>1 DEF IsRecursive
  <2>5. h \in [0 .. k + 1 -> A]
    BY SMT, <2>1, <2>2 DEF IsRecursive
  <2> HIDE DEF h
  <2>6. \A i \in 1 .. k + 1 : h[i] = step[<<i, h[i - 1]>>]
    <3> SUFFICES ASSUME NEW i \in 1 .. k + 1 PROVE h[i] = step[<<i, h[i - 1]>>]
      OBVIOUS
    <3>1. i \in 1 .. k \/ (i = k + 1 /\ i - 1 = k)
      BY SMT
    <3> QED
      BY <2>3, <2>4, <3>1
  <2> QED
    BY <2>4, <2>5, <2>6 DEF IsRecursive
<1>3. \A k \in Nat : k \in S => k + 1 \in S
  BY SMT, <1>2
<1> HIDE DEF S
<1>4. Nat \subseteq S
  BY <1>1, <1>3, Induction
<1> QED
  BY SMT, <1>4 DEF S

\* Induction up to a bound.
LEMMA InductionTo ==
  ASSUME NEW S, NEW n \in Nat, 0 \in S, \A i \in 1 .. n : i - 1 \in S => i \in S
  PROVE  0 .. n \subseteq S
<1> DEFINE T == {k \in Nat : k <= n => k \in S}
<1>1. 0 \in T
  OBVIOUS
<1>2. ASSUME NEW k \in Nat, k \in T PROVE k + 1 \in T
  <2> SUFFICES ASSUME k + 1 <= n PROVE k + 1 \in S
    BY SMT
  <2>1. k + 1 \in 1 .. n /\ (k + 1) - 1 = k /\ k <= n
    BY SMT
  <2> QED
    BY <1>2, <2>1
<1> HIDE DEF T
<1>3. Nat \subseteq T
  BY <1>1, <1>2, Induction
<1> QED
  BY SMT, <1>3 DEF T

-----------------------------------------------------------------------------
\* The partial sums of a sequence.
IsSum(g, s) ==
  /\ g \in [0 .. Len(s) -> Nat] /\ g[0] = 0 /\ \A i \in 1 .. Len(s) : g[i] = g[i - 1] + s[i]

\* The sum of a sequence is the last of its partial sums.
LEMMA AddedUnfolds ==
  ASSUME NEW s \in Seq(Nat)
  PROVE  \E g : IsSum(g, s) /\ Added(s) = g[Len(s)]
<1> DEFINE n == Len(s)
           next(i, t) == t + s[i]
           step == [p \in (1 .. n) \X Nat |-> next(p[1], p[2])]
<1>1. \A i \in 1 .. n, t \in Nat : step[<<i, t>>] = next(i, t) /\ next(i, t) \in Nat
  BY SMT
<1>2. n \in Nat /\ 0 \in Nat
  BY SMT
<1> HIDE DEF step, n, next
<1>3. PICK g : IsRecursive(g, Nat, n, 0, step)
  BY <1>1, <1>2, Recursion
<1>4. g \in [0 .. n -> Nat] /\ g[0] = 0 /\ \A i \in 1 .. n : g[i] = next(i, g[i - 1])
  <2> SUFFICES ASSUME NEW i \in 1 .. n PROVE g[i] = next(i, g[i - 1])
    BY <1>3 DEF IsRecursive
  <2>1. i - 1 \in 0 .. n
    BY SMT, <1>2
  <2>2. g[i - 1] \in Nat /\ g[i] = step[<<i, g[i - 1]>>]
    BY <1>3, <2>1 DEF IsRecursive
  <2> QED
    BY <1>1, <2>2
<1> DEFINE t[i \in 0 .. Len(s)] == IF i = 0 THEN 0 ELSE t[i - 1] + s[i]
<1>5. g = [i \in 0 .. Len(s) |-> IF i = 0 THEN 0 ELSE g[i - 1] + s[i]]
  <2> DEFINE f == [i \in 0 .. n |-> IF i = 0 THEN 0 ELSE next(i, g[i - 1])]
  <2>1. \A i \in 0 .. n : g[i] = IF i = 0 THEN 0 ELSE next(i, g[i - 1])
    BY SMT, <1>2, <1>4
  <2>2. g = f
    BY <1>4, <2>1
  <2> QED
    BY <2>2 DEF next, n
<1>6. t = [i \in 0 .. Len(s) |-> IF i = 0 THEN 0 ELSE t[i - 1] + s[i]]
  BY <1>5
<1>7. Added(s) = t[Len(s)]
  BY DEF Added
<1>8. IsSum(t, s)
  <2> HIDE DEF t
  <2>1. t[0] = 0 /\ \A i \in 1 .. Len(s) : t[i] = t[i - 1] + s[i]
    BY SMT, <1>6
  <2>2. DOMAIN t = 0 .. Len(s)
    BY <1>6
  <2> DEFINE S == {i \in Nat : i <= Len(s) => t[i] \in Nat}
  <2>3. 0 \in S
    BY SMT, <2>1
  <2>4. ASSUME NEW i \in 1 .. Len(s), i - 1 \in S PROVE i \in S
    BY SMT, <2>1, <2>4
  <2>5. 0 .. Len(s) \subseteq S
    <3> HIDE DEF S
    <3>1. Len(s) \in Nat
      BY SMT
    <3> QED
      BY <2>3, <2>4, <3>1, InductionTo
  <2>6. \A i \in 0 .. Len(s) : t[i] \in Nat
    BY SMT, <2>5
  <2>7. t \in [0 .. Len(s) -> Nat]
    BY <1>6, <2>2, <2>6
  <2> QED
    BY <2>1, <2>7 DEF IsSum
<1> QED
  BY <1>7, <1>8

\* A sum of numbers is a number.
LEMMA AddedIsNat ==
  ASSUME NEW s \in Seq(Nat)
  PROVE  Added(s) \in Nat
<1>1. PICK g : IsSum(g, s) /\ Added(s) = g[Len(s)]
  BY AddedUnfolds
<1> QED
  BY SMT, <1>1 DEF IsSum

\* A sum of n words is at most n times the greatest.
LEMMA AddedIsBounded ==
  ASSUME NEW s \in Seq(Nat), \A i \in 1 .. Len(s) : s[i] < W
  PROVE  Added(s) <= (W - 1) * Len(s)
<1>1. PICK g : IsSum(g, s) /\ Added(s) = g[Len(s)]
  BY SMT, AddedUnfolds
<1> DEFINE S == {i \in Nat : i <= Len(s) => g[i] <= 65535 * i}
<1>2. 0 \in S
  BY SMT, <1>1 DEF IsSum
<1>3. ASSUME NEW i \in 1 .. Len(s), i - 1 \in S PROVE i \in S
  <2> DEFINE x == g[i - 1]
             y == s[i]
  <2>1. i \in Nat /\ i >= 1 /\ i - 1 \in 0 .. Len(s) /\ i - 1 <= Len(s)
    BY SMT
  <2>2. g[i] = x + y /\ x \in Nat
    BY <1>1, <2>1 DEF IsSum
  <2>3. y \in Nat /\ y < 65536
    BY SMT DEF W
  <2>4. x <= 65535 * (i - 1)
    BY SMT, <1>3, <2>1
  <2> HIDE DEF x, y
  <2>5. x + y <= 65535 * i
    BY SMT, <2>1, <2>2, <2>3, <2>4
  <2> QED
    BY SMT, <2>1, <2>2, <2>5
<1> HIDE DEF S
<1>4. Len(s) \in Nat
  BY SMT
<1>5. 0 .. Len(s) \subseteq S
  BY <1>2, <1>3, <1>4, InductionTo
<1> QED
  BY SMT, <1>1, <1>4, <1>5 DEF S, W

\* The sum of a concatenation.
LEMMA AddedJoin ==
  ASSUME NEW a \in Seq(Nat), NEW b \in Seq(Nat)
  PROVE  Added(a \o b) = Added(a) + Added(b)
<1> DEFINE c == a \o b
           n == Len(a)
           m == Len(b)
<1>1. /\ c \in Seq(Nat) /\ Len(c) = n + m /\ n \in Nat /\ m \in Nat
      /\ (\A i \in 1 .. n : c[i] = a[i]) /\ \A i \in 1 .. m : c[n + i] = b[i]
  BY SMT, ConcatProperties
<1> HIDE DEF c
<1>2. PICK f : IsSum(f, a) /\ Added(a) = f[n]
  BY AddedUnfolds
<1>3. PICK g : IsSum(g, b) /\ Added(b) = g[m]
  BY AddedUnfolds
<1>4. PICK h : IsSum(h, c) /\ Added(c) = h[n + m]
  BY <1>1, AddedUnfolds
<1>5. /\ f[0] = 0 /\ f \in [0 .. n -> Nat] /\ \A i \in 1 .. n : f[i] = f[i - 1] + a[i]
      /\ g[0] = 0 /\ g \in [0 .. m -> Nat] /\ \A i \in 1 .. m : g[i] = g[i - 1] + b[i]
      /\ h[0] = 0 /\ h \in [0 .. n + m -> Nat] /\ \A i \in 1 .. n + m : h[i] = h[i - 1] + c[i]
  BY <1>1, <1>2, <1>3, <1>4 DEF IsSum
<1> DEFINE S == {i \in Nat : i <= n => h[i] = f[i]}
           T == {i \in Nat : i <= m => h[n + i] = f[n] + g[i]}
<1> HIDE DEF n, m
<1>6. 0 \in S
  BY <1>5
<1>7. ASSUME NEW i \in 1 .. n, i - 1 \in S PROVE i \in S
  BY SMT, <1>1, <1>5, <1>7
<1>8. 0 .. n \subseteq S
  <2> HIDE DEF S
  <2> QED
    BY <1>1, <1>6, <1>7, InductionTo
<1>9. 0 \in T
  BY SMT, <1>1, <1>5, <1>8
<1>10. ASSUME NEW i \in 1 .. m, i - 1 \in T PROVE i \in T
  <2>1. /\ n + i \in 1 .. n + m /\ (n + i) - 1 = n + (i - 1) /\ i - 1 <= m /\ i - 1 \in 0 .. m
        /\ i \in Nat /\ n \in 0 .. n
    BY SMT, <1>1
  <2>2. h[n + i] = h[(n + i) - 1] + c[n + i]
    BY <1>5, <2>1
  <2>3. c[n + i] = b[i] /\ g[i] = g[i - 1] + b[i] /\ h[n + (i - 1)] = f[n] + g[i - 1]
    BY <1>1, <1>5, <1>10, <2>1
  <2>4. f[n] \in Nat /\ g[i - 1] \in Nat
    BY <1>5, <2>1
  <2>5. b[i] \in Nat
    BY SMT DEF m
  <2>6. \A x, y, z \in Nat : (x + y) + z = x + (y + z)
    BY SMT
  <2>7. (f[n] + g[i - 1]) + b[i] = f[n] + (g[i - 1] + b[i])
    BY <2>4, <2>5, <2>6
  <2>8. h[n + i] = f[n] + g[i]
    BY <2>1, <2>2, <2>3, <2>7
  <2> QED
    BY <2>1, <2>8
<1>11. 0 .. m \subseteq T
  <2> HIDE DEF T
  <2> QED
    BY <1>1, <1>9, <1>10, InductionTo
<1>12. h[n + m] = f[n] + g[m]
  BY SMT, <1>1, <1>11
<1> QED
  BY <1>2, <1>3, <1>4, <1>12 DEF c

\* The sums of short sequences.
LEMMA AddedFew ==
  ASSUME NEW x \in Nat, NEW y \in Nat
  PROVE  Added(<<>>) = 0 /\ Added(<<x>>) = x /\ Added(<<x, y>>) = x + y
<1> <<>> \in Seq(Nat) /\ <<x>> \in Seq(Nat) /\ <<x, y>> \in Seq(Nat)
  BY SMT
<1>1. PICK f : IsSum(f, <<>>) /\ Added(<<>>) = f[Len(<<>>)]
  BY AddedUnfolds
<1>2. PICK g : IsSum(g, <<x>>) /\ Added(<<x>>) = g[Len(<<x>>)]
  BY AddedUnfolds
<1>3. PICK h : IsSum(h, <<x, y>>) /\ Added(<<x, y>>) = h[Len(<<x, y>>)]
  BY AddedUnfolds
<1>4. Added(<<>>) = 0
  BY <1>1 DEF IsSum
<1>5. Added(<<x>>) = x
  <2>1. Added(<<x>>) = g[1] /\ g[0] = 0 /\ g[1] = g[1 - 1] + <<x>>[1]
    BY SMT, <1>2 DEF IsSum
  <2> QED
    BY SMT, <2>1
<1>6. Added(<<x, y>>) = x + y
  <2>1. /\ Added(<<x, y>>) = h[2] /\ h[0] = 0 /\ h[1] = h[1 - 1] + <<x, y>>[1]
        /\ h[2] = h[2 - 1] + <<x, y>>[2]
    BY SMT, <1>3 DEF IsSum
  <2> QED
    BY SMT, <2>1
<1> QED
  BY <1>4, <1>5, <1>6

\* The bytes with their weights, as UdpTotal() adds them.
Weighted(b) == [i \in DOMAIN b |-> b[i] * IF i % 2 = 1 THEN 256 ELSE 1]

\* Words of two bytes, the last filled up with zero, add up to what the bytes do when each at an
\* odd place weighs 256.
LEMMA WordsAndBytes ==
  ASSUME NEW b \in Seq(Nat), \A i \in 1 .. Len(b) : b[i] <= 255
  PROVE  /\ Words(b) \in Seq(Nat) /\ Len(Words(b)) = (Len(b) + 1) \div 2
         /\ \A i \in 1 .. Len(Words(b)) : Words(b)[i] < W
         /\ Weighted(b) \in Seq(Nat) /\ Added(Words(b)) = Added(Weighted(b))
<1> DEFINE n == Len(b)
           w == Words(b)
           v == Weighted(b)
           k == (n + 1) \div 2
<1>1. n \in Nat /\ DOMAIN b = 1 .. n /\ \A i \in 1 .. n : b[i] \in Nat /\ b[i] <= 255
  BY SMT
<1> HIDE DEF n
<1>2. k \in Nat
  BY SMT, <1>1
<1>3. PICK h \in Nat : (n = 2 * h /\ k = h) \/ (n = 2 * h + 1 /\ k = h + 1)
  <2> DEFINE h == n \div 2
  <2>1. h \in Nat /\ ((n = 2 * h /\ k = h) \/ (n = 2 * h + 1 /\ k = h + 1))
    BY SMT, <1>1
  <2> QED
    BY <2>1
<1> HIDE DEF k
<1>4. \A i \in 1 .. k : 2 * i - 1 \in 1 .. n /\ (2 * i <= n => 2 * i \in 1 .. n)
  BY SMT, <1>1, <1>3
<1> DEFINE word(i) == 256 * b[2 * i - 1] + IF 2 * i <= n THEN b[2 * i] ELSE 0
           part(i) == b[i] * IF i % 2 = 1 THEN 256 ELSE 1
<1>5. ASSUME NEW i \in 1 .. k PROVE word(i) \in Nat /\ word(i) < W
  <2> DEFINE x == b[2 * i - 1]
             y == IF 2 * i <= n THEN b[2 * i] ELSE 0
  <2>1. x \in Nat /\ x <= 255 /\ y \in Nat /\ y <= 255
    BY SMT, <1>1, <1>4
  <2> HIDE DEF x, y
  <2>2. 256 * x + y \in Nat /\ 256 * x + y < 65536
    BY SMT, <2>1
  <2> QED
    BY SMT, <2>2 DEF x, y, W
<1>6. ASSUME NEW i \in 1 .. n PROVE part(i) \in Nat
  BY SMT, <1>1
<1>7. w = [i \in 1 .. k |-> word(i)] /\ v = [i \in 1 .. n |-> part(i)]
  BY <1>1 DEF Words, Weighted, k, n
<1> HIDE DEF w, v
<1>8. /\ w \in Seq(Nat) /\ Len(w) = k /\ (\A i \in 1 .. k : w[i] = word(i))
      /\ \A i \in 1 .. Len(w) : w[i] < W
  <2> HIDE DEF word
  <2> QED
    BY SMT, <1>2, <1>5, <1>7
<1>9. v \in Seq(Nat) /\ Len(v) = n /\ \A i \in 1 .. n : v[i] = part(i)
  <2> HIDE DEF part
  <2> QED
    BY SMT, <1>1, <1>6, <1>7
<1>10. PICK f : IsSum(f, w) /\ Added(w) = f[k]
  BY SMT, <1>8, AddedUnfolds
<1>11. PICK g : IsSum(g, v) /\ Added(v) = g[n]
  BY <1>9, AddedUnfolds
<1>12. /\ f[0] = 0 /\ f \in [0 .. k -> Nat] /\ \A i \in 1 .. k : f[i] = f[i - 1] + w[i]
       /\ g[0] = 0 /\ g \in [0 .. n -> Nat] /\ \A i \in 1 .. n : g[i] = g[i - 1] + v[i]
  BY <1>8, <1>9, <1>10, <1>11 DEF IsSum
<1> DEFINE S == {i \in Nat : i <= h => f[i] = g[2 * i]}
<1>13. 0 \in S
  BY SMT, <1>12
<1>14. ASSUME NEW i \in 1 .. h, i - 1 \in S PROVE i \in S
  <2>1. /\ i \in 1 .. k /\ 2 * i <= n /\ 2 * i \in 1 .. n /\ 2 * i - 1 \in 1 .. n
        /\ (2 * i) % 2 = 0 /\ (2 * i - 1) % 2 = 1 /\ i - 1 <= h /\ 2 * (i - 1) = 2 * i - 1 - 1
        /\ 2 * (i - 1) \in 0 .. n /\ i \in Nat
    BY SMT, <1>1, <1>3
  <2>2. w[i] = 256 * b[2 * i - 1] + b[2 * i]
    BY <1>8, <2>1
  <2>3. v[2 * i] = b[2 * i] * 1 /\ v[2 * i - 1] = b[2 * i - 1] * 256
    BY SMT, <1>9, <2>1
  <2>4. f[i] = f[i - 1] + w[i] /\ f[i - 1] = g[2 * (i - 1)]
    BY <1>12, <1>14, <2>1
  <2>5. g[2 * i] = g[2 * i - 1] + v[2 * i] /\ g[2 * i - 1] = g[2 * i - 1 - 1] + v[2 * i - 1]
    BY <1>12, <2>1
  <2> DEFINE x == b[2 * i - 1]
             y == b[2 * i]
             z == g[2 * (i - 1)]
  <2>6. x \in Nat /\ y \in Nat /\ z \in Nat
    BY SMT, <1>1, <1>12, <2>1
  <2>7. f[i] = z + (256 * x + y) /\ g[2 * i] = (z + x * 256) + y * 1
    BY <2>1, <2>2, <2>3, <2>4, <2>5
  <2> HIDE DEF x, y, z
  <2>8. z + (256 * x + y) = (z + x * 256) + y * 1
    BY SMT, <2>6
  <2> QED
    BY <2>1, <2>7, <2>8
<1>15. 0 .. h \subseteq S
  <2> HIDE DEF S
  <2> QED
    BY <1>13, <1>14, InductionTo
<1>16. f[h] = g[2 * h]
  BY SMT, <1>15
<1>17. f[k] = g[n]
  <2>1. CASE n = 2 * h /\ k = h
    BY <1>16, <2>1
  <2>2. CASE n = 2 * h + 1 /\ k = h + 1
    <3>1. k \in 1 .. k /\ k - 1 = h /\ n \in 1 .. n /\ n - 1 = 2 * h /\ 2 * k - 1 = n /\ ~(2 * k <= n) /\ n % 2 = 1
      BY SMT, <2>2
    <3>2. w[k] = 256 * b[n] + 0 /\ v[n] = b[n] * 256
      <4>1. w[k] = 256 * b[n] + 0
        BY <1>8, <3>1
      <4>2. v[n] = b[n] * 256
        BY <1>9, <3>1
      <4> QED
        BY <4>1, <4>2
    <3>3. f[k] = f[h] + w[k] /\ g[n] = g[2 * h] + v[n]
      BY <1>12, <3>1
    <3>4. b[n] \in Nat /\ g[2 * h] \in Nat
      BY SMT, <1>1, <1>12, <2>2, <3>1
    <3>5. \A x \in Nat : 256 * x + 0 = x * 256
      BY SMT
    <3>6. w[k] = v[n]
      BY <3>2, <3>4, <3>5
    <3> QED
      BY <1>16, <3>3, <3>6
  <2> QED
    BY <1>3, <2>1, <2>2
<1> QED
  BY <1>8, <1>9, <1>10, <1>11, <1>17 DEF w, v, k, n

\* Two sums are the same modulo 2^16 - 1.
Congruent(x, y) == \E k \in Nat : x = y + 65535 * k

\* How two sums are shown to be so.
LEMMA CongruentBy ==
  ASSUME NEW x \in Nat, NEW y \in Nat, NEW k \in Nat, x = y + 65535 * k
  PROVE  Congruent(x, y)
BY SMT DEF Congruent

\* One round of the loop adds the carries to the low word.
LEMMA OneRound ==
  ASSUME NEW u \in Nat, u >= 65536
  PROVE  \E q, r \in Nat : u = 65536 * q + r /\ r < 65536 /\ q >= 1 /\ FoldOnce(u) = r + q
<1> DEFINE q == u \div 65536
           r == u % 65536
<1>1. q \in Nat /\ r \in Nat /\ u = 65536 * q + r /\ r < 65536
  BY SMT
<1>2. FoldOnce(u) = r + q
  BY SMT DEF FoldOnce, W
<1> HIDE DEF q, r
<1>3. q >= 1
  BY <1>1, SMT
<1> QED
  BY <1>1, <1>2, <1>3, SMT

\* The loop over a sum of 32 bits makes a word of it, the same modulo 2^16 - 1, and zero of
\* zero only.
LEMMA FoldIsWord ==
  ASSUME NEW t \in Nat, t <= 4294967295
  PROVE  Fold(t) \in Nat /\ Fold(t) < W /\ (t > 0 => Fold(t) > 0) /\ Congruent(t, Fold(t))
<1> DEFINE once == IF t < W THEN t ELSE FoldOnce(t)
<1>1. Fold(t) = IF once < W THEN once ELSE FoldOnce(once)
  BY SMT DEF Fold
<1>2. /\ once \in Nat /\ once <= 131070 /\ (t > 0 => once > 0)
      /\ \E k \in Nat : t = once + 65535 * k
  <2>1. CASE t < 65536
    <3>1. once = t
      BY <2>1, SMT DEF W
    <3> HIDE DEF once
    <3> QED
      BY <2>1, <3>1, SMT
  <2>2. CASE t >= 65536
    <3>1. PICK q \in Nat, r \in Nat : t = 65536 * q + r /\ r < 65536 /\ q >= 1 /\ FoldOnce(t) = r + q
      BY <2>2, OneRound, SMT
    <3>2. once = r + q
      BY <2>2, <3>1, SMT DEF W
    <3> HIDE DEF once
    <3>3. q <= 65535 /\ t = once + 65535 * q
      BY <3>1, <3>2, SMT
    <3>4. once \in Nat /\ once <= 131070 /\ once > 0
      BY <3>1, <3>2, <3>3, SMT
    <3>5. \E k \in Nat : t = once + 65535 * k
      BY <3>3, SMT
    <3> QED
      BY <3>4, <3>5, SMT
  <2> QED
    BY <2>1, <2>2, SMT
<1> HIDE DEF once
<1>3. PICK k \in Nat : t = once + 65535 * k
  BY <1>2, SMT
<1>4. CASE once < 65536
  <2>1. Fold(t) = once
    BY <1>1, <1>4, SMT DEF W
  <2>2. Congruent(t, Fold(t))
    BY <1>2, <1>3, <2>1, CongruentBy, SMT
  <2> QED
    BY <1>2, <1>4, <2>1, <2>2, SMT DEF W
<1>5. CASE once >= 65536
  <2>1. PICK q \in Nat, r \in Nat :
          once = 65536 * q + r /\ r < 65536 /\ q >= 1 /\ FoldOnce(once) = r + q
    BY <1>2, <1>5, OneRound, SMT
  <2>2. Fold(t) = r + q
    BY <1>1, <1>2, <1>5, <2>1, SMT DEF W
  <2>3. q = 1 /\ r <= 65534
    BY <1>2, <2>1, SMT
  <2>4. t = (r + q) + 65535 * (k + 1) /\ k + 1 \in Nat /\ r + q \in Nat /\ r + q < 65536 /\ r + q > 0
    BY <1>3, <2>1, <2>3, SMT
  <2>5. Congruent(t, r + q)
    BY <2>4, CongruentBy, SMT
  <2> QED
    BY <2>2, <2>4, <2>5, SMT DEF W
<1> QED
  BY <1>2, <1>4, <1>5, SMT

\* A checksum written into a sum makes it a multiple of 2^16 - 1.
LEMMA CheckedIsGood ==
  ASSUME NEW x \in Nat, x <= 4294967295
  PROVE  /\ Not(Fold(x)) \in Nat /\ Not(Fold(x)) < W
         /\ (x + Not(Fold(x))) % (W - 1) = 0
<1> DEFINE y == Fold(x)
<1>1. y \in Nat /\ y < 65536 /\ Congruent(x, y)
  BY FoldIsWord, SMT DEF W
<1> HIDE DEF y
<1>2. PICK k \in Nat : x = y + 65535 * k
  BY <1>1, SMT DEF Congruent
<1>3. Not(y) = 65535 - y
  BY <1>1, SMT DEF Not, W
<1>4. x + Not(y) = 65535 * (k + 1)
  BY <1>1, <1>2, <1>3, SMT
<1>5. (65535 * (k + 1)) % 65535 = 0
  BY SMT
<1>6. /\ Not(y) \in Nat /\ Not(y) < W /\ (x + Not(y)) % (W - 1) = 0
  BY <1>1, <1>3, <1>4, <1>5, SMT DEF W
<1> QED
  BY <1>6, SMT DEF y

\* Where the two sides come to another sum, the kernel's is all ones.
LEMMA SumsCompared ==
  ASSUME NEW x \in Nat, x <= 4294967295, x > 0
  PROVE  LET f == Fold(x)
         IN  W - 1 - (x % (W - 1)) = Not(IF f = 0 THEN W - 1 ELSE f) \/ W - 1 - (x % (W - 1)) = W - 1
<1> DEFINE y == Fold(x)
<1>1. y \in Nat /\ y < 65536 /\ y > 0 /\ Congruent(x, y)
  BY FoldIsWord, SMT DEF W
<1> HIDE DEF y
<1>2. PICK k \in Nat : x = y + 65535 * k
  BY <1>1, SMT DEF Congruent
<1>3. Not(y) = 65535 - y
  BY <1>1, SMT DEF Not, W
<1>4. CASE y < 65535
  <2>1. x % 65535 = y
    BY <1>1, <1>2, <1>4, SMT
  <2> QED
    BY <1>1, <1>3, <2>1, SMT DEF W, y
<1>5. CASE y = 65535
  <2>1. x = 65535 * (k + 1)
    BY <1>2, <1>5, SMT
  <2>2. x % 65535 = 0
    BY <2>1, SMT
  <2> QED
    BY <2>2, SMT DEF W
<1> QED
  BY <1>1, <1>4, <1>5, SMT

IsWord(x) == x \in Nat /\ x < W

\* s is n words that add up to t.
AddsUp(s, n, t) ==
  /\ s \in Seq(Nat) /\ Len(s) = n /\ \A i \in 1 .. n : s[i] < W
  /\ t \in Nat /\ Added(s) = t

\* As many words as a packet has add up to 32 bits.
LEMMA AddsUpBounded ==
  ASSUME NEW s, NEW n \in Nat, NEW t, AddsUp(s, n, t)
  PROVE  t \in Nat /\ (n <= 65537 => t <= 4294967295)
<1>1. t \in Nat /\ t <= (W - 1) * n
  <2> SUFFICES t \in Nat /\ t <= (W - 1) * n
    OBVIOUS
  <2>1. Added(s) <= (W - 1) * Len(s)
    BY AddedIsBounded, SMT DEF AddsUp
  <2> QED
    BY <2>1, SMT DEF AddsUp
<1> QED
  BY <1>1, SMT DEF W

\* The sum of a concatenation, for words.
LEMMA AddsUpJoin ==
  ASSUME NEW a, NEW b, NEW n \in Nat, NEW m \in Nat, NEW x, NEW y,
         AddsUp(a, n, x), AddsUp(b, m, y)
  PROVE  AddsUp(a \o b, n + m, x + y)
<1> DEFINE c == a \o b
<1>1. /\ a \in Seq(Nat) /\ Len(a) = n /\ (\A i \in 1 .. n : a[i] < W) /\ Added(a) = x /\ x \in Nat
      /\ b \in Seq(Nat) /\ Len(b) = m /\ (\A i \in 1 .. m : b[i] < W) /\ Added(b) = y /\ y \in Nat
  BY DEF AddsUp
<1>2. /\ c \in Seq(Nat) /\ Len(c) = n + m
      /\ (\A i \in 1 .. n : c[i] = a[i]) /\ \A i \in 1 .. m : c[n + i] = b[i]
  <2>1. /\ c \in Seq(Nat) /\ Len(c) = Len(a) + Len(b)
        /\ (\A i \in 1 .. Len(a) : c[i] = a[i]) /\ \A i \in 1 .. Len(b) : c[Len(a) + i] = b[i]
    <3>1. a \in Seq(Nat) /\ b \in Seq(Nat)
      BY <1>1
    <3> QED
      BY <3>1, ConcatProperties, SMT
  <2> QED
    BY <1>1, <2>1
<1>3. Added(c) = x + y
  BY <1>1, AddedJoin
<1> HIDE DEF c
<1>4. ASSUME NEW i \in 1 .. n + m PROVE c[i] < W
  <2>1. CASE i <= n
    BY <1>1, <1>2, <2>1, SMT
  <2>2. CASE i > n
    <3>1. i - n \in 1 .. m /\ n + (i - n) = i
      BY <2>2, SMT
    <3>2. c[n + (i - n)] = b[i - n] /\ b[i - n] < W
      BY <1>1, <1>2, <3>1
    <3> QED
      BY <3>1, <3>2, SMT
  <2> QED
    BY <2>1, <2>2, SMT
<1>5. x + y \in Nat
  BY <1>1, SMT
<1>6. AddsUp(c, n + m, x + y)
  BY <1>2, <1>3, <1>4, <1>5 DEF AddsUp
<1> QED
  BY <1>6 DEF c

\* The sum of two words.
LEMMA AddsUpTwo ==
  ASSUME NEW x, NEW y, IsWord(x), IsWord(y)
  PROVE  AddsUp(<<x, y>>, 2, x + y)
<1>1. x \in Nat /\ x < W /\ y \in Nat /\ y < W
  BY DEF IsWord
<1>2. <<x, y>> \in Seq(Nat) /\ Len(<<x, y>>) = 2 /\ x + y \in Nat
  BY <1>1, SMT
<1>3. \A i \in 1 .. 2 : <<x, y>>[i] < W
  BY <1>1, SMT
<1>4. Added(<<x, y>>) = x + y
  BY <1>1, AddedFew
<1> QED
  BY <1>2, <1>3, <1>4 DEF AddsUp

\* The sums of three, four and six words.
LEMMA AddsUpMore ==
  ASSUME NEW s, NEW n \in Nat, s \in Seq(Nat), Len(s) = n, \A i \in 1 .. n : IsWord(s[i])
  PROVE  /\ n = 3 => AddsUp(s, 3, s[1] + s[2] + s[3])
         /\ n = 4 => AddsUp(s, 4, s[1] + s[2] + s[3] + s[4])
         /\ n = 6 => AddsUp(s, 6, s[1] + s[2] + s[3] + s[4] + s[5] + s[6])
<1>1. PICK g : IsSum(g, s) /\ Added(s) = g[Len(s)]
  BY AddedUnfolds
<1>2. /\ Added(s) = g[n] /\ g[0] = 0 /\ \A i \in 1 .. n : g[i] = g[i - 1] + s[i]
  BY <1>1 DEF IsSum
<1>3. \A i \in 1 .. n : s[i] \in Nat /\ s[i] < W
  BY DEF IsWord
<1>4. CASE n = 3
  <2>1. g[1] = g[1 - 1] + s[1] /\ g[2] = g[2 - 1] + s[2] /\ g[3] = g[3 - 1] + s[3]
    BY <1>2, <1>4, SMT
  <2>2. s[1] \in Nat /\ s[2] \in Nat /\ s[3] \in Nat
    BY <1>3, <1>4, SMT
  <2>3. Added(s) = s[1] + s[2] + s[3] /\ s[1] + s[2] + s[3] \in Nat
    BY <1>2, <1>4, <2>1, <2>2, SMT
  <2>4. AddsUp(s, 3, s[1] + s[2] + s[3])
    BY <1>3, <1>4, <2>3 DEF AddsUp
  <2> QED
    BY <1>4, <2>4, SMT
<1>5. CASE n = 4
  <2>1. /\ g[1] = g[1 - 1] + s[1] /\ g[2] = g[2 - 1] + s[2] /\ g[3] = g[3 - 1] + s[3]
        /\ g[4] = g[4 - 1] + s[4]
    BY <1>2, <1>5, SMT
  <2>2. s[1] \in Nat /\ s[2] \in Nat /\ s[3] \in Nat /\ s[4] \in Nat
    BY <1>3, <1>5, SMT
  <2>3. Added(s) = s[1] + s[2] + s[3] + s[4] /\ s[1] + s[2] + s[3] + s[4] \in Nat
    BY <1>2, <1>5, <2>1, <2>2, SMT
  <2>4. AddsUp(s, 4, s[1] + s[2] + s[3] + s[4])
    BY <1>3, <1>5, <2>3 DEF AddsUp
  <2> QED
    BY <1>5, <2>4, SMT
<1>6. CASE n = 6
  <2>1. /\ g[1] = g[1 - 1] + s[1] /\ g[2] = g[2 - 1] + s[2] /\ g[3] = g[3 - 1] + s[3]
        /\ g[4] = g[4 - 1] + s[4] /\ g[5] = g[5 - 1] + s[5] /\ g[6] = g[6 - 1] + s[6]
    BY <1>2, <1>6, SMT
  <2>2. s[1] \in Nat /\ s[2] \in Nat /\ s[3] \in Nat /\ s[4] \in Nat /\ s[5] \in Nat /\ s[6] \in Nat
    BY <1>3, <1>6, SMT
  <2>3. /\ Added(s) = s[1] + s[2] + s[3] + s[4] + s[5] + s[6]
        /\ s[1] + s[2] + s[3] + s[4] + s[5] + s[6] \in Nat
    <3>1. 1 - 1 = 0 /\ 2 - 1 = 1 /\ 3 - 1 = 2 /\ 4 - 1 = 3 /\ 5 - 1 = 4 /\ 6 - 1 = 5
      BY SMT
    <3>2. /\ g[1] = 0 + s[1] /\ g[2] = g[1] + s[2] /\ g[3] = g[2] + s[3]
          /\ g[4] = g[3] + s[4] /\ g[5] = g[4] + s[5] /\ g[6] = g[5] + s[6]
      BY <1>2, <2>1, <3>1
    <3>3. /\ g[6] = s[1] + s[2] + s[3] + s[4] + s[5] + s[6]
          /\ s[1] + s[2] + s[3] + s[4] + s[5] + s[6] \in Nat
      <4> DEFINE a == s[1]  b == s[2]  c == s[3]  d == s[4]  e == s[5]  f == s[6]
                 t1 == g[1] t2 == g[2] t3 == g[3] t4 == g[4] t5 == g[5] t6 == g[6]
      <4>1. /\ a \in Nat /\ b \in Nat /\ c \in Nat /\ d \in Nat /\ e \in Nat /\ f \in Nat
            /\ t1 = 0 + a /\ t2 = t1 + b /\ t3 = t2 + c /\ t4 = t3 + d /\ t5 = t4 + e /\ t6 = t5 + f
        BY <2>2, <3>2
      <4> HIDE DEF a, b, c, d, e, f, t1, t2, t3, t4, t5, t6
      <4>2. t6 = a + b + c + d + e + f /\ a + b + c + d + e + f \in Nat
        BY <4>1, SMT
      <4> QED
        BY <4>2 DEF a, b, c, d, e, f, t6
    <3> QED
      BY <1>2, <1>6, <3>3
  <2>4. AddsUp(s, 6, s[1] + s[2] + s[3] + s[4] + s[5] + s[6])
    BY <1>3, <1>6, <2>3 DEF AddsUp
  <2> QED
    BY <1>6, <2>4, SMT
<1> QED
  BY <1>4, <1>5, <1>6, SMT

Fields(A, B) == [src : A, dst : A, sport : Nat, dport : Nat, payload : B, sum : Nat]

IsPacket(p) ==
  /\ p \in Fields(Nat \X Nat, Seq(Nat))
  /\ IsWord(p.src[1]) /\ IsWord(p.src[2]) /\ IsWord(p.dst[1]) /\ IsWord(p.dst[2])
  /\ IsWord(p.sport) /\ IsWord(p.dport) /\ IsWord(p.sum)
  /\ IsWord(28 + Len(p.payload))
  /\ \A i \in 1 .. Len(p.payload) : p.payload[i] <= 255

\* The sum of an address.
LEMMA PairAddsUp ==
  ASSUME NEW d \in Nat \X Nat, IsWord(d[1]), IsWord(d[2])
  PROVE  AddsUp(d, 2, d[1] + d[2])
<1>1. d = <<d[1], d[2]>>
  BY SMT
<1>2. AddsUp(<<d[1], d[2]>>, 2, d[1] + d[2])
  BY AddsUpTwo
<1> QED
  BY <1>1, <1>2

\* The sum of the kernel, word by word and byte by byte, is the one the code makes.
LEMMA UdpSums ==
  ASSUME NEW p, IsPacket(p)
  PROVE  /\ udp_checksum_summer(UdpWords(p)) = UdpTotal(p)
         /\ UdpTotal(p) \in Nat /\ UdpTotal(p) > 0 /\ UdpTotal(p) <= 4294967295
<1> DEFINE n == 8 + Len(p.payload)
           A == <<UDP, n>>
           B == <<p.sport, p.dport, n, 0>>
           C == <<UDP, p.sport, p.dport>>
           D == Words(p.payload)
           E == Weighted(p.payload)
           s == p.src[1] + p.src[2]
           d == p.dst[1] + p.dst[2]
           k == (Len(p.payload) + 1) \div 2
           w == Added(E)
<1>1. /\ p.src \in Nat \X Nat /\ p.dst \in Nat \X Nat /\ p.payload \in Seq(Nat)
      /\ IsWord(p.src[1]) /\ IsWord(p.src[2]) /\ IsWord(p.dst[1]) /\ IsWord(p.dst[2])
      /\ IsWord(p.sport) /\ IsWord(p.dport) /\ IsWord(n)
      /\ \A i \in 1 .. Len(p.payload) : p.payload[i] <= 255
  <2>1. Len(p.payload) \in Nat /\ IsWord(28 + Len(p.payload))
    BY SMT DEF IsPacket, Fields
  <2>2. IsWord(n)
    BY <2>1, SMT DEF IsWord, W
  <2>3. p.src \in Nat \X Nat /\ p.dst \in Nat \X Nat /\ p.payload \in Seq(Nat)
    BY SMT DEF IsPacket, Fields
  <2> HIDE DEF n
  <2> QED
    BY <2>2, <2>3 DEF IsPacket
<1>2. 2 \in Nat /\ 3 \in Nat /\ 4 \in Nat /\ 2 + 2 \in Nat /\ (2 + 2) + 2 \in Nat /\ ((2 + 2) + 2) + 4 \in Nat
  BY SMT
<1>3. IsWord(0) /\ IsWord(UDP)
  BY SMT DEF IsWord, UDP, W
<1>4. AddsUp(p.src, 2, s) /\ AddsUp(p.dst, 2, d)
  BY <1>1, PairAddsUp
<1>5. AddsUp(A, 2, UDP + n)
  BY <1>1, <1>3, AddsUpTwo
<1>6. AddsUp(B, 4, p.sport + p.dport + n + 0)
  <2>1. p.sport \in Nat /\ p.dport \in Nat /\ n \in Nat
    BY <1>1 DEF IsWord
  <2>2. B \in Seq(Nat) /\ Len(B) = 4 /\ B[1] = p.sport /\ B[2] = p.dport /\ B[3] = n /\ B[4] = 0
    BY <2>1, SMT
  <2> HIDE DEF B, n
  <2>3. \A i \in 1 .. 4 : i = 1 \/ i = 2 \/ i = 3 \/ i = 4
    BY SMT
  <2>4. \A i \in 1 .. 4 : IsWord(B[i])
    BY <1>1, <1>3, <2>2, <2>3
  <2>5. AddsUp(B, 4, B[1] + B[2] + B[3] + B[4])
    BY <1>2, <2>2, <2>4, AddsUpMore
  <2> QED
    BY <2>2, <2>5
<1>7. AddsUp(C, 3, UDP + p.sport + p.dport)
  <2>1. p.sport \in Nat /\ p.dport \in Nat /\ UDP \in Nat
    BY <1>1, <1>3 DEF IsWord
  <2>2. C \in Seq(Nat) /\ Len(C) = 3 /\ C[1] = UDP /\ C[2] = p.sport /\ C[3] = p.dport
    BY <2>1, SMT
  <2> HIDE DEF C
  <2>3. \A i \in 1 .. 3 : i = 1 \/ i = 2 \/ i = 3
    BY SMT
  <2>4. \A i \in 1 .. 3 : IsWord(C[i])
    BY <1>1, <1>3, <2>2, <2>3
  <2>5. AddsUp(C, 3, C[1] + C[2] + C[3])
    BY <1>2, <2>2, <2>4, AddsUpMore
  <2> QED
    BY <2>2, <2>5
<1>8. AddsUp(D, k, w) /\ k \in Nat
  <2>1. /\ D \in Seq(Nat) /\ Len(D) = k /\ (\A i \in 1 .. Len(D) : D[i] < W)
        /\ E \in Seq(Nat) /\ Added(D) = w
    BY <1>1, WordsAndBytes
  <2>2. w \in Nat
    BY <2>1, AddedIsNat
  <2> HIDE DEF D, k, w
  <2>3. k \in Nat
    BY <2>1, SMT
  <2> QED
    BY <2>1, <2>2, <2>3 DEF AddsUp
<1> HIDE DEF A, B, C, D, s, d, k, w
<1>9. AddsUp(p.src \o p.dst, 2 + 2, s + d)
  BY <1>4, <1>2, AddsUpJoin
<1>10. AddsUp((p.src \o p.dst) \o A, (2 + 2) + 2, (s + d) + (UDP + n))
  BY <1>5, <1>2, <1>9, AddsUpJoin
<1>11. AddsUp(((p.src \o p.dst) \o A) \o B, ((2 + 2) + 2) + 4,
              ((s + d) + (UDP + n)) + (p.sport + p.dport + n + 0))
  BY <1>6, <1>2, <1>10, AddsUpJoin
<1>12. AddsUp(UdpWords(p), (((2 + 2) + 2) + 4) + k,
              (((s + d) + (UDP + n)) + (p.sport + p.dport + n + 0)) + w)
  <2>1. UdpWords(p) = (((p.src \o p.dst) \o A) \o B) \o D
    BY DEF UdpWords, A, B, D
  <2>2. AddsUp((((p.src \o p.dst) \o A) \o B) \o D, (((2 + 2) + 2) + 4) + k,
              (((s + d) + (UDP + n)) + (p.sport + p.dport + n + 0)) + w)
    BY <1>8, <1>2, <1>11, AddsUpJoin
  <2> QED
    BY <2>1, <2>2
<1>13. AddsUp((p.src \o p.dst) \o C, (2 + 2) + 3, (s + d) + (UDP + p.sport + p.dport))
  BY <1>7, <1>2, <1>9, AddsUpJoin
<1>14. UdpTotal(p) = ((s + d) + (UDP + p.sport + p.dport)) + 2 * n + w
  <2>1. Added((p.src \o p.dst) \o C) = (s + d) + (UDP + p.sport + p.dport)
    BY <1>13 DEF AddsUp
  <2>2. UdpTotal(p) = Added((p.src \o p.dst) \o C) + 2 * n + Added(E)
    BY DEF UdpTotal, Total, C, Weighted
  <2> QED
    BY <2>1, <2>2 DEF w
<1>15. /\ s \in Nat /\ d \in Nat /\ w \in Nat /\ p.sport \in Nat /\ p.dport \in Nat /\ n \in Nat
  BY <1>1, <1>4, <1>8 DEF AddsUp, IsWord
<1>16. UDP = 17 /\ k <= 40000
  <2>1. 8 + Len(p.payload) < W /\ Len(p.payload) \in Nat
    BY <1>1, SMT DEF IsWord
  <2> DEFINE l == Len(p.payload)
  <2>2. 8 + l < 65536 /\ l \in Nat
    BY <2>1, SMT DEF W
  <2> HIDE DEF l
  <2>3. (l + 1) \div 2 <= 40000
    BY <2>2, SMT
  <2>4. k = (l + 1) \div 2
    BY DEF k, l
  <2> HIDE DEF k
  <2> QED
    BY <2>3, <2>4, SMT DEF UDP
<1> DEFINE m == (((2 + 2) + 2) + 4) + k
           x == (((s + d) + (UDP + n)) + (p.sport + p.dport + n + 0)) + w
           sp == p.sport
           dp == p.dport
<1>17. m \in Nat /\ m <= 65537
  BY <1>8, <1>16, SMT
<1> HIDE DEF n
<1>18. x = UdpTotal(p) /\ x > 0
  <2>1. sp \in Nat /\ dp \in Nat
    BY <1>15
  <2>2. /\ x = (((s + d) + (UDP + n)) + (sp + dp + n + 0)) + w
        /\ UdpTotal(p) = ((s + d) + (UDP + sp + dp)) + 2 * n + w
    BY <1>14
  <2> HIDE DEF x, sp, dp
  <2> QED
    BY <1>15, <1>16, <2>1, <2>2, SMT
<1> HIDE DEF x, m
<1>19. AddsUp(UdpWords(p), m, x)
  BY <1>12, SMT DEF m, x
<1>20. x \in Nat /\ x <= 4294967295
  BY <1>17, <1>19, AddsUpBounded, SMT
<1>21. Added(UdpWords(p)) = x
  BY <1>19, SMT DEF AddsUp
<1> QED
  BY <1>18, <1>20, <1>21, SMT DEF udp_checksum_summer

HeaderTotal(src, dst, proto, n) ==
  ((4 * 4096 + 5 * 256) + (20 + n) + 0 + 0 + (64 * 256 + proto)) + (src[1] + src[2]) + (dst[1] + dst[2])

\* The addresses, the protocol and the length of a packet fit their fields.
IsHeader(src, dst, proto, n) ==
  /\ src \in Nat \X Nat /\ IsWord(src[1]) /\ IsWord(src[2])
  /\ dst \in Nat \X Nat /\ IsWord(dst[1]) /\ IsWord(dst[2])
  /\ n \in Nat /\ IsWord(20 + n) /\ proto \in Nat /\ proto < 256

\* A header adds up to the sum of its fields and its checksum.
LEMMA HeaderSums ==
  ASSUME NEW src, NEW dst, NEW proto, NEW n, NEW c, IsHeader(src, dst, proto, n), IsWord(c)
  PROVE  AddsUp(IpHeader(src, dst, proto, n, c), 10, HeaderTotal(src, dst, proto, n) + c)
<1> DEFINE A == <<4 * 4096 + 5 * 256, 20 + n, 0, 0, 64 * 256 + proto, c>>
           x == 4 * 4096 + 5 * 256
           y == 20 + n
           z == 64 * 256 + proto
           s == src[1] + src[2]
           d == dst[1] + dst[2]
<1>1. AddsUp(src, 2, s) /\ AddsUp(dst, 2, d)
  BY PairAddsUp DEF IsHeader
<1>2. IsWord(x) /\ IsWord(y) /\ IsWord(z) /\ IsWord(0)
  BY SMT DEF IsHeader, IsWord, W
<1>3. A = <<x, y, 0, 0, z, c>>
  OBVIOUS
<1> HIDE DEF x, y, z, A
<1>4. x \in Nat /\ y \in Nat /\ z \in Nat /\ c \in Nat
  BY <1>2 DEF IsWord
<1>5. AddsUp(A, 6, x + y + 0 + 0 + z + c)
  <2>1. /\ A \in Seq(Nat) /\ Len(A) = 6 /\ A[1] = x /\ A[2] = y /\ A[3] = 0 /\ A[4] = 0
        /\ A[5] = z /\ A[6] = c
    BY <1>3, <1>4, SMT
  <2>2. 6 \in Nat /\ \A i \in 1 .. 6 : i = 1 \/ i = 2 \/ i = 3 \/ i = 4 \/ i = 5 \/ i = 6
    BY SMT
  <2>3. \A i \in 1 .. 6 : IsWord(A[i])
    BY <1>2, <2>1, <2>2
  <2>4. AddsUp(A, 6, A[1] + A[2] + A[3] + A[4] + A[5] + A[6])
    BY <2>1, <2>2, <2>3, AddsUpMore
  <2> QED
    BY <2>1, <2>4
<1>6. 6 \in Nat /\ 2 \in Nat /\ 6 + 2 \in Nat /\ (6 + 2) + 2 = 10
  BY SMT
<1>7. AddsUp(A \o src, 6 + 2, (x + y + 0 + 0 + z + c) + s)
  BY <1>1, <1>5, <1>6, AddsUpJoin
<1>8. AddsUp((A \o src) \o dst, (6 + 2) + 2, ((x + y + 0 + 0 + z + c) + s) + d)
  BY <1>1, <1>6, <1>7, AddsUpJoin
<1>9. IpHeader(src, dst, proto, n, c) = (A \o src) \o dst
  BY DEF IpHeader, A
<1>10. HeaderTotal(src, dst, proto, n) = (x + y + 0 + 0 + z) + s + d
  BY DEF HeaderTotal, x, y, z
<1>11. s \in Nat /\ d \in Nat
  BY <1>1 DEF AddsUp
<1> HIDE DEF s, d
<1>12. ((x + y + 0 + 0 + z + c) + s) + d = ((x + y + 0 + 0 + z) + s + d) + c
  BY <1>4, <1>11, SMT
<1> QED
  BY <1>6, <1>8, <1>9, <1>10, <1>12

\* ipv4_checksum() makes the header one that the kernel accepts.
LEMMA HeaderIsGood ==
  ASSUME NEW src, NEW dst, NEW proto, NEW n, IsHeader(src, dst, proto, n)
  PROVE  /\ Good(WithSum(src, dst, proto, n))
         /\ \E t : AddsUp(WithSum(src, dst, proto, n), 10, t)
<1> DEFINE h == HeaderTotal(src, dst, proto, n)
           c == ipv4_checksum(IpHeader(src, dst, proto, n, 0))
<1>1. IsWord(0) /\ 10 \in Nat
  BY SMT DEF IsWord, W
<1>2. AddsUp(IpHeader(src, dst, proto, n, 0), 10, h + 0)
  BY <1>1, HeaderSums
<1>3. h \in Nat
  BY SMT DEF HeaderTotal, IsHeader
<1> HIDE DEF h
<1>4. h + 0 = h
  BY <1>3, SMT
<1>5. AddsUp(IpHeader(src, dst, proto, n, 0), 10, h)
  BY <1>2, <1>4
<1>6. h <= 4294967295
  BY <1>1, <1>5, AddsUpBounded, SMT
<1>7. c = Not(Fold(h))
  BY <1>5 DEF AddsUp, ipv4_checksum, udp_checksum_summer
<1> HIDE DEF c
<1>8. IsWord(c) /\ (h + c) % (W - 1) = 0
  BY <1>3, <1>6, <1>7, CheckedIsGood, SMT DEF IsWord
<1>9. AddsUp(IpHeader(src, dst, proto, n, c), 10, h + c)
  BY <1>8, HeaderSums DEF h
<1>10. WithSum(src, dst, proto, n) = IpHeader(src, dst, proto, n, c)
  BY DEF WithSum, c
<1>11. Total(IpHeader(src, dst, proto, n, c)) = h + c
  BY <1>9 DEF AddsUp, Total
<1>12. Good(WithSum(src, dst, proto, n))
  BY <1>8, <1>10, <1>11 DEF Good
<1> QED
  BY <1>9, <1>10, <1>12

\* A checksum written into an empty field adds itself to the sum.
LEMMA FieldFilled ==
  ASSUME NEW s, NEW n \in Nat, NEW t, NEW c \in Nat, AddsUp(s, n, t), 2 \in 1 .. n, s[2] = 0
  PROVE  Added([s EXCEPT ![2] = c]) = t + c
<1> DEFINE r == [s EXCEPT ![2] = c]
<1>1. s \in Seq(Nat) /\ Len(s) = n /\ t \in Nat /\ Added(s) = t
  BY DEF AddsUp
<1>2. /\ r \in Seq(Nat) /\ Len(r) = n /\ r[2] = c
      /\ \A i \in 1 .. n : i # 2 => r[i] = s[i]
  BY <1>1, SMT
<1> HIDE DEF r
<1>3. PICK f : IsSum(f, s) /\ Added(s) = f[Len(s)]
  BY <1>1, AddedUnfolds
<1>4. PICK g : IsSum(g, r) /\ Added(r) = g[Len(r)]
  BY <1>2, AddedUnfolds
<1>5. /\ f[0] = 0 /\ (\A i \in 0 .. n : f[i] \in Nat) /\ \A i \in 1 .. n : f[i] = f[i - 1] + s[i]
  BY <1>1, <1>3 DEF IsSum
<1>6. /\ g[0] = 0 /\ (\A i \in 0 .. n : g[i] \in Nat) /\ \A i \in 1 .. n : g[i] = g[i - 1] + r[i]
  BY <1>2, <1>4 DEF IsSum
<1>7. \A i \in 1 .. n : s[i] \in Nat
  BY <1>1, SMT
<1> DEFINE S == {i \in 0 .. n : g[i] = f[i] + IF i >= 2 THEN c ELSE 0}
<1>8. 0 \in S
  BY <1>5, <1>6, SMT
<1>9. ASSUME NEW i \in 1 .. n, i - 1 \in S PROVE i \in S
  <2>1. /\ g[i] = g[i - 1] + r[i] /\ f[i] = f[i - 1] + s[i] /\ i - 1 \in 0 .. n /\ f[i - 1] \in Nat
        /\ s[i] \in Nat /\ g[i - 1] = f[i - 1] + IF i - 1 >= 2 THEN c ELSE 0
    BY <1>5, <1>6, <1>7, <1>9, SMT
  <2>2. CASE i = 2
    <3>1. r[i] = c /\ s[i] = 0
      BY <1>2, <2>2
    <3> QED
      BY <2>1, <2>2, <3>1, SMT
  <2>3. CASE i # 2
    <3>1. r[i] = s[i]
      BY <1>2, <2>3
    <3> QED
      BY <2>1, <2>3, <3>1, SMT
  <2> QED
    BY <2>2, <2>3
<1>10. n \in S
  <2> HIDE DEF S
  <2>1. 0 .. n \subseteq S
    BY <1>8, <1>9, InductionTo
  <2> QED
    BY <2>1, SMT
<1>11. g[n] = f[n] + c
  BY <1>10, SMT
<1>12. Added(r) = t + c
  BY <1>1, <1>2, <1>3, <1>4, <1>11
<1> QED
  BY <1>12 DEF r

\* What reject_device_udp_packet() quotes and answers with.
Quote(p) ==
  WithSum(p.src, p.dst, UDP, 8 + Len(p.payload)) \o <<p.sport, p.dport, 8 + Len(p.payload), p.sum>>
Unreachable(p) == <<3 * 256 + 3, 0, 0, 0>> \o Quote(p)

\* Both checksums of the answer pass the kernel's check.
LEMMA AnswerIsGood ==
  ASSUME NEW p, IsPacket(p)
  PROVE  /\ Good(WithSum(p.dst, p.src, 1, 8 + 2 * Len(Quote(p))))
         /\ Good([Unreachable(p) EXCEPT ![2] = inet_checksum(Unreachable(p))])
<1> DEFINE n == 8 + Len(p.payload)
           H == WithSum(p.src, p.dst, UDP, n)
           B == <<p.sport, p.dport, n, p.sum>>
           T == <<3 * 256 + 3, 0, 0, 0>>
           q == Quote(p)
           u == Unreachable(p)
           c == inet_checksum(u)
<1>1. /\ p.src \in Nat \X Nat /\ p.dst \in Nat \X Nat /\ n \in Nat
      /\ p.sport \in Nat /\ p.dport \in Nat /\ p.sum \in Nat
  BY SMT DEF IsPacket, Fields
<1>2. IsWord(20 + n) /\ IsWord(n)
  <2>1. Len(p.payload) \in Nat /\ IsWord(28 + Len(p.payload))
    BY SMT DEF IsPacket, Fields
  <2> QED
    BY <2>1, SMT DEF IsWord, W
<1>3. /\ IsWord(p.src[1]) /\ IsWord(p.src[2]) /\ IsWord(p.dst[1]) /\ IsWord(p.dst[2])
      /\ IsWord(p.sport) /\ IsWord(p.dport) /\ IsWord(p.sum)
  BY DEF IsPacket
<1> HIDE DEF n
<1>4. IsWord(3 * 256 + 3) /\ IsWord(0) /\ UDP \in Nat /\ UDP < 256 /\ 1 \in Nat /\ 1 < 256
  BY SMT DEF IsWord, W, UDP
<1>5. IsHeader(p.src, p.dst, UDP, n)
  BY <1>1, <1>2, <1>3, <1>4 DEF IsHeader
<1>6. PICK h : AddsUp(H, 10, h)
  BY <1>5, HeaderIsGood
<1>7. 4 \in Nat /\ \A i \in 1 .. 4 : i = 1 \/ i = 2 \/ i = 3 \/ i = 4
  BY SMT
<1>8. PICK b : AddsUp(B, 4, b)
  <2>1. /\ B \in Seq(Nat) /\ Len(B) = 4 /\ B[1] = p.sport /\ B[2] = p.dport /\ B[3] = n
        /\ B[4] = p.sum
    BY <1>1, SMT
  <2> HIDE DEF B
  <2>2. \A i \in 1 .. 4 : IsWord(B[i])
    BY <1>2, <1>3, <1>7, <2>1
  <2> QED
    BY <1>7, <2>1, <2>2, AddsUpMore
<1>9. PICK a : AddsUp(T, 4, a)
  <2>1. T \in Seq(Nat) /\ Len(T) = 4 /\ T[1] = 3 * 256 + 3 /\ T[2] = 0 /\ T[3] = 0 /\ T[4] = 0
    BY SMT
  <2> HIDE DEF T
  <2>2. \A i \in 1 .. 4 : IsWord(T[i])
    BY ZenonT(60), <1>4, <1>7, <2>1
  <2> QED
    BY <1>7, <2>1, <2>2, AddsUpMore
<1>10. T \in Seq(Nat) /\ Len(T) = 4 /\ T[2] = 0
  BY SMT
<1> HIDE DEF H, B, T
<1>11. q = H \o B /\ u = T \o q
  BY DEF Quote, Unreachable, H, B, T, n
<1> HIDE DEF q, u
<1>12. 10 \in Nat /\ 10 + 4 \in Nat /\ 4 + (10 + 4) \in Nat /\ 4 + (10 + 4) <= 65537
  BY SMT
<1>13. AddsUp(q, 10 + 4, h + b)
  BY <1>6, <1>7, <1>8, <1>11, <1>12, AddsUpJoin, SMT
<1>14. AddsUp(u, 4 + (10 + 4), a + (h + b))
  BY <1>7, <1>9, <1>11, <1>12, <1>13, AddsUpJoin, SMT
<1> DEFINE t == a + (h + b)
           m == 4 + (10 + 4)
<1>15. AddsUp(u, m, t) /\ m \in Nat /\ 2 \in 1 .. m /\ m <= 65537
  BY <1>12, <1>14, SMT
<1> HIDE DEF t, m
<1>16. t \in Nat /\ t <= 4294967295 /\ Added(u) = t
  <2>1. t \in Nat /\ (m <= 65537 => t <= 4294967295)
    BY <1>15, AddsUpBounded, SMT
  <2>2. Added(u) = t
    BY <1>15, SMT DEF AddsUp
  <2> QED
    BY <1>15, <2>1, <2>2, SMT
<1>17. c = Not(Fold(t))
  BY <1>16, SMT DEF inet_checksum, udp_checksum_summer
<1> HIDE DEF c
<1>18. c \in Nat /\ (t + c) % (W - 1) = 0
  BY <1>16, <1>17, CheckedIsGood, SMT
<1>19. u[2] = 0
  <2>1. q \in Seq(Nat)
    BY <1>13 DEF AddsUp
  <2>2. 2 \in 1 .. Len(T) + Len(q) /\ 2 <= Len(T)
    BY <1>10, <2>1, SMT
  <2>3. \A i \in 1 .. Len(T) + Len(q) : (T \o q)[i] = IF i <= Len(T) THEN T[i] ELSE q[i - Len(T)]
    BY <1>10, <2>1, ConcatProperties
  <2> QED
    BY <1>10, <1>11, <2>2, <2>3
<1>20. Added([u EXCEPT ![2] = c]) = t + c
  BY <1>15, <1>18, <1>19, FieldFilled, SMT
<1>21. Good([u EXCEPT ![2] = c])
  BY <1>18, <1>20 DEF Good, Total
<1>22. Good(WithSum(p.dst, p.src, 1, 8 + 2 * Len(q)))
  <2>1. Len(q) = 10 + 4
    BY <1>13 DEF AddsUp
  <2>2. 8 + 2 * Len(q) \in Nat /\ IsWord(20 + (8 + 2 * Len(q)))
    BY <2>1, SMT DEF IsWord, W
  <2>3. IsHeader(p.dst, p.src, 1, 8 + 2 * Len(q))
    BY <1>1, <1>3, <1>4, <2>2 DEF IsHeader
  <2> QED
    BY <2>3, HeaderIsGood
<1> QED
  BY <1>21, <1>22 DEF u, q, c

\* The kernel's sum is a word, and looks at nothing that it writes; the code's differs from
\* it only where it is all ones.
LEMMA KernelAndCode ==
  ASSUME NEW p, IsPacket(p)
  PROVE  /\ IsWord(KernelSum(p)) /\ (KernelSum(p) = udp_checksum(p) \/ KernelSum(p) = W - 1)
         /\ IsWord(udp_checksum(p)) /\ (UdpTotal(p) + udp_checksum(p)) % (W - 1) = 0
<1> DEFINE x == UdpTotal(p)
           y == Fold(x)
<1>1. udp_checksum_summer(UdpWords(p)) = x /\ x \in Nat /\ x > 0 /\ x <= 4294967295
  BY UdpSums, SMT
<1>2. udp_checksum(p) = Not(IF y = 0 THEN W - 1 ELSE y)
  BY <1>1, SMT DEF udp_checksum
<1>3. KernelSum(p) = W - 1 - (x % (W - 1))
  BY SMT DEF KernelSum
<1> HIDE DEF x
<1>4. y > 0 /\ y \in Nat
  BY <1>1, FoldIsWord, SMT
<1>5. KernelSum(p) = udp_checksum(p) \/ KernelSum(p) = W - 1
  BY <1>1, <1>2, <1>3, SumsCompared, SMT
<1>6. Not(y) \in Nat /\ Not(y) < W /\ (x + Not(y)) % (W - 1) = 0
  BY <1>1, CheckedIsGood, SMT
<1> HIDE DEF y
<1>7. udp_checksum(p) = Not(y)
  BY <1>2, <1>4, SMT
<1>8. IsWord(udp_checksum(p)) /\ (UdpTotal(p) + udp_checksum(p)) % (W - 1) = 0
  BY <1>6, <1>7, SMT DEF IsWord, x
<1>9. IsWord(KernelSum(p))
  BY <1>1, <1>3, SMT DEF IsWord, W
<1> QED
  BY <1>5, <1>8, <1>9, SMT

\* A packet with a new checksum or new addresses has the fields of a packet.
LEMMA FieldsChanged ==
  ASSUME NEW A, NEW B, NEW p \in Fields(A, B), NEW a \in A, NEW b \in A, NEW n \in Nat
  PROVE  /\ [p EXCEPT !.sum = n] \in Fields(A, B)
         /\ [p EXCEPT !.src = a, !.dst = b, !.dport = n] \in Fields(A, B)
<1>1. [p EXCEPT !.sum = n] \in Fields(A, B)
  BY SMT DEF Fields
<1> DEFINE q == [p EXCEPT !.src = a]
           r == [q EXCEPT !.dst = b]
<1>2. q \in Fields(A, B)
  BY SMT DEF Fields
<1> HIDE DEF q
<1>3. r \in Fields(A, B)
  BY <1>2, SMT DEF Fields
<1> HIDE DEF r
<1>4. [r EXCEPT !.dport = n] \in Fields(A, B)
  BY <1>3, SMT DEF Fields
<1> QED
  BY <1>1, <1>4 DEF q, r

\* 2^16 is a number.
LEMMA WIsNat == W \in Nat
BY SMT DEF W

\* A word is below 2^16.
LEMMA InWords ==
  ASSUME NEW x \in 0 .. W - 1
  PROVE  IsWord(x) /\ x \in Nat
<1>1. x \in Nat /\ x < W
  BY WIsNat, SMT
<1> QED
  BY <1>1 DEF IsWord

\* Neither side sums the checksum itself.
LEMMA SumIsNotSummed ==
  ASSUME NEW p, IsPacket(p), NEW s, IsWord(s)
  PROVE  LET q == [p EXCEPT !.sum = s]
         IN  IsPacket(q) /\ q.sum = s /\ UdpTotal(q) = UdpTotal(p) /\ q.dport = p.dport
<1> DEFINE q == [p EXCEPT !.sum = s]
<1>1. /\ q.src = p.src /\ q.dst = p.dst /\ q.sport = p.sport /\ q.dport = p.dport
      /\ q.payload = p.payload /\ q.sum = s
  BY SMT DEF IsPacket, Fields
<1>2. q \in Fields(Nat \X Nat, Seq(Nat))
  <2>1. p \in Fields(Nat \X Nat, Seq(Nat)) /\ s \in Nat /\ p.src \in Nat \X Nat
    BY SMT DEF IsPacket, Fields, IsWord
  <2> QED
    BY <2>1, FieldsChanged DEF IsPacket
<1> HIDE DEF q
<1>3. UdpTotal(q) = UdpTotal(p)
  BY <1>1 DEF UdpTotal
<1>4. IsPacket(q)
  BY <1>1, <1>2 DEF IsPacket
<1> QED
  BY <1>1, <1>3, <1>4 DEF q

\* What process_device_dns_packet() hands to the DNS gateway passes the kernel's check.
LEMMA TurnedIsGood ==
  ASSUME NEW p, IsPacket(p)
  PROVE  GoodUdp(Turn(p))
<1> DEFINE q == [p EXCEPT !.src = NetifAddr, !.dst = AppAddr, !.dport = DnsGwPort]
<1>1. /\ q.src = NetifAddr /\ q.dst = AppAddr /\ q.sport = p.sport /\ q.dport = DnsGwPort
      /\ q.payload = p.payload /\ q.sum = p.sum
  BY SMT DEF IsPacket, Fields
<1>2. /\ NetifAddr \in Nat \X Nat /\ AppAddr \in Nat \X Nat /\ DnsGwPort \in Nat
      /\ IsWord(NetifAddr[1]) /\ IsWord(NetifAddr[2]) /\ IsWord(AppAddr[1]) /\ IsWord(AppAddr[2])
      /\ IsWord(DnsGwPort)
  BY SMT DEF NetifAddr, AppAddr, DnsGwPort, IsWord, W
<1>3. q \in Fields(Nat \X Nat, Seq(Nat))
  BY <1>2, FieldsChanged DEF IsPacket
<1>4. Turn(p) = [q EXCEPT !.sum = udp_checksum(q)]
  BY DEF Turn
<1> HIDE DEF q
<1>5. IsPacket(q)
  BY <1>1, <1>2, <1>3 DEF IsPacket
<1>6. IsWord(udp_checksum(q)) /\ (UdpTotal(q) + udp_checksum(q)) % (W - 1) = 0
  BY <1>5, KernelAndCode
<1>7. Turn(p).sum = udp_checksum(q) /\ UdpTotal(Turn(p)) = UdpTotal(q)
  BY <1>4, <1>5, <1>6, SumIsNotSummed
<1> QED
  BY <1>6, <1>7 DEF GoodUdp
-----------------------------------------------------------------------------
SumsInv ==
  /\ at \in {"app", "device", "gateway", "icmp"}
  /\ at # "gateway" => IsPacket(packet)
  /\ at \in {"device", "icmp"} => packet.sum = KernelSum(packet)
  /\ ChecksumsAgree

\* A datagram of an app is a packet.
LEMMA SumsInvInit == SumsInit => SumsInv
<1> SUFFICES ASSUME SumsInit PROVE SumsInv
  OBVIOUS
<1> DEFINE p == packet
<1>1. p \in Datagrams /\ at = "app"
  BY DEF SumsInit
<1>2. /\ p.src = AppAddr /\ p.dst \in Destinations /\ p.sport \in SrcPorts /\ p.dport \in DestPorts
      /\ p.payload \in UNION {[1 .. n -> Bytes] : n \in 0 .. MaxLen} /\ p.sum = 0
      /\ p = [src |-> p.src, dst |-> p.dst, sport |-> p.sport, dport |-> p.dport,
              payload |-> p.payload, sum |-> p.sum]
  BY <1>1, SMT DEF Datagrams
<1> HIDE DEF p
<1>3. /\ AppAddr \in Nat \X Nat /\ IsWord(AppAddr[1]) /\ IsWord(AppAddr[2]) /\ IsWord(0)
  BY SMT DEF AppAddr, IsWord, W
<1>4. p.dst \in Nat \X Nat /\ IsWord(p.dst[1]) /\ IsWord(p.dst[2])
  <2> DEFINE d == p.dst
  <2>1. d = <<d[1], d[2]>> /\ d[1] \in 0 .. W - 1 /\ d[2] \in 0 .. W - 1
    BY <1>2, PacketsAssumption
  <2> HIDE DEF d
  <2>2. IsWord(d[1]) /\ d[1] \in Nat /\ IsWord(d[2]) /\ d[2] \in Nat
    BY <2>1, InWords
  <2>3. <<d[1], d[2]>> \in Nat \X Nat
    BY <2>2, SMT
  <2>4. d \in Nat \X Nat /\ IsWord(d[1]) /\ IsWord(d[2])
    BY <2>1, <2>2, <2>3
  <2> QED
    BY <2>4 DEF d
<1>5. IsWord(p.sport) /\ IsWord(p.dport) /\ p.sport \in Nat /\ p.dport \in Nat
  BY ZenonT(60), <1>2, PacketsAssumption, InWords
<1>6. /\ p.payload \in Seq(Nat) /\ IsWord(28 + Len(p.payload))
      /\ \A i \in 1 .. Len(p.payload) : p.payload[i] <= 255
  <2> DEFINE b == p.payload
  <2>1. PICK n \in 0 .. MaxLen : b \in [1 .. n -> Bytes]
    BY <1>2
  <2> HIDE DEF b
  <2>2. MaxLen \in Nat /\ MaxLen + 29 <= W /\ \A y \in Bytes : y \in Nat /\ y <= 255
    <3>1. MaxLen \in 0 .. W - 29 /\ Bytes \subseteq 0 .. 255
      BY PacketsAssumption
    <3>2. MaxLen \in Nat /\ MaxLen + 29 <= W
      BY <3>1, WIsNat, SMT
    <3>3. \A y \in Bytes : y \in Nat /\ y <= 255
      BY <3>1, SMT
    <3> QED
      BY <3>2, <3>3
  <2>3. b \in Seq(Nat) /\ Len(b) = n
    BY <2>1, <2>2, SMT
  <2>4. \A i \in 1 .. Len(b) : b[i] <= 255
    BY <2>1, <2>2, <2>3, SMT
  <2>5. IsWord(28 + Len(b))
    BY <2>1, <2>2, <2>3, SMT DEF IsWord, W
  <2> QED
    BY <2>3, <2>4, <2>5, SMT DEF b
<1>7. p \in Fields(Nat \X Nat, Seq(Nat))
  BY <1>2, <1>3, <1>4, <1>5, <1>6, SMT DEF Fields
<1>8. IsPacket(p)
  BY <1>2, <1>3, <1>4, <1>5, <1>6, <1>7 DEF IsPacket
<1> QED
  BY <1>1, <1>8, SMT DEF SumsInv, ChecksumsAgree, p

\* Every step of PacketChecksums keeps the invariant.
LEMMA SumsInvNext == SumsInv /\ [SumsNext]_sumsVars => SumsInv'
<1> SUFFICES ASSUME SumsInv, [SumsNext]_sumsVars PROVE SumsInv'
  OBVIOUS
<1>1. CASE AppSends
  <2>1. at = "app" /\ at' = "device" /\ packet' = [packet EXCEPT !.sum = KernelSum(packet)]
    BY <1>1 DEF AppSends
  <2>2. IsPacket(packet)
    BY <2>1, SMT DEF SumsInv
  <2>3. IsWord(KernelSum(packet))
    BY <2>2, KernelAndCode
  <2>4. IsPacket(packet') /\ packet'.sum = KernelSum(packet) /\ UdpTotal(packet') = UdpTotal(packet)
    BY <2>1, <2>2, <2>3, SumIsNotSummed
  <2>5. packet'.sum = KernelSum(packet')
    BY <2>4 DEF KernelSum
  <2>6. ChecksumsAgree'
    BY <2>1, SMT DEF ChecksumsAgree
  <2> QED
    BY <2>1, <2>4, <2>5, <2>6 DEF SumsInv
<1>2. CASE process_device_dns_packet
  <2>1. at = "device" /\ at' = "gateway" /\ packet' = Turn(packet)
    BY <1>2 DEF process_device_dns_packet
  <2>2. IsPacket(packet)
    BY <2>1, SMT DEF SumsInv
  <2>3. GoodUdp(packet')
    BY <2>1, <2>2, TurnedIsGood
  <2>4. ChecksumsAgree'
    BY <2>1, <2>3, SMT DEF ChecksumsAgree
  <2> QED
    BY <2>1, <2>4, SMT DEF SumsInv
<1>3. CASE reject_device_udp_packet
  <2>1. at = "device" /\ at' = "icmp" /\ packet' = packet /\ ~IsDns(packet)
    BY <1>3 DEF reject_device_udp_packet
  <2>2. IsPacket(packet) /\ packet.sum = KernelSum(packet)
    BY <2>1, SMT DEF SumsInv
  <2>3. reply' = [ip   |-> WithSum(packet.dst, packet.src, 1, 8 + 2 * Len(Quote(packet))),
                  icmp |-> [Unreachable(packet) EXCEPT ![2] = inet_checksum(Unreachable(packet))]]
    BY <1>3 DEF reject_device_udp_packet, Unreachable, Quote
  <2>4. Good(reply'.ip) /\ Good(reply'.icmp)
    BY <2>2, <2>3, AnswerIsGood
  <2>5. packet.dport = 53 => packet.sum = W - 1
    BY <2>1, <2>2, KernelAndCode DEF IsDns
  <2>6. ChecksumsAgree'
    BY <2>1, <2>4, <2>5, SMT DEF ChecksumsAgree
  <2> QED
    BY <2>1, <2>2, <2>6 DEF SumsInv
<1>4. CASE UNCHANGED sumsVars
  <2>1. packet' = packet /\ reply' = reply /\ at' = at
    BY <1>4 DEF sumsVars
  <2> QED
    BY <2>1 DEF SumsInv, ChecksumsAgree
<1> QED
  BY <1>1, <1>2, <1>3, <1>4 DEF SumsNext

\* ChecksumsAgree for all addresses, ports and payloads: what process_device_dns_packet() and
\* reject_device_udp_packet() write passes the kernel's check, and a query that the kernel summed
\* is refused only where its sum is all ones.
THEOREM SumsAgree == SumsSpec => []ChecksumsAgree
<1>1. SumsInv => ChecksumsAgree
  BY DEF SumsInv
<1> QED
  BY <1>1, SumsInvInit, SumsInvNext, PTL DEF SumsSpec
=============================================================================
