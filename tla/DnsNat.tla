----------------------------- MODULE DnsNat --------------------------------
(* badvpn/tun2socks/tun2socks.c, process_device_dns_packet(): the address     *)
(* translation of DNS. A query (UDP to port 53) that an app puts on the TUN   *)
(* device is turned round to the DNS gateway, pdnsd, with the address pair it *)
(* came with noted under its source port; pdnsd's answer, read from the same  *)
(* device, gets the noted addresses back. The kernel and pdnsd are external;  *)
(* packets between them may be lost. Checksums are in PacketChecksums.        *)
EXTENDS Naturals, FiniteSets

CONSTANTS
  Ports,      \* source ports of queries
  Locals,     \* addresses of apps
  Servers,    \* name servers the apps ask
  MaxQueries

Queries == 1 .. MaxQueries
None == "none"
Unasked == [state |-> "unasked", port |-> None, local |-> None, server |-> None,
            clean |-> TRUE, to |-> None, from |-> None]

VARIABLES
  init,               \* the static flag of process_device_dns_packet()
  connections_tree,   \* a partial function from ports to Connection records
  query               \* each query: where it is, and the addresses it carries

tableVars == <<init, connections_tree, query>>

Empty == [p \in {} |-> 0]
TableInit ==
  /\ init = FALSE /\ connections_tree = Empty
  /\ query = [q \in Queries |-> Unasked]
-----------------------------------------------------------------------------
insert_connection_replacing(local, remote, port) ==
  [p \in DOMAIN connections_tree \cup {port} |->
     IF p = port THEN [local |-> local, remote |-> remote, count |-> 1] ELSE connections_tree[p]]

insert_connection(local, remote, port) ==
  IF port \in DOMAIN connections_tree
  THEN [connections_tree EXCEPT ![port].count = @ + 1]
  ELSE [p \in DOMAIN connections_tree \cup {port} |->
          IF p = port THEN [local |-> local, remote |-> remote, count |-> 1] ELSE connections_tree[p]]

remove_connection_late(port) ==
  IF connections_tree[port].count < 1
  THEN [p \in DOMAIN connections_tree \ {port} |-> connections_tree[p]]
  ELSE [connections_tree EXCEPT ![port].count = @ - 1]

remove_connection(port) ==
  IF connections_tree[port].count <= 1
  THEN [p \in DOMAIN connections_tree \ {port} |-> connections_tree[p]]
  ELSE [connections_tree EXCEPT ![port].count = @ - 1]

\* History: no query of the port with another address pair is unanswered.
Clean(port, local, server) ==
  \A r \in Queries : query[r].port = port /\ query[r].state # "done" =>
    query[r].clean /\ query[r].local = local /\ query[r].server = server

\* process_device_dns_packet(): a well-formed query with a good checksum.
Query ==
  \E q \in Queries, port \in Ports, local \in Locals, server \in Servers :
    /\ query[q] = Unasked /\ \A r \in 1 .. q - 1 : query[r] # Unasked
    /\ init' = TRUE
    /\ connections_tree' = insert_connection(local, server, port)
    /\ query' = [query EXCEPT ![q] =
                  [@ EXCEPT !.state = "at pdnsd", !.port = port, !.local = local, !.server = server,
                            !.clean = Clean(port, local, server)]]

\* process_device_dns_packet(): an answer. Without a note the packet is not
\* taken for DNS, and reject_device_udp_packet() refuses it.
Answer ==
  \E q \in Queries :
    /\ query[q].state = "answered"
    /\ IF init /\ query[q].port \in DOMAIN connections_tree
       THEN LET con == connections_tree[query[q].port]
            IN /\ query' = [query EXCEPT ![q] = [@ EXCEPT !.state = "done", !.from = con.remote, !.to = con.local]]
               /\ connections_tree' = remove_connection(query[q].port)
       ELSE /\ query' = [query EXCEPT ![q].state = "refused"]
            /\ UNCHANGED connections_tree
    /\ UNCHANGED init

\* pdnsd answers a query, or does not.
PdnsdAnswers ==
  /\ \E q \in Queries : query[q].state = "at pdnsd" /\ query' = [query EXCEPT ![q].state = "answered"]
  /\ UNCHANGED <<init, connections_tree>>

Lose ==
  /\ \E q \in Queries : query[q].state \in {"at pdnsd", "answered"} /\ query' = [query EXCEPT ![q].state = "lost"]
  /\ UNCHANGED <<init, connections_tree>>

TableNext == Query \/ Answer \/ PdnsdAnswers \/ Lose

TableSpec == TableInit /\ [][TableNext]_tableVars
-----------------------------------------------------------------------------
Unanswered(p) ==
  {q \in Queries : query[q].port = p /\ query[q].state \in {"at pdnsd", "answered", "lost"}}

(* However queries, retries and answers of one port interleave and get lost,  *)
(* insert_connection() and remove_connection() balance: a port has an entry   *)
(* if and only if some query of it is unanswered, and the entry counts those  *)
(* queries, lost ones included. So no answer of pdnsd is refused, the table   *)
(* is empty when every query was answered, and a lost packet leaves an entry  *)
(* that nothing removes.                                                      *)
EntriesCountUnanswered ==
  /\ \A p \in Ports :
       IF Unanswered(p) = {} THEN p \notin DOMAIN connections_tree
       ELSE p \in DOMAIN connections_tree /\ connections_tree[p].count = Cardinality(Unanswered(p))
  /\ \A q \in Queries : query[q].state # "refused"

(* An answer carries the addresses of its query unless the port had, when   *)
(* it was asked, a query with other addresses unanswered: the entry of a port *)
(* keeps the addresses of its first query until every answer has come.        *)
AnswersAreReaddressed ==
  \A q \in Queries : query[q].state = "done" /\ query[q].clean =>
    query[q].to = query[q].local /\ query[q].from = query[q].server
=============================================================================
