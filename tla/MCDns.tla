------------------------------- MODULE MCDns --------------------------------
(* DNS on its way: the address translation of tun2socks (DnsNat), the         *)
(* checksums of the packets it turns round or answers (PacketChecksums), and  *)
(* pdnsd's connections through the relay (DnsTcpRelay). They share no state,  *)
(* so every behaviour is one of a single part, the other two resting in their *)
(* initial states.                                                            *)
(*                                                                            *)
(* Three queries from two ports, by two addresses, to two name servers.       *)
(* Datagrams to 8.8.8.8 and 223.255.255.254 from the source ports at which    *)
(* their sums come to zero (47998) or carry twice (30729, 48002), and the     *)
(* neighbours of these. A connection of one byte each way beside one that     *)
(* carries none, and the two resolvers of DEFAULT_UPSTREAMS.                  *)
EXTENDS DnsTcpRelay, DnsNat, PacketChecksums, TLC

CONSTANTS c1, c2

VARIABLE part

DnsVars == <<vars, tableVars, sumsVars, part>>

DnsInit ==
  /\ Init /\ TableInit
  /\ \/ part = "sums" /\ SumsInit
     \/ /\ part \in {"relay", "table"}
        /\ at = "rest" /\ packet = "none" /\ reply = "none"

Relay(A) == part = "relay" /\ A /\ UNCHANGED <<tableVars, sumsVars, part>>

DnsNext ==
  \/ Relay(Next)
  \/ part = "table" /\ TableNext /\ UNCHANGED <<vars, sumsVars, part>>
  \/ part = "sums" /\ SumsNext /\ UNCHANGED <<vars, tableVars, part>>

\* Threads run, and the timeouts of sockets and of get() fire; nothing is
\* assumed of pdnsd, of the proxy or of close().
DnsFairSpec ==
  /\ DnsInit /\ [][DnsNext]_DnsVars
  /\ WF_DnsVars(Relay(Acceptor))
  /\ \A c \in Conns :
       WF_DnsVars(Relay(Thread(c))) /\ WF_DnsVars(Relay(EndBack(c) \/ Copy(c, "query")))
-----------------------------------------------------------------------------
TwoConns == {c1, c2}
OneAndNone == c1 :> 1 @@ c2 :> 0
TwoDestinations == {<<2056, 2056>>, <<57343, 65534>>}
=============================================================================
