------------------------- MODULE RelayedConnection -------------------------
(* One TCP connection of an app as tun2socks relays it: the tcp_client of    *)
(* tun2socks.c together with the BSocksClient that it creates, uses and      *)
(* frees. The two run in one reactor, and a call between them is one step:   *)
(* a handler of the SOCKS client that reports up or an error runs            *)
(* client_socks_handler() at once, and whatever makes the tcp_client free    *)
(* its SOCKS client calls BSocksClient_Free() at once.                       *)
EXTENDS TcpClient

CONSTANT AuthInfo \* the methods offered to the SOCKS server

VARIABLES state, live, buffer, recv_total, sending, stream, server, sent, delivered, freed

socksVars == <<state, live, buffer, recv_total, sending, stream, server, sent, delivered, freed>>
relayVars == <<vars, socksVars>>

Socks == INSTANCE BSocksClient WITH Data <- DownData

RelayInit == Init /\ Socks!Init

\* A handler A of the SOCKS client, with the event it reports to the tcp_client.
Reports(A) ==
  /\ c.mem = "live" /\ A
  /\ \/ freed' /\ SocksDown
     \/ ~freed' /\ state' = "UP" /\ SocksUp
     \/ ~freed' /\ state' # "UP" /\ call = "none" /\ UNCHANGED vars

Frees == c.mem = "live" /\ c.socks # "down" /\ c'.socks = "down"

\* A step B of the tcp_client, which may free the SOCKS client.
Uses(B) ==
  /\ B
  /\ \/ Frees /\ Socks!Free
     \/ ~Frees /\ UNCHANGED socksVars

\* Both ends of a receive: the bytes, and what the tcp_client does with them.
Receives ==
  /\ client_socks_recv_handler_done /\ Socks!UserReceives
  /\ Len(delivered') = downNext' /\ freed' = Frees

Server == (Socks!Answer \/ Socks!Payload) /\ UNCHANGED vars

RelayNext ==
  \/ Reports(Socks!Handler) \/ Uses(Lwip) \/ Uses(client_socks_send_handler_done) \/ Uses(Murder)
  \/ Receives \/ Server

RelaySpec == RelayInit /\ [][RelayNext]_relayVars

(* The reactor runs the handlers of a ready socket, the kernel reports a      *)
(* refused connection, the server answers (BSocksClient has no timeout of its *)
(* own), what is sent is taken or the connection fails, and lwIP sees what it *)
(* queued acknowledged or gives up on it.                                     *)
RelayFairness ==
  /\ WF_relayVars(Reports(Socks!ConnectorHandler \/ Socks!ConnectorFails))
  /\ WF_relayVars(Reports(Socks!SendHandlerDone)) /\ WF_relayVars(Reports(Socks!RecvHandlerDone))
  /\ WF_relayVars(Socks!Answer /\ UNCHANGED vars)
  /\ WF_relayVars(c.sending > 0
                  /\ (Uses(client_socks_send_handler_done) \/ Reports(Socks!ConnectionHandler)))
  /\ WF_relayVars(c.snd # <<>> /\ Uses(client_sent_func \/ client_err_func))
  /\ WF_relayVars(Uses(CallReturns))

RelayFairSpec == RelaySpec /\ RelayFairness
-----------------------------------------------------------------------------
(* In whichever callback the tcp_client frees its SOCKS client, or hears of   *)
(* its error, BSocksClient_Free() releases each resource exactly once.        *)
SocksResourcesBalanced == Socks!ResourcesBalanced

(* What the tcp_client sees of its SOCKS client is a SocksConnection: what    *)
(* the app is sent begins with the far end's first byte, none of which the    *)
(* handshake of recv_handler_done() has swallowed.                            *)
SocksImplements == Socks!Implements

(* With a server that answers, every accepted connection of an app comes to   *)
(* know whether its SOCKS connection is up or down: no handler leaves the     *)
(* handshake waiting for nothing, and none of its reports is lost.            *)
HandshakeSettles == c.mem = "live" ~> c.socks # "connecting"
=============================================================================
