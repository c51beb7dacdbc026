----------------------------- MODULE DnsTcpRelay -----------------------------
(* service/DnsTcpRelay.kt and service/Socks5.kt: pdnsd's DNS-over-TCP         *)
(* connections, each carried by a thread of the pool (serve), which copies    *)
(* from the resolver to pdnsd, and a second one that copies the other way.    *)
(* close() may come at any time, from Tun2SocksLauncher.stop(). pdnsd, the    *)
(* SOCKS proxy and the resolvers are external: either end of a connection     *)
(* may send, end its stream, break, or fall silent for good.                  *)
EXTENDS Naturals, FiniteSets

CONSTANTS
  Conns,        \* connections of pdnsd
  NUpstreams,   \* length of upstreams
  MaxBytes      \* per connection: bytes either end of it sends at most

ASSUME RelayAssumption == NUpstreams \in Nat \ {0} /\ MaxBytes \in [Conns -> Nat]

VARIABLES
  closing,    \* how far close() is: "open", "flag", "server", "pool"
  acceptor,   \* "accepting", "over", "rejected"
  held,       \* the socket acceptLoop has accepted and not yet handed over
  stage,      \* of each connection; see Stages
  target,     \* the upstream being tried; 1 when none is
  back,       \* the task pump(client, upstream): "none", "running", "over"
  sent, copied, eof,   \* per connection and direction
  broken      \* per connection and direction: an end broke the stream
\* History of whether a timeout, a break or close() cut a connection short.
VARIABLE cut

vars == <<closing, acceptor, held, stage, target, back, sent, copied, eof, broken, cut>>

Stages == {"none", "backlog", "accepted", "connecting", "pumping", "waiting", "over", "rejected"}
ServerClosed == closing \in {"server", "pool"}
PoolDown == closing = "pool"
Live == {"pumping", "waiting"}
Nobody == "nobody"
Dirs == {"query", "answer"}   \* client to upstream, upstream to client

Init ==
  /\ closing = "open" /\ acceptor = "accepting" /\ held = Nobody
  /\ stage = [c \in Conns |-> "none"] /\ target = [c \in Conns |-> 1]
  /\ back = [c \in Conns |-> "none"]
  /\ sent = [c \in Conns |-> [d \in Dirs |-> 0]] /\ copied = sent
  /\ eof = [c \in Conns |-> [d \in Dirs |-> FALSE]] /\ broken = eof
  /\ cut = [c \in Conns |-> FALSE]

streams == <<sent, copied, eof, broken>>
-----------------------------------------------------------------------------
\* pdnsd connects; the kernel queues the connection.
Connect(c) ==
  /\ stage[c] = "none" /\ ~ServerClosed
  /\ stage' = [stage EXCEPT ![c] = "backlog"]
  /\ UNCHANGED <<closing, acceptor, held, target, back, streams, cut>>

\* Either end sends, ends its stream, or is gone.
Speak(c, d) ==
  /\ stage[c] \in (IF d = "query" THEN {"backlog", "accepted", "connecting"} \cup Live ELSE Live)
  /\ ~eof[c][d] /\ ~broken[c][d]
  /\ \/ sent[c][d] < MaxBytes[c] /\ sent' = [sent EXCEPT ![c][d] = @ + 1] /\ UNCHANGED <<eof, broken>>
     \/ eof' = [eof EXCEPT ![c][d] = TRUE] /\ UNCHANGED <<sent, broken>>
     \/ broken' = [broken EXCEPT ![c] = [e \in Dirs |-> TRUE]] /\ UNCHANGED <<sent, eof>>
  /\ UNCHANGED <<closing, acceptor, held, stage, target, back, copied, cut>>

\* acceptLoop: accept(), which may have been entered before close(), returns a
\* socket.
Accept ==
  /\ acceptor = "accepting" /\ held = Nobody /\ ~ServerClosed
  /\ \E c \in Conns : stage[c] = "backlog" /\ stage' = [stage EXCEPT ![c] = "accepted"] /\ held' = c
  /\ UNCHANGED <<closing, acceptor, target, back, streams, cut>>

\* An exception of accept() ends the loop, whether the server was closed or the
\* system refused a descriptor.
AcceptEnds ==
  /\ acceptor = "accepting" /\ held = Nobody
  /\ acceptor' = "over"
  /\ UNCHANGED <<closing, held, stage, target, back, streams, cut>>

\* pool.execute { serve(client) }: a pool that was shut down throws, which
\* nobody catches. Then while (!closed) again.
Execute ==
  /\ held # Nobody /\ held' = Nobody
  /\ IF PoolDown THEN stage' = [stage EXCEPT ![held] = "rejected"] /\ acceptor' = "rejected"
                 ELSE /\ stage' = [stage EXCEPT ![held] = "connecting"]
                      /\ acceptor' = IF closing = "open" THEN "accepting" ELSE "over"
  /\ UNCHANGED <<closing, target, back, streams, cut>>

\* connectUpstream: Socks5.connect() throws, for a refusal, a timeout of the
\* connect or of a read, or a broken stream, having closed its socket.
ConnectUpstreamFails(c) ==
  /\ stage[c] = "connecting"
  /\ IF target[c] = NUpstreams
     THEN /\ stage' = [stage EXCEPT ![c] = "over"] /\ cut' = [cut EXCEPT ![c] = TRUE]
          /\ target' = [target EXCEPT ![c] = 1]
     ELSE target' = [target EXCEPT ![c] = @ + 1] /\ UNCHANGED <<stage, cut>>
  /\ UNCHANGED <<closing, acceptor, held, back, streams>>

\* Socks5.connect() returns; serve() sets the idle timeouts and submits the
\* other pump, which a pool that was shut down refuses by an exception that
\* closes both sockets on its way out.
ConnectUpstream(c) ==
  /\ stage[c] = "connecting"
  /\ IF PoolDown THEN stage' = [stage EXCEPT ![c] = "rejected"] /\ UNCHANGED back
                 ELSE stage' = [stage EXCEPT ![c] = "pumping"] /\ back' = [back EXCEPT ![c] = "running"]
  /\ target' = [target EXCEPT ![c] = 1]
  /\ UNCHANGED <<closing, acceptor, held, streams, cut>>

\* A pump moves a byte along.
Copy(c, d) ==
  /\ IF d = "query" THEN back[c] = "running" /\ stage[c] \in Live ELSE stage[c] = "pumping"
  /\ copied[c][d] < sent[c][d] /\ ~broken[c][d]
  /\ copied' = [copied EXCEPT ![c][d] = @ + 1]
  /\ UNCHANGED <<closing, acceptor, held, stage, target, back, sent, eof, broken, cut>>

\* A pump ends: at the end of the stream, by an exception because an end broke
\* or the sockets were closed, or because nothing came for IDLE_TIMEOUT_MS.
AtEnd(c, d) == eof[c][d] /\ copied[c][d] = sent[c][d]
EndsAtEofOnly(c, d) == AtEnd(c, d) \/ broken[c][d] \/ stage[c] = "over"

Ends(c, d) ==
  AtEnd(c, d) \/ broken[c][d] \/ copied[c][d] = sent[c][d] \/ stage[c] = "over"

EndBack(c) ==
  /\ back[c] = "running" /\ Ends(c, "query")
  /\ back' = [back EXCEPT ![c] = "over"]
  /\ cut' = [cut EXCEPT ![c] = @ \/ ~AtEnd(c, "query")]
  /\ UNCHANGED <<closing, acceptor, held, stage, target, streams>>

EndPumpAtOnce(c) ==
  /\ stage[c] = "pumping" /\ Ends(c, "answer")
  /\ stage' = [stage EXCEPT ![c] = "over"]
  /\ cut' = [cut EXCEPT ![c] = @ \/ ~AtEnd(c, "answer")]
  /\ UNCHANGED <<closing, acceptor, held, target, back, streams>>

EndPump(c) ==
  /\ stage[c] = "pumping" /\ Ends(c, "answer")
  /\ stage' = [stage EXCEPT ![c] = "waiting"]
  /\ cut' = [cut EXCEPT ![c] = @ \/ ~AtEnd(c, "answer")]
  /\ UNCHANGED <<closing, acceptor, held, target, back, streams>>

\* toUpstream.get(): the other pump is over, or the wait timed out, or the
\* interrupt of shutdownNow() ended it. Both sockets are closed.
Finish(c) ==
  /\ stage[c] = "waiting"
  /\ stage' = [stage EXCEPT ![c] = "over"]
  /\ cut' = [cut EXCEPT ![c] = @ \/ back[c] # "over"]
  /\ UNCHANGED <<closing, acceptor, held, target, back, streams>>

\* close(): closed = true; server.close(); pool.shutdownNow().
close ==
  /\ \/ closing = "open" /\ closing' = "flag"
     \/ closing = "flag" /\ closing' = "server"
     \/ closing = "server" /\ closing' = "pool"
  /\ UNCHANGED <<acceptor, held, stage, target, back, streams, cut>>

Thread(c) ==
  ConnectUpstreamFails(c) \/ ConnectUpstream(c) \/ EndPump(c) \/ Finish(c) \/ Copy(c, "answer")
Acceptor == Accept \/ AcceptEnds \/ Execute

Next ==
  \/ Acceptor \/ close
  \/ \E c \in Conns : Connect(c) \/ Thread(c) \/ EndBack(c) \/ \E d \in Dirs : Speak(c, d)
  \/ \E c \in Conns : Copy(c, "query")

Spec == Init /\ [][Next]_vars

-----------------------------------------------------------------------------
(* serve() waits for the other pump before it closes the sockets: unless a    *)
(* timeout, a broken end or a refused upstream cut the connection short, all  *)
(* that pdnsd and the resolver sent, in either order of ending, was carried.  *)
AllIsCarried ==
  \A c \in Conns : stage[c] = "over" /\ ~cut[c] => \A d \in Dirs : copied[c][d] = sent[c][d] /\ eof[c][d]

(* Whatever the ends do, and whenever close() comes, every connection the     *)
(* relay accepted ends, and both its threads with it: neither end can hold a  *)
(* thread of the pool for ever by falling silent.                             *)
ThreadsEnd ==
  \A c \in Conns : stage[c] = "accepted" ~> stage[c] \in {"over", "rejected"} /\ back[c] # "running"
=============================================================================
