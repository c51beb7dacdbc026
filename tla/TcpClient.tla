----------------------------- MODULE TcpClient -----------------------------
(* badvpn/tun2socks/tun2socks.c: one struct tcp_client, between the lwIP     *)
(* connection (pcb) of an app and a SOCKS connection, from                   *)
(* listener_accept_func() to client_dealloc(). The handlers call each other, *)
(* so each is an operator from the client's state to the next, and an action *)
(* applies the outermost one. A callback of lwIP that runs pending jobs      *)
(* before it returns (SYNC_FROMHERE .. SYNC_COMMIT) is left open in `call'   *)
(* until CallReturns.                                                        *)
EXTENDS Integers, Sequences

CONSTANTS
  UpData, DownData,   \* the bytes the app and the far end send
  TCP_WND,            \* receive window of lwIP and size of client->buf
  TCP_SND_BUF,        \* send buffer of lwIP
  SocksRecvBuf        \* CLIENT_SOCKS_RECV_BUF_SIZE

Bytes == {UpData[i] : i \in DOMAIN UpData} \cup {DownData[i] : i \in DOMAIN DownData}

ASSUME DataAssumption == UpData \in Seq(Bytes) /\ DownData \in Seq(Bytes)
ASSUME SizesArePositive == {TCP_WND, TCP_SND_BUF, SocksRecvBuf} \subseteq Nat \ {0}

VARIABLES
  c,         \* the client and its pcb, a record (see Accepted)
  call,      \* the lwIP callback that is executing jobs, or "none"
  ret,       \* what the callback that has just ended returned, or "none"
  upNext,    \* bytes the app has sent
  upGot,     \* bytes written to the SOCKS connection
  downNext,  \* bytes read from it
  downGot,   \* bytes the app has acknowledged
  fin,       \* the app has sent its FIN
  appLost,   \* the app closed or reset, or lwIP gave up on it
  farLost    \* the SOCKS connection failed or was closed, or tun2socks ended

vars == <<c, call, ret, upNext, upGot, downNext, downGot, fin, appLost, farLost>>

Min(a, b) == IF a < b THEN a ELSE b
Drop(q, n) == SubSeq(q, n + 1, Len(q))

\* The state at the end of listener_accept_func(); .wnd and .snd are lwIP's
\* receive window and its queue of unacknowledged bytes, .cb the callbacks
\* registered with the pcb, .socks the phase of the SOCKS connection.
Accepted ==
  [mem |-> "live", pcb |-> "open", cb |-> {"err", "recv"}, wnd |-> TCP_WND, snd |-> <<>>,
   client_closed |-> FALSE, buf |-> <<>>, sending |-> 0,
   socks |-> "connecting", socks_up |-> FALSE, socks_closed |-> FALSE,
   recv_buf |-> <<>>, used |-> -1, sent |-> 0, waiting |-> FALSE, pending |-> 0, receiving |-> FALSE,
   killed |-> FALSE]

Init ==
  /\ c = [Accepted EXCEPT !.mem = "none", !.cb = {}]
  /\ call = "none" /\ ret = "none"
  /\ upNext = 0 /\ upGot = <<>> /\ downNext = 0 /\ downGot = <<>>
  /\ fin = FALSE /\ appLost = FALSE /\ farLost = FALSE
-----------------------------------------------------------------------------
(* The functions of tun2socks.c that take a client.                           *)

client_dealloc(d) == [d EXCEPT !.mem = "freed"]

\* BSocksClient_Free() and what surrounds it in client_free_socks().
FreeSocksObject(d) ==
  [d EXCEPT !.cb = IF d.socks_up /\ ~d.client_closed THEN @ \ {"recv"} ELSE @,
            !.socks = "down", !.socks_closed = TRUE, !.sending = 0, !.receiving = FALSE]

\* client_free_socks() of a client that is closed already comes here from
\* client_handle_freed_client().
client_handle_freed_client(d) ==
  LET e == [d EXCEPT !.killed = TRUE, !.client_closed = TRUE] IN
  IF Len(e.buf) > 0 /\ ~e.socks_closed THEN e
  ELSE client_dealloc(IF e.socks_closed THEN e ELSE FreeSocksObject(e))

client_abort_client_keeping_err(d) ==
  client_handle_freed_client([d EXCEPT !.cb = {"err"}, !.pcb = "gone"])

client_abort_client(d) ==
  client_handle_freed_client([d EXCEPT !.cb = {}, !.pcb = "gone"])

\* tcp_close(), or tcp_abort() if it has no memory for a FIN.
client_free_client(d) ==
  client_handle_freed_client([d EXCEPT !.cb = {}, !.pcb = "gone"])

client_free_socks_waiting(d) ==
  LET e == FreeSocksObject(d) IN
  IF e.socks_up /\ (e.used >= 0 \/ e.pending > 0) THEN e
  ELSE IF e.client_closed THEN client_dealloc(e) ELSE client_free_client(e)

client_free_socks_at_once(d) ==
  LET e == FreeSocksObject(d)
  IN IF e.client_closed THEN client_dealloc(e) ELSE client_free_client(e)

client_free_socks(d) ==
  LET e == FreeSocksObject(d) IN
  IF e.socks_up /\ (e.used >= 0 \/ e.pending > 0) /\ ~e.client_closed THEN e
  ELSE IF e.client_closed THEN client_dealloc(e) ELSE client_free_client(e)

client_murder(d) ==
  LET e == IF d.client_closed THEN d
           ELSE [d EXCEPT !.cb = {}, !.pcb = "gone", !.killed = TRUE, !.client_closed = TRUE]
  IN client_dealloc(IF e.socks_closed THEN e ELSE FreeSocksObject(e))

client_send_to_socks(d) == [d EXCEPT !.sending = Len(d.buf)]

client_socks_recv_initiate(d) == [d EXCEPT !.receiving = TRUE]

\* client_socks_recv_send_out(): lwIP takes what its send buffer has room for,
\* or nothing (ERR_MEM), and tcp_output() may fail. It returned -1 exactly when
\* the result has client_closed.
ChunkFromStart(d, n) == SubSeq(d.recv_buf, 1, n)

Room(d) == Min(d.used - d.sent, TCP_SND_BUF - Len(d.snd))

Chunk(d, n) == SubSeq(d.recv_buf, d.sent + 1, d.sent + n)

client_socks_recv_send_out(d, n, fails) ==
  LET e == [d EXCEPT !.sent = @ + n, !.pending = @ + n,
                     !.snd = @ \o Chunk(d, n)] IN
  IF fails \/ (e.sent < e.used /\ e.pending = 0) THEN client_abort_client(e)
  ELSE IF e.sent < e.used THEN [e EXCEPT !.waiting = TRUE]
  ELSE [e EXCEPT !.used = -1]

\* What client_socks_recv_handler_done() and client_sent_func() do next.
ContinueReceivingOnlyIfOpen(d) ==
  IF d.used = -1 /\ ~d.socks_closed /\ d.pending = 0 THEN client_socks_recv_initiate(d) ELSE d

ContinueReceiving(d) ==
  IF d.used = -1 /\ ~d.socks_closed THEN client_socks_recv_initiate(d) ELSE d
-----------------------------------------------------------------------------
(* Callbacks of lwIP. lwIP is external: it passes on data within its window,  *)
(* acknowledgements, a FIN, and a reset or timeout, never while another       *)
(* callback executes.                                                         *)

LwipCalls(which) == c.mem = "live" /\ c.pcb = "open" /\ call = "none" /\ which \in c.cb
Returns(r) == ret' = r /\ call' = "none"
Executes(which) == ret' = "none" /\ call' = which

\* listener_accept_func(); without memory for the client or its SOCKS
\* connection it returns ERR_MEM and lwIP aborts the pcb.
listener_accept_func ==
  /\ c.mem = "none" /\ c.pcb = "open"
  /\ \/ c' = Accepted /\ Executes("accept")
     \/ c' = [c EXCEPT !.pcb = "gone", !.socks = "down"] /\ Returns("MEM")
  /\ UNCHANGED <<upNext, upGot, downNext, downGot, fin, appLost, farLost>>

\* client_recv_func() with data: n bytes, which lwIP has taken off its window.
client_recv_func ==
  /\ LwipCalls("recv") /\ ~fin
  /\ \E n \in 1 .. Min(c.wnd, Len(UpData) - upNext) :
       LET d == [c EXCEPT !.wnd = @ - n,
                          !.buf = @ \o SubSeq(UpData, upNext + 1, upNext + n)]
       IN /\ upNext' = upNext + n
          /\ IF n > TCP_WND - Len(c.buf) THEN c' = [c EXCEPT !.wnd = @ - n] /\ Returns("MEM")
             ELSE IF c.buf = <<>> /\ c.socks_up
             THEN c' = client_send_to_socks(d) /\ Executes("recv")
             ELSE c' = d /\ Returns("OK")
  /\ UNCHANGED <<upGot, downNext, downGot, fin, appLost, farLost>>

\* Without a receive callback lwIP drops the data and opens its window again.
tcp_recv_null ==
  /\ c.mem = "live" /\ c.pcb = "open" /\ call = "none" /\ "recv" \notin c.cb /\ ~fin
  /\ \E n \in 1 .. Min(c.wnd, Len(UpData) - upNext) : upNext' = upNext + n
  /\ ret' = "none"
  /\ UNCHANGED <<c, call, upGot, downNext, downGot, fin, appLost, farLost>>

\* client_recv_func() without data; without callback nobody hears of the FIN.
client_recv_func_closed ==
  /\ c.mem = "live" /\ c.pcb = "open" /\ call = "none" /\ ~fin
  /\ fin' = TRUE
  /\ IF "recv" \in c.cb
     THEN /\ c' = client_free_client(c)
          /\ appLost' = TRUE /\ Returns("ABRT")
     ELSE ret' = "none" /\ UNCHANGED <<c, call, appLost>>
  /\ UNCHANGED <<upNext, upGot, downNext, downGot, farLost>>

\* client_err_func(): lwIP frees the pcb when it was reset or timed out.
client_err_func ==
  /\ LwipCalls("err")
  /\ c' = client_handle_freed_client([c EXCEPT !.pcb = "gone", !.cb = {}])
  /\ appLost' = TRUE /\ ret' = "none"
  /\ UNCHANGED <<call, upNext, upGot, downNext, downGot, fin, farLost>>

\* client_sent_func(): n more bytes are acknowledged.
client_sent_func ==
  /\ LwipCalls("sent")
  /\ \E n \in 1 .. Len(c.snd) :
       LET d == [c EXCEPT !.snd = Drop(@, n), !.pending = @ - n]
       IN /\ downGot' = downGot \o SubSeq(c.snd, 1, n)
          /\ IF d.used > 0
             THEN \E k \in {0, Room(d)}, fails \in BOOLEAN :
                    LET e == client_socks_recv_send_out([d EXCEPT !.waiting = FALSE], k, fails)
                    IN IF e.client_closed
                       THEN c' = e /\ Returns("ABRT") /\ appLost' = TRUE
                       ELSE LET f == ContinueReceiving(e)
                            IN /\ c' = f /\ UNCHANGED appLost
                               /\ IF f.receiving THEN Executes("sent") ELSE Returns("OK")
             ELSE /\ UNCHANGED appLost
                  /\ IF d.socks_closed /\ d.pending = 0
                     THEN c' = client_free_client(d) /\ Returns("ABRT")
                     ELSE c' = d /\ Returns("OK")
  /\ UNCHANGED <<upNext, upGot, downNext, fin, farLost>>

\* DEAD_LEAVE2(client->dead_client) and the return that follows it.
CallReturnsAlways ==
  /\ call # "none" /\ Returns("OK")
  /\ UNCHANGED <<c, upNext, upGot, downNext, downGot, fin, appLost, farLost>>

CallReturns ==
  /\ call # "none"
  /\ Returns(IF c.killed THEN "ABRT" ELSE "OK")
  /\ UNCHANGED <<c, upNext, upGot, downNext, downGot, fin, appLost, farLost>>
-----------------------------------------------------------------------------
(* Handlers of the SOCKS connection, jobs of the reactor; while a callback    *)
(* executes jobs, only those that it caused.                                  *)

SocksCalls(calls) == c.mem = "live" /\ c.socks # "down" /\ call \in calls \cup {"none"}

\* client_socks_handler(UP)
SocksUp ==
  /\ SocksCalls({}) /\ c.socks = "connecting"
  /\ LET d == [c EXCEPT !.socks = "up", !.socks_up = TRUE,
                         !.cb = IF c.client_closed THEN @ ELSE @ \cup {"sent"}]
         e == IF d.buf # <<>> THEN client_send_to_socks(d) ELSE d
     IN c' = IF e.client_closed THEN e ELSE client_socks_recv_initiate(e)
  /\ ret' = "none"
  /\ UNCHANGED <<call, upNext, upGot, downNext, downGot, fin, appLost, farLost>>

\* client_socks_handler(ERROR) and (ERROR_CLOSED)
SocksDown ==
  /\ SocksCalls({"accept", "recv", "sent"})
  /\ c' = client_free_socks(c)
  /\ farLost' = TRUE /\ ret' = "none"
  /\ UNCHANGED <<call, upNext, upGot, downNext, downGot, fin, appLost>>

RecvedNot(d, n) == d

\* tcp_recved() for bytes that have left the buffer, if the pcb is there.
Recved(d, n) == [d EXCEPT !.wnd = IF d.client_closed THEN @ ELSE @ + n]

\* client_socks_send_handler_done()
client_socks_send_handler_done ==
  /\ SocksCalls({"recv"}) /\ c.sending > 0
  /\ \E n \in 1 .. c.sending :
       LET d == Recved([c EXCEPT !.buf = Drop(@, n), !.sending = 0], n)
       IN /\ upGot' = upGot \o SubSeq(c.buf, 1, n)
          /\ c' = IF d.buf # <<>> THEN client_send_to_socks(d)
                  ELSE IF d.client_closed THEN client_free_socks(d) ELSE d
  /\ ret' = "none"
  /\ UNCHANGED <<call, upNext, downNext, downGot, fin, appLost, farLost>>

\* client_socks_recv_handler_done()
client_socks_recv_handler_done ==
  /\ SocksCalls({"sent"}) /\ c.receiving
  /\ \E n \in 1 .. Min(SocksRecvBuf, Len(DownData) - downNext) :
       LET d == [c EXCEPT !.receiving = FALSE, !.recv_buf = SubSeq(DownData, downNext + 1, downNext + n),
                          !.used = n, !.sent = 0, !.waiting = FALSE]
       IN /\ downNext' = downNext + n
          /\ IF c.client_closed THEN c' = [c EXCEPT !.receiving = FALSE] /\ UNCHANGED appLost
             ELSE \E k \in {0, Room(d)}, fails \in BOOLEAN :
                    LET e == client_socks_recv_send_out(d, k, fails)
                    IN /\ c' = IF e.client_closed THEN e ELSE ContinueReceiving(e)
                       /\ appLost' = (appLost \/ e.client_closed)
  /\ ret' = "none"
  /\ UNCHANGED <<call, upNext, upGot, downGot, fin, farLost>>

\* main() after the event loop: client_murder() of every client.
Murder ==
  /\ c.mem = "live" /\ call = "none"
  /\ c' = client_murder(c)
  /\ farLost' = TRUE /\ appLost' = TRUE /\ ret' = "none"
  /\ UNCHANGED <<call, upNext, upGot, downNext, downGot, fin>>

Lwip ==
  \/ listener_accept_func \/ client_recv_func \/ tcp_recv_null \/ client_recv_func_closed
  \/ client_err_func \/ client_sent_func \/ CallReturns

Next ==
  \/ Lwip \/ SocksUp \/ SocksDown \/ client_socks_send_handler_done
  \/ client_socks_recv_handler_done \/ Murder

Spec == Init /\ [][Next]_vars
-----------------------------------------------------------------------------
(* Once client_dealloc() has freed the client, nothing can call into it: no   *)
(* callback is left with the pcb, the SOCKS object is freed, and no send or   *)
(* receive of it is under way. Neither can lwIP call a closed client.         *)
NothingCallsFreedMemory ==
  /\ c.mem = "freed" => c.socks = "down" /\ c.sending = 0 /\ ~c.receiving
  /\ c.pcb = "gone" => c.cb = {}
  /\ c.mem = "live" => (c.pcb = "gone") = c.client_closed

(* A callback of client_recv_func() or client_sent_func() that has given its  *)
(* pcb away, even through jobs run on its behalf, tells lwIP so by ERR_ABRT;  *)
(* lwIP goes on using the pcb after any other answer. And only then: after    *)
(* ERR_ABRT lwIP drops what it has and forgets the pcb.                       *)
ReturnTellsLwip ==
  /\ ret = "OK" => c.pcb = "open" /\ c.mem = "live"
  /\ ret = "ABRT" => c.pcb = "gone"

(* "no buffer for data !?!" is impossible: the window lwIP still offers and   *)
(* the bytes in client->buf add up to the size of the buffer, whatever        *)
(* tcp_recved() calls were skipped or made late.                              *)
WindowIsBuffer == c.pcb = "open" => c.wnd + Len(c.buf) = TCP_WND

(* While both sides are up neither direction stalls: unsent bytes are being   *)
(* sent or wait for lwIP to acknowledge some, and an empty receive buffer     *)
(* means a receive is under way.                                              *)
NeverStalls ==
  c.mem = "live" =>
    /\ c.socks = "up" /\ c.buf # <<>> => c.sending > 0
    /\ c.socks = "up" /\ ~c.client_closed /\ c.used = -1 => c.receiving
    /\ c.used > 0 /\ ~c.client_closed
         => c.waiting /\ c.sent < c.used /\ c.pending > 0 /\ c.pending = Len(c.snd) /\ "sent" \in c.cb

(* A client goes only after every byte that lwIP has accepted from the app is *)
(* on the SOCKS connection, as long as that holds, even when the app closed   *)
(* or reset before SOCKS was up; and only after the app has acknowledged      *)
(* every byte that was read from SOCKS, as long as the app holds, even when   *)
(* the far end closed first.                                                  *)
TakenIsDelivered ==
  c.mem = "freed" =>
    /\ farLost \/ upGot = SubSeq(UpData, 1, upNext)
    /\ appLost \/ downGot = SubSeq(DownData, 1, downNext)

(* The client implements two FIFO pipes.                                      *)
Unsent == IF c.used > 0 THEN Drop(c.recv_buf, c.sent) ELSE <<>>
Pipes == INSTANCE RelayPipes WITH
  up <- IF c.socks_closed THEN <<>> ELSE c.buf,
  down <- IF c.client_closed THEN <<>> ELSE c.snd \o Unsent,
  appOpen <- ~c.client_closed, farOpen <- ~c.socks_closed
ImplementsPipes == Pipes!PipeSpec

(* A client that lost either side is freed in the end.                        *)
EndsWhenOneSideEnds == (c.client_closed \/ c.socks_closed) ~> (c.mem # "live")
=============================================================================
