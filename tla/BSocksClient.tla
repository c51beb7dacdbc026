---------------------------- MODULE BSocksClient ----------------------------
(* badvpn/socksclient/BSocksClient.c: the SOCKS5 handshake over one          *)
(* non-blocking connection, from BSocksClient_Init() to BSocksClient_Free(). *)
(* Every handler is one reactor job, so one action. Bytes are model values:  *)
(* of a message only the fields the handlers test are kept, and an address   *)
(* is AddrLen bytes long. The user of the object frees it inside the handler *)
(* that reports an error, as client_free_socks() and free_socks() do, and    *)
(* may free it at any other time.                                            *)
EXTENDS Integers, Sequences

CONSTANTS
  AuthInfo,   \* offered methods, a subset of {"none", "password"}
  Data        \* the payload, a sequence of bytes the far end sends after its reply

VARIABLES
  state,      \* o->state
  live,       \* how often each resource is allocated: connector, con, control, up, buffer
  buffer,     \* o->buffer as far as it was received into
  recv_total, \* bytes the handler waits for; 0 when no receive is under way
  sending,    \* the packet handed to send_if
  stream,     \* bytes that arrived from the server and were not read
  server,     \* what the server does next
  sent,       \* how much of Data the far end has sent
  delivered,  \* what the user has received
  freed       \* BSocksClient_Free() was called

vars == <<state, live, buffer, recv_total, sending, stream, server, sent, delivered, freed>>

States == {"CONNECTING", "SENDING_HELLO", "SENT_HELLO", "SENDING_PASSWORD",
           "SENT_PASSWORD", "SENDING_REQUEST", "SENT_REQUEST",
           "RECEIVED_REPLY_HEADER", "UP"}
Resources == {"connector", "con", "control", "up", "buffer"}
None == "none"

\* Mutant: every address is an IPv4 one.
AddrLenIPv4Only == [ip4 |-> 1, ip6 |-> 1]

\* Length of the address that follows a reply header, in the model's bytes.
AddrLen == [ip4 |-> 1, ip6 |-> 2]

Alloc(l, rs) == [r \in Resources |-> IF r \in rs THEN l[r] + 1 ELSE l[r]]
Release(l, rs) == [r \in Resources |-> IF r \in rs THEN l[r] - 1 ELSE l[r]]
ReserveBuffer(l) == [l EXCEPT !["buffer"] = 1]

Init ==
  /\ state = "CONNECTING"
  /\ live = Alloc([r \in Resources |-> 0], {"connector"})
  /\ buffer = <<>> /\ recv_total = 0 /\ sending = None
  /\ stream = <<>> /\ server = "idle" /\ sent = 0 /\ delivered = <<>>
  /\ freed = FALSE

\* BSocksClient_Free(), with what the state says is allocated in l.
Freed(l) ==
  Release(l, {"connector"}
             \cup (IF state = "CONNECTING" THEN {} ELSE {"con", IF state = "UP" THEN "up" ELSE "control"})
             \cup (IF l["buffer"] = 1 THEN {"buffer"} ELSE {}))

FreeWith(l) ==
  /\ live' = Freed(l)
  /\ freed' = TRUE /\ sending' = None /\ recv_total' = 0
  /\ UNCHANGED <<state, buffer, server, sent, delivered>>

Free == ~freed /\ FreeWith(live) /\ UNCHANGED stream

\* report_error(): the handler of the user frees the object.
ReportError == FreeWith(live)

Send(msg, s, l) ==
  /\ sending' = msg /\ state' = s /\ live' = l
  /\ buffer' = <<>> /\ recv_total' = 0
  /\ UNCHANGED <<server, sent, delivered, freed>>

StartReceive(n, s, l) ==
  /\ buffer' = <<>> /\ recv_total' = n /\ state' = s /\ live' = l
  /\ sending' = None

\* connector_handler(): the connection is refused, or cannot be set up, or the
\* buffer for the hello cannot be allocated (fail1 frees what it set up).
ConnectorFails ==
  /\ ~freed /\ state = "CONNECTING"
  /\ \/ ReportError
     \/ FreeWith(Release(Alloc(live, {"con", "control"}), {"con", "control"}))
  /\ UNCHANGED stream

ConnectorHandler ==
  /\ ~freed /\ state = "CONNECTING"
  /\ Send("hello", "SENDING_HELLO", ReserveBuffer(Alloc(live, {"con", "control"})))
  /\ UNCHANGED stream

\* Mutant: the reply is not waited for.
SendHandlerDoneSilent ==
  /\ ~freed /\ sending # None
  /\ server' = sending /\ sending' = None
  /\ UNCHANGED <<state, live, buffer, recv_total, stream, sent, delivered, freed>>

\* connection_handler(): an error, or the end of the stream once all was read.
ConnectionHandler ==
  /\ ~freed /\ state # "CONNECTING"
  /\ ReportError
  /\ UNCHANGED stream

\* send_handler_done(): the whole packet is in the socket, so the server will see it.
SendHandlerDone ==
  /\ ~freed /\ sending # None
  /\ \/ ReportError
     \/ /\ server' = sending
        /\ CASE state = "SENDING_HELLO" -> StartReceive(2, "SENT_HELLO", live)
             [] state = "SENDING_PASSWORD" -> StartReceive(2, "SENT_PASSWORD", live)
             [] state = "SENDING_REQUEST" -> StartReceive(3, "SENT_REQUEST", live)
        /\ UNCHANGED <<sent, delivered, freed>>
  /\ UNCHANGED stream

\* auth_finished(); here and for the password the buffer may not be had.
AuthFinished == Send("request", "SENDING_REQUEST", live) \/ ReportError

ReceivedHello(b) ==
  IF b[1] # "v5" \/ b[2] \notin AuthInfo THEN ReportError
  ELSE IF b[2] = "none" THEN AuthFinished
  ELSE Send("password", "SENDING_PASSWORD", live) \/ ReportError

ReceivedPasswordReply(b) ==
  IF b[1] # "v1" \/ b[2] # "ok" THEN ReportError ELSE AuthFinished

ReceivedReplyHeader(b) ==
  IF b[1] # "v5" \/ b[2] # "ok" \/ b[3] \notin DOMAIN AddrLen THEN ReportError
  ELSE /\ StartReceive(AddrLen[b[3]], "RECEIVED_REPLY_HEADER", live)
       /\ UNCHANGED <<server, sent, delivered, freed>>

\* Mutant: the control I/O stays.
ReceivedReplyKeepingIo ==
  /\ state' = "UP"
  /\ live' = Alloc(Release(live, {"buffer"}), {"up"})
  /\ buffer' = <<>> /\ recv_total' = 0
  /\ UNCHANGED <<sending, server, sent, delivered, freed>>

\* The rest of the reply: the control I/O makes way for that of the user, who
\* hears BSOCKSCLIENT_EVENT_UP.
ReceivedReply ==
  /\ state' = "UP"
  /\ live' = Alloc(Release(live, {"control", "buffer"}), {"up"})
  /\ buffer' = <<>> /\ recv_total' = 0
  /\ UNCHANGED <<sending, server, sent, delivered, freed>>

\* recv_handler_done(): n more bytes; anything short of recv_total is waited for.
Received(b) ==
  IF Len(b) < recv_total
  THEN buffer' = b /\ UNCHANGED <<state, live, recv_total, sending, server, sent, delivered, freed>>
  ELSE CASE state = "SENT_HELLO" -> ReceivedHello(b)
         [] state = "SENT_PASSWORD" -> ReceivedPasswordReply(b)
         [] state = "SENT_REQUEST" -> ReceivedReplyHeader(b)
         [] state = "RECEIVED_REPLY_HEADER" -> ReceivedReply

RecvHandlerDone ==
  /\ ~freed /\ recv_total > 0
  /\ \E n \in 1 .. Len(stream) :
       /\ n <= recv_total - Len(buffer)
       /\ Received(buffer \o SubSeq(stream, 1, n))
       /\ stream' = SubSeq(stream, n + 1, Len(stream))

Handler ==
  ConnectorHandler \/ ConnectorFails \/ ConnectionHandler \/ SendHandlerDone \/ RecvHandlerDone

\* The user reads from the interface of BSocksClient_GetRecvInterface(), and may
\* free the object when it is told what was read.
UserReceives ==
  /\ ~freed /\ state = "UP"
  /\ \E n \in 1 .. Len(stream) :
       /\ stream' = SubSeq(stream, n + 1, Len(stream))
       /\ delivered' = delivered \o SubSeq(stream, 1, n)
  /\ \/ live' = live /\ freed' = FALSE
     \/ live' = Freed(live) /\ freed' = TRUE
  /\ UNCHANGED <<state, buffer, recv_total, sending, server, sent>>
-----------------------------------------------------------------------------
(* The server, external: it answers each message, favourably or not, sends   *)
(* payload after a favourable reply, and may fall silent.                    *)

Replies(msg) ==
  CASE msg = "hello" -> {"v5", "bad"} \X {"none", "password", "refused"}
    [] msg = "password" -> {"v1", "bad"} \X {"ok", "no"}
    [] msg = "request" -> {<<"v5", "ok", "ip4", "a">>, <<"v5", "ok", "ip6", "a", "a">>,
                           <<"v5", "no", "ip4", "a">>, <<"v5", "ok", "name", "a">>,
                           <<"bad", "ok", "ip4", "a">>}
    [] OTHER -> {}

Answer ==
  /\ \E r \in Replies(server) :
       /\ stream' = stream \o r
       /\ server' = IF server = "request" /\ r[1] = "v5" /\ r[2] = "ok" THEN "payload" ELSE "idle"
  /\ UNCHANGED <<state, live, buffer, recv_total, sending, sent, delivered, freed>>

Payload ==
  /\ server = "payload" /\ sent < Len(Data)
  /\ stream' = Append(stream, Data[sent + 1]) /\ sent' = sent + 1
  /\ UNCHANGED <<state, live, buffer, recv_total, sending, server, delivered, freed>>

Next == Handler \/ UserReceives \/ Free \/ Answer \/ Payload

Spec == Init /\ [][Next]_vars
-----------------------------------------------------------------------------
(* Whatever the state in which the object is freed, by its user or after an  *)
(* error in any handler, BSocksClient_Free() releases each resource exactly  *)
(* once: the connection, its control or user I/O and the message buffer.     *)
ResourcesBalanced ==
  /\ \A r \in Resources : live[r] \in {0, 1}
  /\ freed => \A r \in Resources : live[r] = 0

(* BSocksClient keeps the promise its users build on: up at most once, never *)
(* again after it went down, payload delivered from its first byte and only  *)
(* while up: however the server's bytes are split, recv_handler_done() reads *)
(* the reply to its last byte and no further.                                *)
Promise == INSTANCE SocksConnection WITH
  phase <- IF freed THEN "down" ELSE IF state = "UP" THEN "up" ELSE "connecting"
Implements == Promise!AbsSpec
=============================================================================
