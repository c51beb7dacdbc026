-------------------------- MODULE PacketChecksums ---------------------------
(* The checksums tun2socks verifies and writes: udp_checksum() and           *)
(* ipv4_checksum() of badvpn/misc, and inet_checksum() of tun2socks.c, as    *)
(* process_device_dns_packet() and reject_device_udp_packet() use them. A    *)
(* UDP datagram of an app, summed by the kernel as RFC 768 says, is read     *)
(* from the TUN device; tun2socks turns it round to the DNS gateway or       *)
(* answers by ICMP, and the kernel verifies what it gets back. Packets are   *)
(* kept as the 16-bit words (in network order) the sums run over.            *)
EXTENDS Integers, Sequences

CONSTANTS
  Destinations,    \* destination addresses, pairs of words
  SrcPorts, DestPorts,
  Bytes,      \* payload bytes
  MaxLen      \* longest payload

W == 65536
AppAddr == <<6682, 6657>>       \* 26.26.26.1, also the address of the DNS gateway
NetifAddr == <<6682, 6658>>     \* 26.26.26.2
DnsGwPort == 8091
UDP == 17

ASSUME PacketsAssumption ==   \* words, bytes, and lengths that an IP header can hold
  /\ \A d \in Destinations : d = <<d[1], d[2]>> /\ d[1] \in 0 .. W - 1 /\ d[2] \in 0 .. W - 1
  /\ SrcPorts \subseteq 0 .. W - 1 /\ DestPorts \subseteq 0 .. W - 1
  /\ Bytes \subseteq 0 .. 255 /\ MaxLen \in 0 .. W - 29

VARIABLES
  packet,   \* the datagram: addresses, ports, payload and UDP checksum
  reply,    \* the ICMP answer: the words of its IP header and of its body
  at        \* "app", "device", "gateway", "icmp"

sumsVars == <<packet, reply, at>>
-----------------------------------------------------------------------------
\* badvpn_read_be16() over a byte range; the last byte of an odd one is the
\* high half of a word.
Words(b) ==
  [i \in 1 .. (Len(b) + 1) \div 2 |->
     256 * b[2 * i - 1] + IF 2 * i <= Len(b) THEN b[2 * i] ELSE 0]

Added(words) ==
  LET t[i \in 0 .. Len(words)] == IF i = 0 THEN 0 ELSE t[i - 1] + words[i]
  IN  t[Len(words)]

udp_checksum_summer(words) == Added(words)

FoldOnce(t) == (t % W) + (t \div W)

\* while (t >> 16) t = (t & 0xFFFF) + (t >> 16), of 32 bits: two rounds at most.
Fold(t) ==
  LET once == IF t < W THEN t ELSE FoldOnce(t)
  IN  IF once < W THEN once ELSE FoldOnce(once)

Not(t) == (W - 1 - t) % W

UdpWords(p) ==
  p.src \o p.dst \o <<UDP, 8 + Len(p.payload)>>
    \o <<p.sport, p.dport, 8 + Len(p.payload), 0>> \o Words(p.payload)

udp_checksum(p) ==
  LET t == Fold(udp_checksum_summer(UdpWords(p)))
  IN  Not(IF t = 0 THEN W - 1 ELSE t)

ipv4_checksum(header) == Not(Fold(udp_checksum_summer(header)))

inet_checksum(words) == Not(Fold(udp_checksum_summer(words)))
-----------------------------------------------------------------------------
\* The kernel's side, by RFC 768 and RFC 1071: sums are taken modulo 2^16 - 1,
\* of which a good packet is a multiple; a checksum that comes to zero is sent
\* as all ones, as zero means that there is none.
Total(words) == Added(words)
UdpTotal(p) ==
  Total(p.src \o p.dst \o <<UDP, p.sport, p.dport>>) + 2 * (8 + Len(p.payload))
    + Total([i \in DOMAIN p.payload |-> p.payload[i] * IF i % 2 = 1 THEN 256 ELSE 1])
KernelSum(p) == W - 1 - (UdpTotal(p) % (W - 1))
Good(words) == Total(words) % (W - 1) = 0
GoodUdp(p) == p.sum = 0 \/ (UdpTotal(p) + p.sum) % (W - 1) = 0

Datagrams ==
  [src : {AppAddr}, dst : Destinations, sport : SrcPorts, dport : DestPorts,
   payload : UNION {[1 .. n -> Bytes] : n \in 0 .. MaxLen}, sum : {0}]

SumsInit ==
  /\ packet \in Datagrams /\ at = "app"
  /\ reply = [ip |-> <<>>, icmp |-> <<>>]

AppSends ==
  /\ at = "app" /\ at' = "device"
  /\ packet' = [packet EXCEPT !.sum = KernelSum(packet)]
  /\ UNCHANGED reply

\* An IP header without options around n bytes of payload.
IpHeader(src, dst, proto, n, check) ==
  <<4 * 4096 + 5 * 256, 20 + n, 0, 0, 64 * 256 + proto, check>> \o src \o dst
WithSum(src, dst, proto, n) == IpHeader(src, dst, proto, n, ipv4_checksum(IpHeader(src, dst, proto, n, 0)))

\* What makes process_device_dns_packet() take a packet of an app.
IsDns(p) == p.sum = udp_checksum(p) /\ p.dport = 53

Turn(p) ==
  LET q == [p EXCEPT !.src = NetifAddr, !.dst = AppAddr, !.dport = DnsGwPort]
  IN  [q EXCEPT !.sum = udp_checksum(q)]

process_device_dns_packet ==
  /\ at = "device" /\ IsDns(packet)
  /\ at' = "gateway" /\ packet' = Turn(packet)
  /\ UNCHANGED reply

\* Quotes the IP header and the UDP header: with options too less than the
\* MTU, so that the answer is always sent.
reject_device_udp_packet ==
  /\ at = "device" /\ ~IsDns(packet)
  /\ LET n     == Len(packet.payload)
         quote == WithSum(packet.src, packet.dst, UDP, 8 + n)
                    \o <<packet.sport, packet.dport, 8 + n, packet.sum>>
         icmp_len  == 8 + 2 * Len(quote)
         icmp  == <<3 * 256 + 3, 0, 0, 0>> \o quote
     IN  reply' = [ip   |-> WithSum(packet.dst, packet.src, 1, icmp_len),
                   icmp |-> [icmp EXCEPT ![2] = inet_checksum(icmp)]]
  /\ at' = "icmp"
  /\ UNCHANGED packet

SumsNext == AppSends \/ process_device_dns_packet \/ reject_device_udp_packet

SumsSpec == SumsInit /\ [][SumsNext]_sumsVars
-----------------------------------------------------------------------------
(* tun2socks and the kernel agree on every checksum, for payloads of odd     *)
(* length, sums that carry more than once and sums that come to zero too: a  *)
(* query that process_device_dns_packet() turned round, and the ICMP answer  *)
(* of reject_device_udp_packet(), pass the kernel's check, and a datagram to *)
(* port 53 that the kernel summed is taken for DNS. One exception: the code  *)
(* compares with udp_checksum(), which is never all ones, and all ones is    *)
(* what a sender writes where the sum comes to zero; that query is refused.  *)
ChecksumsAgree ==
  /\ at = "gateway" => GoodUdp(packet)
  /\ at = "icmp" => Good(reply.ip) /\ Good(reply.icmp)
  /\ at = "icmp" /\ packet.dport = 53 => packet.sum = W - 1
=============================================================================
