-------------------------- MODULE SocksConnection --------------------------
(* What a SOCKS connection promises to the code that uses it, for one       *)
(* object from BSocksClient_Init() to BSocksClient_Free(): it comes up at    *)
(* most once, it never comes up again after it went down, and a byte of the  *)
(* peer reaches the user only while it is up, none of them lost or swallowed *)
(* by the handshake.                                                         *)
EXTENDS Naturals, Sequences

CONSTANT Data \* the bytes the far end sends

VARIABLES
  phase,      \* "connecting", "up", "down"
  sent,       \* how many of them it has put on the connection
  delivered   \* the bytes handed to the user

absVars == <<phase, sent, delivered>>

AbsInit == phase = "connecting" /\ sent = 0 /\ delivered = <<>>

ComeUp == phase = "connecting" /\ phase' = "up" /\ UNCHANGED <<sent, delivered>>

GoDown == phase # "down" /\ phase' = "down" /\ UNCHANGED <<sent, delivered>>

FarEndSends == sent < Len(Data) /\ sent' = sent + 1 /\ UNCHANGED <<phase, delivered>>

Deliver ==
  /\ phase = "up"
  /\ \E n \in (Len(delivered) + 1) .. sent : delivered' = SubSeq(Data, 1, n)
  /\ phase' \in {"up", "down"}
  /\ UNCHANGED sent

AbsNext == ComeUp \/ GoDown \/ FarEndSends \/ Deliver

AbsSpec == AbsInit /\ [][AbsNext]_absVars
=============================================================================
