----------------------------- MODULE RelayPipes -----------------------------
(* What tun2socks promises for one TCP connection of an app: two first-in    *)
(* first-out pipes between the app and the far end of the SOCKS connection.  *)
(* Bytes are neither reordered, duplicated nor invented. When one end leaves,*)
(* what is on its way to the other end still arrives, and only then is the   *)
(* other end closed; what is on its way to the end that left is dropped.     *)
EXTENDS Naturals, Sequences

CONSTANTS UpData, DownData \* what the app and the far end have to say

VARIABLES
  upNext, up, upGot,        \* bytes sent by the app, in transit, at the far end
  downNext, down, downGot,  \* the same towards the app
  appOpen, farOpen

pipeVars == <<upNext, up, upGot, downNext, down, downGot, appOpen, farOpen>>

PipeInit ==
  /\ upNext = 0 /\ up = <<>> /\ upGot = <<>>
  /\ downNext = 0 /\ down = <<>> /\ downGot = <<>>
  /\ appOpen = TRUE /\ farOpen = TRUE

Drop(q, n) == SubSeq(q, n + 1, Len(q))

AppSends ==
  /\ appOpen
  /\ \E n \in upNext + 1 .. Len(UpData) :
       upNext' = n /\ up' = IF farOpen THEN up \o SubSeq(UpData, upNext + 1, n) ELSE up
  /\ UNCHANGED <<upGot, downNext, down, downGot, appOpen, farOpen>>

FarSends ==
  /\ farOpen
  /\ \E n \in downNext + 1 .. Len(DownData) :
       downNext' = n /\ down' = IF appOpen THEN down \o SubSeq(DownData, downNext + 1, n) ELSE down
  /\ UNCHANGED <<upNext, up, upGot, downGot, appOpen, farOpen>>

FarTakes ==
  /\ farOpen
  /\ \E n \in 1 .. Len(up) : up' = Drop(up, n) /\ upGot' = upGot \o SubSeq(up, 1, n)
  /\ farOpen' \in IF appOpen \/ up' # <<>> THEN {TRUE} ELSE {TRUE, FALSE}
  /\ UNCHANGED <<upNext, downNext, down, downGot, appOpen>>

AppTakes ==
  /\ appOpen
  /\ \E n \in 1 .. Len(down) : down' = Drop(down, n) /\ downGot' = downGot \o SubSeq(down, 1, n)
  /\ appOpen' \in IF farOpen \/ down' # <<>> THEN {TRUE} ELSE {TRUE, FALSE}
  /\ UNCHANGED <<upNext, up, upGot, downNext, farOpen>>

\* The app is gone, maybe at the moment bytes are handed to it or taken by it.
AppLeaves ==
  /\ appOpen /\ appOpen' = FALSE /\ down' = <<>>
  /\ downNext' \in downNext .. Len(DownData)
  /\ \E n \in 0 .. Len(down) : downGot' = downGot \o SubSeq(down, 1, n)
  /\ farOpen' \in IF farOpen /\ up # <<>> THEN {TRUE} ELSE {farOpen, FALSE}
  /\ UNCHANGED <<upNext, up, upGot>>

\* The far end is gone.
FarLeaves ==
  /\ farOpen /\ farOpen' = FALSE /\ up' = <<>>
  /\ appOpen' \in IF appOpen /\ down # <<>> THEN {TRUE} ELSE {appOpen, FALSE}
  /\ UNCHANGED <<upNext, upGot, downNext, down, downGot>>

\* tun2socks itself ends.
Ends ==
  /\ appOpen' = FALSE /\ farOpen' = FALSE /\ up' = <<>> /\ down' = <<>>
  /\ UNCHANGED <<upNext, upGot, downNext, downGot>>

PipeNext == AppSends \/ FarSends \/ FarTakes \/ AppTakes \/ AppLeaves \/ FarLeaves \/ Ends

PipeSpec == PipeInit /\ [][PipeNext]_pipeVars
=============================================================================
