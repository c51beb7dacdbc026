------------------------------ MODULE MCRelay ------------------------------
(* One connection: four bytes up and four down through buffers of two, to   *)
(* a SOCKS server with and without password.                                  *)
EXTENDS RelayedConnection

Up4 == <<"u1", "u2", "u3", "u4">>
Down4 == <<"d1", "d2", "d3", "d4">>
=============================================================================
