----------------------------- MODULE MCSession -----------------------------
(* TunnelsViewModel driving SocksVpnService, for one or two sessions. *)
EXTENDS TunnelsViewModel
=============================================================================
