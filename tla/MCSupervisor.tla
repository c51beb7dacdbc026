---------------------------- MODULE MCSupervisor ----------------------------
(* NativeProcessSupervisor with two calling threads. *)
EXTENDS NativeProcessSupervisor
=============================================================================
