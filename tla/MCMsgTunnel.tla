----------------------------- MODULE MCMsgTunnel -----------------------------
(* Instances of MsgTunnel for TLC. *)
EXTENDS MsgTunnel
=============================================================================
