-------------------------- MODULE MCWebviewTransport --------------------------
(* WebviewTransport for TLC: two panels.                                   *)
EXTENDS WebviewTransport
=============================================================================
