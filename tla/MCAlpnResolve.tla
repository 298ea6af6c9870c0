---------------------------- MODULE MCAlpnResolve ----------------------------
(* Definitions for the TLC instances of AlpnResolve: a host of each kind. *)
EXTENDS AlpnResolve, TLC

CONSTANTS n1, n2, n3

OneOfEach == (n1 :> "h2") @@ (n2 :> "http/1.1") @@ (n3 :> "false")
=============================================================================
