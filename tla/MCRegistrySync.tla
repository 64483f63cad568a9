---------------------------- MODULE MCRegistrySync ----------------------------
(* RegistrySync with one well configured hosted app and one that mints     *)
(* tokens for another audience.                                            *)
EXTENDS RegistrySync, TLC

CONSTANTS good, lost

MCTokenOf == (good :> "platform") @@ (lost :> "wrong_audience")
=============================================================================
