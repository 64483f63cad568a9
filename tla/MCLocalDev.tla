------------------------------ MODULE MCLocalDev ------------------------------
(* LocalDev with the Host, one hosted app and Caddy. *)
EXTENDS LocalDev

MCSelected == <<"calendar">>
=============================================================================
