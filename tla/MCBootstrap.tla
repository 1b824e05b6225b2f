------------------------------ MODULE MCBootstrap ------------------------------
(* MidenBootstrap for two of the four assets. *)
EXTENDS MidenBootstrap

TwoAssets == <<"eth", "usdc">>
=============================================================================
