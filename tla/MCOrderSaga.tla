---------------------------- MODULE MCOrderSaga -----------------------------
(* Small instances of OrderSaga for TLC.                                   *)
EXTENDS OrderSaga, TLC

Clients == Permutations(Client)
=============================================================================
