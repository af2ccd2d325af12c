-------------------------- MODULE MCOrderCreation ---------------------------
(* Small instances of OrderCreation for TLC.                               *)
EXTENDS OrderCreation, TLC

CONSTANTS r1, r2, r3, r4, k1, b1, b2

\* Two requests of one client, one with the same key and another body, and
\* one without a key.
RaceKeyFor == (r1 :> k1 @@ r2 :> k1 @@ r3 :> k1 @@ r4 :> NoKey)
RaceBodyOf == (r1 :> b1 @@ r2 :> b1 @@ r3 :> b2 @@ r4 :> b1)
=============================================================================
