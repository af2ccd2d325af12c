------------------------------ MODULE MCOutbox ------------------------------
(* Small instances of Outbox for TLC.                                      *)
EXTENDS OutboxInv, TLC

CONSTANTS w1, w2, e1, e2, k1, k2

\* Two events of one order: a duplicated order.created.
DuplicateKeyOf == (e1 :> k1 @@ e2 :> k1)
DuplicateKind  == (k1 :> "order.created")

\* Two events of different keys.
DistinctKeyOf == (e1 :> k1 @@ e2 :> k2)
MixedKind     == (k1 :> "order.created" @@ k2 :> "fact")
UnknownKind   == (k1 :> "order.created" @@ k2 :> "unknown")

InOrder == (e1 :> 1 @@ e2 :> 2)

Mishaps(crash, stop, fault, slow, manual) ==
  [h \in Mishap |-> CASE h = "crash"  -> crash
                      [] h = "stop"   -> stop
                      [] h = "fault"  -> fault
                      [] h = "slow"   -> slow
                      [] h = "manual" -> manual]

Takeovers   == Mishaps(1, 0, 0, 1, 1)
Faults      == Mishaps(0, 1, 2, 1, 0)
Recoverable == Mishaps(1, 0, 1, 0, 0)
OneCrash    == Mishaps(1, 0, 0, 0, 0)

Workers == Permutations(Worker)
=============================================================================
