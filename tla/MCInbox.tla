------------------------------ MODULE MCInbox -------------------------------
(* Small instances of Inbox for TLC.                                       *)
EXTENDS Inbox, TLC

CONSTANTS e1, e2

InOrder == (e1 :> 1 @@ e2 :> 2)
=============================================================================
