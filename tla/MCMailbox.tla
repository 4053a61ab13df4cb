------------------------------ MODULE MCMailbox -----------------------------
(***************************************************************************)
(* Two messages for the recipient and an envelope it cannot open; the      *)
(* latter two are too large for one answer.                                *)
(***************************************************************************)
EXTENDS Mailbox, TLC

CONSTANTS e1, e2, junk

MCEnvelopes == {e1, e2, junk}
MCOpens == {e1, e2}
MCSizeOf == (e1 :> 1) @@ (e2 :> 2) @@ (junk :> 2)
MCSkews == {-2, 0}
=============================================================================
