--------------------------- MODULE MCJettonLedger ---------------------------
(***************************************************************************)
(* Values of JettonLedger's constants for TLC.                             *)
(***************************************************************************)
EXTENDS JettonLedger

CONSTANTS a, b

\* A broadcast reaches both wallets, in this order.
Lists == {<<b, a>>}

=============================================================================
