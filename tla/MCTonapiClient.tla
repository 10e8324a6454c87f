--------------------------- MODULE MCTonapiClient ---------------------------
(***************************************************************************)
(* Values of TonapiClient's constants for TLC.                             *)
(***************************************************************************)
EXTENDS TonapiClient

CONSTANTS r1, r2, a, b

\* Both accounts, and more than a batch.
Bulks == {<<a, b>>, <<a, b, a>>}

\* All that was asked for, one of them, and nothing.
Held == {<<a, b>>, <<b>>, <<>>}
=============================================================================
