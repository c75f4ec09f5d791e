--------------------------- MODULE MCModelDownload ---------------------------
(***************************************************************************)
(* A small instance of ModelDownload for TLC.                              *)
(***************************************************************************)
EXTENDS ModelDownload

CONSTANTS u1, u2, r1, r2

OneUser == {u1}
TwoUsers == {u1, u2}
TwoSlots == {r1, r2}
=============================================================================
