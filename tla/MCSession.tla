----------------------------- MODULE MCSession -----------------------------
(***************************************************************************)
(* A small instance of Session for TLC.                                    *)
(***************************************************************************)
EXTENDS Session

CONSTANTS r1, r2, r3, a1, a2

MCRequests == {r1, r2}
MCAccounts == {a1, a2}
=============================================================================
