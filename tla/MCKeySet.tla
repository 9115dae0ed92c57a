------------------------------ MODULE MCKeySet ------------------------------
(***************************************************************************)
(* KeySet for TLC.                                                         *)
(***************************************************************************)
EXTENDS KeySet

CONSTANTS k1, k2, q1, q2

\* Genuine tokens of both keys, one that names no key.
MCTokens ==
    {[kid |-> k1, signer |-> k1], [kid |-> k2, signer |-> k2],
     [kid |-> NoKid, signer |-> k2]}
=============================================================================
