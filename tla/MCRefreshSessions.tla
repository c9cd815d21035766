-------------------------- MODULE MCRefreshSessions --------------------------
(***************************************************************************)
(* Instances of RefreshSessions for TLC.                                   *)
(***************************************************************************)
EXTENDS RefreshSessions, TLC

\* Tokens and request slots are interchangeable.
Interchangeable == Permutations(Tokens) \cup Permutations(Requests)
=============================================================================
