------------------------- MODULE MCSessionFiles -------------------------
(* A small instance of SessionFiles for TLC. *)
EXTENDS SessionFiles, TLC

CONSTANTS s1, s2, u1, d1, l1

\* A diagnosis and a logout in one session, an upload in either.
OneElsewhere == (u1 :> {s1, s2}) @@ (d1 :> {s1}) @@ (l1 :> {s1})
=============================================================================
