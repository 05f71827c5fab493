---------------------------- MODULE MCDraftContent ----------------------------
(* Small instances of DraftContent for TLC. *)
EXTENDS DraftContent, TLC

\* Files are interchangeable, and so are the requests.
Symmetric == Permutations(Files) \cup Permutations(Requests)
=============================================================================
