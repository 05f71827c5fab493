---------------------------- MODULE MCOaSubmission ----------------------------
(* Small instances of OaSubmission for TLC. *)
EXTENDS OaSubmission, TLC

\* Worker processes are interchangeable.
WorkerSymmetry == Permutations(Workers)
=============================================================================
