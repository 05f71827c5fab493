-------------------------- MODULE SubmissionPromise --------------------------
(***************************************************************************)
(* What a submission promises the employee who made it, with no workers,   *)
(* leases, upload states or retries: the approval is asked for at most     *)
(* once and only with all its attachments stored; it is reported submitted *)
(* only when it exists, and reported failed only when nothing exists and   *)
(* nothing can come to exist any more.  OaSubmission implements this.      *)
(***************************************************************************)
EXTENDS Naturals

CONSTANTS
  Approvals, Attachments,
  Nobody   \* stands for no approval, so it is not one

VARIABLES
  phase,   \* "working", "review" (a person decides), "submitted" or "failed"
  asked,   \* number of times the approval was asked for
  exist,   \* approvals that exist with this submission's content
  bound,   \* the approval the submission is bound to, or Nobody
  stored   \* attachments that exist in DingTalk

vars == <<phase, asked, exist, bound, stored>>

Init ==
  /\ phase = "working"
  /\ asked = 0
  /\ exist = {}
  /\ bound = Nobody
  /\ stored = {}

Open == phase \in {"working", "review"}

\* Attachments come and go only while no approval can refer to them.
Store(f) ==
  /\ Open
  /\ asked = 0
  /\ f \in Attachments \ stored
  /\ stored' = stored \cup {f}
  /\ UNCHANGED <<phase, asked, exist, bound>>

Remove(f) ==
  /\ Open
  /\ exist = {}
  /\ f \in stored
  /\ stored' = stored \ {f}
  /\ UNCHANGED <<phase, asked, exist, bound>>

Ask ==
  /\ Open
  /\ asked = 0
  /\ stored = Attachments
  /\ asked' = 1
  /\ UNCHANGED <<phase, exist, bound, stored>>

\* The approval that was asked for comes to exist, with all its attachments;
\* from then on the employee can make copies of it.
Appear(i) ==
  /\ asked = 1
  /\ phase # "failed"
  /\ exist = {} => Open
  /\ stored = Attachments
  /\ i \in Approvals \ exist
  /\ exist' = exist \cup {i}
  /\ UNCHANGED <<phase, asked, bound, stored>>

Bind(i) ==
  /\ Open
  /\ bound = Nobody
  /\ i \in exist
  /\ bound' = i
  /\ phase' = "working"
  /\ UNCHANGED <<asked, exist, stored>>

\* Automation gives up for the moment, or a person sends the submission on.
HandOver ==
  /\ Open
  /\ phase' = IF phase = "working" THEN "review" ELSE "working"
  /\ UNCHANGED <<asked, exist, bound, stored>>

Submit ==
  /\ phase = "working"
  /\ bound \in exist
  /\ phase' = "submitted"
  /\ UNCHANGED <<asked, exist, bound, stored>>

Fail ==
  /\ phase = "working"
  /\ exist = {} /\ bound = Nobody /\ stored = {}
  /\ phase' = "failed"
  /\ UNCHANGED <<asked, exist, bound, stored>>

Next ==
  \/ \E f \in Attachments : Store(f) \/ Remove(f)
  \/ Ask
  \/ \E i \in Approvals : Appear(i) \/ Bind(i)
  \/ HandOver \/ Submit \/ Fail

Spec == Init /\ [][Next]_vars
=============================================================================
