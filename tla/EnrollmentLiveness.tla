-------------------------- MODULE EnrollmentLiveness --------------------------
(***************************************************************************)
(* Deletion with retries.  The environment may inject failures until it    *)
(* becomes calm, at a moment of its choosing; from then on a deletion that *)
(* is called again and again must come to its end, whatever the failures   *)
(* left behind.                                                            *)
(***************************************************************************)
EXTENDS EnrollmentReconciliation

VARIABLE calm  \* the environment has stopped injecting failures

livenessVars == <<vars, calm>>

LiveInit == Init /\ calm = FALSE

BecomeCalm == ~calm /\ calm' = TRUE /\ UNCHANGED vars

Step(r) == (Start(r) \/ UploadStep(r) \/ RemovalStep(r)) /\ UNCHANGED calm

Disturb(r) == ~calm /\ Failure(r) /\ UNCHANGED calm

LiveNext == BecomeCalm \/ \E r \in Requests : Step(r) \/ Disturb(r)

\* The event loop runs every request to its end (weak fairness of its steps);
\* the administrator repeats the deletion, "safe to call again after a partial
\* deletion attempt", so a slot that is idle again and again starts one again
\* and again (strong fairness of StartDelete, which other calls may disable).
Fairness ==
    /\ WF_livenessVars(BecomeCalm)
    /\ \A r \in Requests :
          /\ WF_livenessVars((UploadStep(r) \/ RemovalStep(r)) /\ UNCHANGED calm)
          /\ SF_livenessVars(StartDelete(r) /\ UNCHANGED calm)

LiveSpec == LiveInit /\ [][LiveNext]_livenessVars /\ Fairness

\* From whatever crashes and failures left of the samples, repeated deletions
\* reach DELETED with no live sample: no state of the rows and the zones is one
\* the resumable state machine cannot leave.
DeletionCompletes ==
    enrollment = "deletion_pending" ~> (enrollment = "deleted" /\ ~AnyLive)
=============================================================================
