-------------------------- MODULE EnrollmentHistory ---------------------------
(***************************************************************************)
(* BiometricEnrollment with one more bit: whether a failure or a crash has *)
(* happened so far.  What the requests leave behind is judged by it.       *)
(***************************************************************************)
EXTENDS EnrollmentReconciliation

VARIABLE disturbed  \* history: a Failure step has been taken

historyVars == <<vars, disturbed>>

HistoryInit == Init /\ disturbed = FALSE

HistoryNext ==
    \E r \in Requests :
        \/ (Start(r) \/ UploadStep(r) \/ RemovalStep(r)) /\ UNCHANGED disturbed
        \/ Failure(r) /\ disturbed' = TRUE

HistorySpec == HistoryInit /\ [][HistoryNext]_historyVars

\* Without failures the requests leave nothing to report: every refused or
\* overtaken upload has cleaned up its own row and file.
CleanWhenQuiet == Quiet /\ ~disturbed => Findings(Keys) = {}
===============================================================================
