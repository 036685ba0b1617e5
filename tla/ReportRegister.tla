--------------------------- MODULE ReportRegister ---------------------------
(***************************************************************************)
(* What a saved report promises its callers: one document that changes in  *)
(* single steps.  JsonStore (src/app/storage/json_store.py) implements it  *)
(* with a primary file, a backup, a terminal sidecar and two caches; the   *)
(* module ReportStore models those files and is shown to implement this.   *)
(*                                                                         *)
(* A document is abstracted to its revision, the amount of factual         *)
(* evidence it holds (devices, services, findings, observations), its job  *)
(* status, and the length of the status text that goes with it (warnings,  *)
(* analysis_error, analysis_progress).                                     *)
(***************************************************************************)
EXTENDS Naturals

CONSTANTS
    Terminal,    \* the terminal job states: completed, partial, failed, cancelled
    Running,     \* the non-terminal job states, taken as one
    NoDoc,       \* no report has been created
    Limit,       \* max_document_bytes, in the same unit as evidence and remark
    MaxRemark    \* bound on the length of the status text


VARIABLE doc     \* the document a reader is entitled to see

Status == Terminal \cup {Running}

Doc == [rev : Nat \ {0}, evidence : Nat, status : Status, remark : 0 .. MaxRemark]

\* A document is published only when its encoding is within the limit.
Fits(d) == d.evidence + d.remark <= Limit

Revised(d, e, s, r) == [rev |-> d.rev + 1, evidence |-> e, status |-> s, remark |-> r]

\* The mutations callers pass to update_scan: a checkpoint adds evidence and
\* leaves the status alone; reopening a report for analysis or refreshing its
\* guidance leaves the evidence alone.
Checkpointed(d) == Revised(d, d.evidence + 1, d.status, d.remark)

Resumed(d) == Revised(d, d.evidence, Running, 0)

\* The mutations callers pass to finish_scan end the job and keep the evidence.
Finished(d, s, r) == Revised(d, d.evidence, s, r)

-----------------------------------------------------------------------------

Init == doc = NoDoc

Create ==
    /\ doc = NoDoc
    /\ doc' = [rev |-> 1, evidence |-> 0, status |-> Running, remark |-> 0]

Update ==
    /\ doc # NoDoc
    /\ doc' \in {Checkpointed(doc), Resumed(doc)}
    /\ Fits(doc')

Finish ==
    /\ doc # NoDoc
    /\ \E s \in Terminal, r \in 0 .. MaxRemark :
          /\ doc' = Finished(doc, s, r)
          /\ Fits(doc')

\* When the finished document does not fit, the status is still recorded: the
\* evidence and the revision stay as they were.
FinishInPlace ==
    /\ doc # NoDoc
    /\ \E s \in Terminal, r \in 0 .. MaxRemark :
          /\ ~ Fits(Finished(doc, s, r))
          /\ doc' = [rev |-> doc.rev, evidence |-> doc.evidence, status |-> s, remark |-> r]

Next == Create \/ Update \/ Finish \/ FinishInPlace

Spec == Init /\ [][Next]_doc

=============================================================================
