--------------------------- MODULE DocumentWorkflow ---------------------------
(***************************************************************************)
(* The review workflow of a document and its archival, on top of the       *)
(* durable store: src/src/features/documents/document-workflow-service.ts  *)
(* and document-archive-service.ts.                                        *)
(*                                                                         *)
(* A workflow command runs in one write transaction, so it is one action.  *)
(* Edits race with it: the same transaction that accepts an update         *)
(* invalidates the approval of the content it changes (CommitChangedAppend *)
(* of CollaborationPersistence).                                           *)
(*                                                                         *)
(* The transactions leave jobs behind for the sidecar.  Here a job stays   *)
(* as it was written: how it is delivered, retried and settled is          *)
(* DeliveryOutbox.                                                         *)
(***************************************************************************)
EXTENDS CollaborationPersistence

CONSTANT MaxApprovals  \* bound: approvals explored

ASSUME MaxApprovalsAssumption == MaxApprovals \in Nat

VARIABLES
    notification,  \* collaboration_workflow_notification_jobs of the document
    closure        \* collaboration_room_closure_jobs of the document

jobVars == <<notification, closure>>
workflowVars == <<vars, jobVars>>

NoJob == [generation |-> 0, workflowRevision |-> 0]

Job == [generation : Nat, workflowRevision : Nat]

-----------------------------------------------------------------------------
(* The workflow transaction.                                               *)

ActiveApprovals == {i \in DOMAIN approvals : Active(approvals[i])}

\* Mutant: a readiness change is not a new revision.
UpdateReadiness_SameRevision(expected, next) ==
    /\ document.status = "draft"
    /\ document.readiness = expected
    /\ document' = [document EXCEPT !.readiness = next]

\* Mutant: the compare-and-set forgets eq(documents.status, "draft").
UpdateReadiness_AnyStatus(expected, next) ==
    /\ document.readiness = expected
    /\ document' = [document EXCEPT !.readiness = next, !.revision = @ + 1]

\* The compare-and-set of the documents row.
UpdateReadiness(expected, next) ==
    /\ document.status = "draft"
    /\ document.readiness = expected
    /\ document' = [document EXCEPT !.readiness = next, !.revision = @ + 1]

\* One row per document: a newer command overwrites a job that still waits.
EnqueueNotification ==
    notification' = [generation |-> CurrentGeneration(generations),
                     workflowRevision |-> document'.revision]

\* withInitializedWrite: the snapshot the command is judged against.
CollaborativeWrite ==
    /\ Initialized
    /\ Loadable(generations, HeadSeq(generations))
    /\ UNCHANGED <<storeVars, epochs, proposals, answers, closure>>

\* The reviewer approves the head that they observed.
Approve(observedHeadSeq) ==
    /\ Len(approvals) < MaxApprovals                        \* bound
    /\ CollaborativeWrite
    /\ observedHeadSeq = HeadSeq(generations)
    /\ ActiveApprovals = {}
    /\ UpdateReadiness("ready", "approved")
    /\ approvals' =
         Append(approvals,
                [generation |-> CurrentGeneration(generations),
                 headSeq |-> HeadSeq(generations),
                 content |-> LoadSnapshot(generations, HeadSeq(generations)),
                 invalidatedSeq |-> 0, revoked |-> FALSE])
    /\ EnqueueNotification

\* Mutant: leaving "approved" does not revoke the approval.
Revoke_Nothing == UNCHANGED approvals

\* Leaving "approved" by hand revokes the one approval in force.
Revoke ==
    IF document.readiness = "approved"
    THEN /\ Cardinality(ActiveApprovals) = 1
         /\ approvals' = [i \in DOMAIN approvals |->
                            IF i \in ActiveApprovals
                            THEN [approvals[i] EXCEPT !.revoked = TRUE]
                            ELSE approvals[i]]
    ELSE UNCHANGED approvals

ChangeReadiness(expected, next) ==
    /\ expected # next
    /\ next # "approved"
    /\ CollaborativeWrite
    /\ Revoke
    /\ UpdateReadiness(expected, next)
    /\ EnqueueNotification

\* The same command for a document that never became collaborative: it cannot
\* be approved, and neither approvals nor notifications are touched.
ChangeLegacyReadiness(expected, next) ==
    /\ ~Initialized
    /\ expected # next
    /\ next # "approved"
    /\ UpdateReadiness(expected, next)
    /\ UNCHANGED <<storeVars, epochs, proposals, answers, approvals, jobVars>>

-----------------------------------------------------------------------------
(* Archival.                                                               *)

RoomToClose(rows) == CurrentGeneration(rows)

\* The transaction of archive; a second archive finds the document archived
\* and writes nothing.
Archive ==
    /\ document.status = "draft"
    /\ document' = [document EXCEPT !.status = "archived"]
    /\ closure' = IF CurrentGenerations(generations) = {} THEN NoJob
                  ELSE [generation |-> RoomToClose(generations),
                        workflowRevision |-> 0]
    /\ UNCHANGED <<storeVars, approvals, epochs, proposals, answers,
                   notification>>

-----------------------------------------------------------------------------
(* The specification.                                                      *)

WorkflowInit == Init /\ notification = NoJob /\ closure = NoJob

WorkflowCommand ==
    \/ \E seq \in 0 .. MaxSeq : Approve(seq)
    \/ \E expected, next \in Readiness :
         /\ document.revision < MaxRevision                 \* bound
         /\ \/ ChangeReadiness(expected, next)
            \/ ChangeLegacyReadiness(expected, next)

StoreStep == Next /\ UNCHANGED jobVars

WorkflowNext == StoreStep \/ WorkflowCommand \/ Archive

WorkflowSpec == WorkflowInit /\ [][WorkflowNext]_workflowVars

-----------------------------------------------------------------------------
(* Correctness.                                                            *)

WorkflowTypeOK ==
    /\ TypeOK
    /\ notification \in Job
    /\ closure \in Job

\* A collaborative document shows "approved" exactly while one approval is in
\* force, and that approval names the content it shows: the head, with nothing
\* accepted since.  Only a document approved before collaboration existed is
\* "approved" without a row, and only until its first edit.
ApprovalBindsContent ==
    /\ Cardinality(ActiveApprovals) <= 1
    /\ \A i \in ActiveApprovals :
         /\ Initialized
         /\ document.readiness = "approved"
         /\ approvals[i].generation = CurrentGeneration(generations)
         /\ approvals[i].headSeq = HeadSeq(generations)
         /\ approvals[i].content = LoadSnapshot(generations, HeadSeq(generations))
    /\ (document.readiness = "approved" /\ ActiveApprovals = {})
         => approvals = <<>> /\ updates = {}

\* The audit trail stays true: an approval's content is what the history says
\* its head was, the very next update invalidated it if nobody revoked it, and
\* approvals follow one another without overlapping.
ApprovalTrail ==
    /\ \A i \in DOMAIN approvals :
         /\ approvals[i].content = HistoryThrough(approvals[i].headSeq)
         /\ approvals[i].invalidatedSeq \in {0, approvals[i].headSeq + 1}
         /\ approvals[i].revoked => approvals[i].invalidatedSeq = 0
         /\ approvals[i].invalidatedSeq <= LatestSeq
    /\ \A i, j \in DOMAIN approvals :
         i < j => /\ approvals[i].headSeq <= approvals[j].headSeq
                  /\ approvals[i].invalidatedSeq <= approvals[j].headSeq

\* The job that closes the live room of an archived document exists whenever it
\* is collaborative and names the generation that clients can be connected to,
\* whichever way archival raced with initialization and rotation.
ClosureNamesLiveRoom ==
    document.status = "archived" =>
        closure.generation = Len(generations)

\* Archival is final and wins every race: afterwards no update, no-op, review
\* decision or rotation commits, and all that a late checkpoint or projection
\* can publish is accepted history beyond what was recorded as published, while
\* the closure job names the room that clients can still be in.
ArchiveFreezes ==
    [][ /\ ClosureNamesLiveRoom'
        /\ document.status = "archived" =>
            /\ document'.status = "archived"
            /\ document'.readiness = document.readiness
            /\ UNCHANGED <<updates, noopReceipts, approvals, jobVars>>
            /\ Len(generations') = Len(generations)
            /\ document'.content # document.content =>
                 \E seq \in 1 .. LatestSeq :
                   /\ generations[CurrentGeneration(generations)].projectedSeq < seq
                   /\ document'.content = HistoryThrough(seq) ]_workflowVars

\* A waiting job that is overwritten is replaced by a later revision of the same
\* or a later generation: what the outbox compares before it deletes a job never
\* repeats.
NotificationsAdvance ==
    [][ notification' # notification =>
          /\ notification'.workflowRevision > notification.workflowRevision
          /\ notification'.generation >= notification.generation ]_workflowVars

=============================================================================
