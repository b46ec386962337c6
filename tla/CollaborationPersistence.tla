---------------------- MODULE CollaborationPersistence ----------------------
(***************************************************************************)
(* The durable store of one collaborative document: the rows that          *)
(* src/src/features/collaboration/persistence.ts reads and writes.         *)
(*                                                                         *)
(* Every operation of the source runs in one write transaction (BEGIN      *)
(* IMMEDIATE, src/src/features/collaboration/repository.ts) and is one     *)
(* action here.  A call that the source refuses rolls its transaction      *)
(* back, so it is a stuttering step and needs no action.                   *)
(*                                                                         *)
(* A Yjs document is a join-semilattice: applying an update is idempotent, *)
(* commutative and associative.  A document state is therefore a set of    *)
(* elementary operations, an update is the set of operations it carries,   *)
(* and Y.applyUpdate is set union.                                         *)
(***************************************************************************)
EXTENDS Integers, Sequences, FiniteSets

CONSTANTS
    Ops,              \* elementary Yjs operations (structs and deletions)
    Keys,             \* idempotency keys
    Principals,       \* authors of updates
    Origins,          \* who sends updates: the browser, or server commands
    Payloads,         \* the updates that senders produce
    Proposals,        \* proposals that exist before collaboration starts
    CheckpointLimit,  \* COLLABORATION_STORAGE_LIMITS.codecBytes
    CumulativeLimit,  \* cumulativeUpdateBytes: checkpoint plus tail
    MaxSeq,           \* bound: durable sequence numbers explored
    MaxRevision       \* bound: revisions reached by legacy saves

ASSUME OpsAssumption == IsFiniteSet(Ops) /\ Payloads \subseteq SUBSET Ops
ASSUME OriginsAssumption ==
    Origins \subseteq {"client", "proposal_command", "undo_command"}
ASSUME LimitAssumption ==
    /\ CheckpointLimit \in Nat
    /\ CumulativeLimit \in Nat
    /\ CheckpointLimit <= CumulativeLimit
ASSUME BoundAssumption == MaxSeq \in Nat /\ MaxRevision \in Nat

VARIABLES
    document,     \* the documents row: status, readiness, revision, content
    generations,  \* collaboration_documents, indexed by generation
    updates,      \* collaboration_updates
    noopReceipts, \* collaboration_noop_receipts
    approvals,    \* document_approvals, in insertion order
    epochs,       \* collaboration_authorization_epochs, per principal
    proposals,    \* ai_proposals.status
    answers,      \* history: the receipts callers have been given
    bootstrap     \* history: the content that generation 1 started from

storeVars == <<generations, updates, noopReceipts, bootstrap>>
vars == <<document, generations, updates, noopReceipts, approvals, epochs,
          proposals, answers, bootstrap>>

-----------------------------------------------------------------------------
(* Rows.                                                                   *)

Readiness == {"draft", "needs_review", "ready", "approved"}
Senders == [origin : Origins, principal : Principals]

Document == [status : {"draft", "archived"}, readiness : Readiness,
             revision : Nat, content : SUBSET Ops]

Generation == [isCurrent : BOOLEAN, headSeq : Nat, checkpointSeq : Nat,
               projectedSeq : Nat, checkpoint : SUBSET Ops]

\* An update row, and a no-op receipt, whose seq is the head it observed.
Receipt == [generation : Nat \ {0}, seq : Nat, key : Keys,
            sender : Senders, payload : SUBSET Ops]

\* invalidatedSeq = 0 stands for an approval that no update has invalidated.
Approval == [generation : Nat \ {0}, headSeq : Nat, content : SUBSET Ops,
             invalidatedSeq : Nat, revoked : BOOLEAN]

Answer == [key : Keys, generation : Nat \ {0}, seq : Nat, asker : Senders]

-----------------------------------------------------------------------------
(* Bytes.  Every blob has one byte of framing and one per operation.       *)

Bytes(ops) == 1 + Cardinality(ops)

\* The operations that the updates of a tail carry, each for itself.
Carried(tail) == UNION {{u} \X u.payload : u \in tail}

TailBytes(tail) == Cardinality(tail) + Cardinality(Carried(tail))

-----------------------------------------------------------------------------
(* Loading.                                                                *)

CurrentGenerations(rows) == {g \in DOMAIN rows : rows[g].isCurrent}

\* The generation a transaction works on; load refuses a document that has
\* history but not exactly one current generation.
CurrentGeneration(rows) == CHOOSE g \in DOMAIN rows : rows[g].isCurrent

DurableTail(rows, g, throughSeq) ==
    {u \in updates : /\ u.generation = g
                     /\ u.seq > rows[g].checkpointSeq
                     /\ u.seq <= throughSeq}

\* What loadSnapshot insists on before it returns the document through seq.
Loadable(rows, throughSeq) ==
    LET g == CurrentGeneration(rows) IN
    /\ Cardinality(CurrentGenerations(rows)) = 1
    /\ throughSeq \in rows[g].checkpointSeq .. rows[g].headSeq
    /\ \A u \in updates : u.generation = g => u.seq <= rows[g].headSeq
    /\ {u.seq : u \in DurableTail(rows, g, throughSeq)}
         = (rows[g].checkpointSeq + 1) .. throughSeq

\* The document that loadSnapshot rebuilds: the checkpoint, then the tail.
LoadSnapshot(rows, throughSeq) ==
    LET g == CurrentGeneration(rows) IN
    rows[g].checkpoint \cup UNION {u.payload : u \in DurableTail(rows, g, throughSeq)}

HeadSeq(rows) == rows[CurrentGeneration(rows)].headSeq

-----------------------------------------------------------------------------
(* Initialization, the prefix of every write that needs a collaborative    *)
(* document.                                                               *)

Initialized == generations # <<>>

CanEnsureInitialized ==
    \/ Initialized
    \/ document.status = "draft" /\ Bytes(document.content) <= CheckpointLimit

EnsuredGenerations ==
    IF Initialized THEN generations
    ELSE <<[isCurrent |-> TRUE, headSeq |-> 0, checkpointSeq |-> 0,
            projectedSeq |-> 0, checkpoint |-> document.content]>>

\* The writes of ensureInitializedInTransaction outside collaboration_documents.
EnsureInitialized ==
    /\ CanEnsureInitialized
    /\ Loadable(EnsuredGenerations, HeadSeq(EnsuredGenerations))
    /\ bootstrap' = IF Initialized THEN bootstrap ELSE document.content
    /\ proposals' = IF Initialized THEN proposals
                    ELSE [p \in Proposals |->
                            IF proposals[p] = "pending" THEN "rejected"
                            ELSE proposals[p]]

-----------------------------------------------------------------------------
(* Idempotency.                                                            *)

\* Mutant: no-op receipts are not consulted.
FindIdempotentReceipt_UpdatesOnly(key) == {r \in updates : r.key = key}

FindIdempotentReceipt(key) == {r \in updates \cup noopReceipts : r.key = key}

\* assertReceiptGenerationFence: the receipt's generation still covers it.
ReceiptFenced(r) ==
    r.generation \in DOMAIN generations
        /\ r.seq <= generations[r.generation].headSeq

\* The receipt returned to a caller, and the caller learning of it.  A commit
\* whose outcome stays unknown, or an answer lost on the way, leaves the caller
\* without it.
AnswerFor(r, asker) == [key |-> r.key, generation |-> r.generation,
                        seq |-> r.seq, asker |-> asker]

MayAnswer(r, asker) == answers' \in {answers, answers \cup {AnswerFor(r, asker)}}

\* An exact retry of a stored update: appendInTransaction compares sender and
\* checksum, commitServerCommand and findDurableUpdateReplay only the sender.
Replay(key, sender, samePayloads) ==
    \E r \in FindIdempotentReceipt(key) :
        /\ Cardinality(FindIdempotentReceipt(key)) = 1
        /\ ReceiptFenced(r)
        /\ r.sender = sender
        /\ r.payload \in samePayloads
        /\ MayAnswer(r, sender)
        /\ UNCHANGED <<document, storeVars, approvals, epochs, proposals>>

-----------------------------------------------------------------------------
(* Appending one update.                                                   *)

\* Mutant: the checkpoint does not count towards the cumulative budget.
ShouldRotateAppend_TailOnly(rows, payload) ==
    LET g == CurrentGeneration(rows) IN
    TailBytes(DurableTail(rows, g, rows[g].headSeq)) + Bytes(payload)
        > CumulativeLimit

ShouldRotateAppend(rows, payload) ==
    LET g == CurrentGeneration(rows) IN
    Bytes(rows[g].checkpoint) + TailBytes(DurableTail(rows, g, rows[g].headSeq))
        + Bytes(payload) > CumulativeLimit

\* evaluateAppendCandidate and the budget check of rotateAppendInTransaction.
WithinStorageBudget(rows, payload) ==
    LET state == LoadSnapshot(rows, HeadSeq(rows)) IN
    /\ Bytes(state \cup payload) <= CheckpointLimit
    /\ (ShouldRotateAppend(rows, payload) /\ ~(payload \subseteq state))
         => Bytes(state) + Bytes(payload) <= CumulativeLimit

\* Mutant: sequence numbers restart in the new generation.
Rotate_RestartsSequence(rows) ==
    LET g == CurrentGeneration(rows)
        head == rows[g].headSeq
    IN  Append([rows EXCEPT ![g] = [@ EXCEPT !.isCurrent = FALSE,
                                             !.projectedSeq = head]],
               [isCurrent |-> TRUE, headSeq |-> 0, checkpointSeq |-> 0,
                projectedSeq |-> 0,
                checkpoint |-> LoadSnapshot(rows, head)])

\* Retire the current generation and start the next one from its state.
Rotate(rows) ==
    LET g == CurrentGeneration(rows)
        head == rows[g].headSeq
    IN  Append([rows EXCEPT ![g] = [@ EXCEPT !.isCurrent = FALSE,
                                             !.projectedSeq = head]],
               [isCurrent |-> TRUE, headSeq |-> head, checkpointSeq |-> head,
                projectedSeq |-> head,
                checkpoint |-> LoadSnapshot(rows, head)])

\* Mutant: a rotation marks updates as projected that it did not publish.
ProjectsBeforeRotation_Never(rows) == FALSE

\* A rotation first publishes whatever the retired generation had not.
ProjectsBeforeRotation(rows) ==
    LET row == rows[CurrentGeneration(rows)] IN row.projectedSeq < row.headSeq

\* Mutant: a command's publication counts on top of what the append counted.
RevisionAfter_CountsTwice(revision, projects, unapproves, publishes) ==
    revision + (IF projects \/ unapproves THEN 1 ELSE 0)
             + (IF publishes THEN 1 ELSE 0)

\* One append advances the revision once, whatever it changes: the readiness
\* update leaves the revision alone when the rotation has advanced it, and a
\* command's publication when either has.
RevisionAfter(revision, projects, unapproves, publishes) ==
    IF projects \/ unapproves \/ publishes THEN revision + 1 ELSE revision

\* Mutant: the update's WHERE clause forgets isNull(invalidatedAt).
Active_IgnoresInvalidation(a) == ~a.revoked

Active(a) == a.invalidatedSeq = 0 /\ ~a.revoked

WriteMaterializedDocument(content) ==
    document' = [document EXCEPT !.content = content, !.revision = @ + 1]

\* A server command publishes in the append's own transaction (lifecycle.commit):
\* the documents row gets the content at the head.  Only a changed append is
\* also recorded as projected, so after a no-op command the row may be ahead of
\* projectedSeq.
CommitNoopAppend(rows, key, sender, payload, publishes) ==
    LET r == [generation |-> CurrentGeneration(rows), seq |-> HeadSeq(rows),
              key |-> key, sender |-> sender, payload |-> payload]
    IN  /\ generations' = rows
        /\ noopReceipts' = noopReceipts \cup {r}
        /\ IF publishes THEN WriteMaterializedDocument(LoadSnapshot(rows, HeadSeq(rows)))
           ELSE UNCHANGED document
        /\ MayAnswer(r, sender)
        /\ UNCHANGED <<updates, approvals>>

CommitChangedAppend(rows, key, sender, payload, publishes) ==
    LET rotates == ShouldRotateAppend(rows, payload)
        basis == IF rotates THEN Rotate(rows) ELSE rows
        g == CurrentGeneration(basis)
        seq == basis[g].headSeq + 1
        r == [generation |-> g, seq |-> seq, key |-> key, sender |-> sender,
              payload |-> payload]
        state == LoadSnapshot(rows, HeadSeq(rows))
        projects == rotates /\ ProjectsBeforeRotation(rows)
        unapproves == \/ \E i \in DOMAIN approvals : Active(approvals[i])
                      \/ document.readiness = "approved"
    IN  /\ seq <= MaxSeq                                    \* bound
        /\ generations' = [basis EXCEPT
                             ![g] = [basis[g] EXCEPT
                                       !.headSeq = seq,
                                       !.projectedSeq = IF publishes THEN seq ELSE @]]
        /\ updates' = updates \cup {r}
        /\ approvals' = [i \in DOMAIN approvals |->
                           IF Active(approvals[i])
                           THEN [approvals[i] EXCEPT !.invalidatedSeq = seq]
                           ELSE approvals[i]]
        /\ document' =
             [document EXCEPT
                !.content = IF publishes THEN state \cup payload
                            ELSE IF projects THEN state ELSE @,
                !.readiness = IF unapproves THEN "needs_review" ELSE @,
                !.revision = RevisionAfter(@, projects, unapproves, publishes)]
        /\ MayAnswer(r, sender)
        /\ UNCHANGED noopReceipts

\* appendInTransaction for a key that no stored receipt owns.
AppendUpdate(generation, key, sender, payload, publishes) ==
    LET rows == EnsuredGenerations IN
    /\ EnsureInitialized
    /\ document.status = "draft"
    /\ generation = CurrentGeneration(rows)
    /\ FindIdempotentReceipt(key) = {}
    /\ WithinStorageBudget(rows, payload)
    /\ IF payload \subseteq LoadSnapshot(rows, HeadSeq(rows))
       THEN CommitNoopAppend(rows, key, sender, payload, publishes)
       ELSE CommitChangedAppend(rows, key, sender, payload, publishes)
    /\ UNCHANGED epochs

-----------------------------------------------------------------------------
(* The operations of CollaborationPersistence.                             *)

Initialize ==
    /\ EnsureInitialized
    /\ generations' = EnsuredGenerations
    /\ UNCHANGED <<document, updates, noopReceipts, approvals, epochs, answers>>

\* assertAuthorizedClientAppend: the token's generation and authorization
\* epoch are still the current ones of a draft document.
Authorized(principal, generation, epoch) ==
    /\ document.status = "draft"
    /\ generation \in CurrentGenerations(EnsuredGenerations)
    /\ epoch = epochs[principal]

AppendAuthorizedClientUpdate(principal, generation, epoch, key, payload) ==
    LET sender == [origin |-> "client", principal |-> principal] IN
    /\ "client" \in Origins
    /\ Authorized(principal, generation, epoch)
    /\ \/ Initialized /\ Replay(key, sender, {payload})
       \/ AppendUpdate(generation, key, sender, payload, FALSE)

\* The same append for callers inside the server: no capability is checked.
AppendValidatedUpdate(origin, principal, generation, key, payload) ==
    LET sender == [origin |-> origin, principal |-> principal] IN
    /\ document.status = "draft"
    /\ \/ Initialized /\ Replay(key, sender, {payload})
       \/ AppendUpdate(generation, key, sender, payload, FALSE)

\* The command's update is planned from the loaded snapshot, so it is any
\* update here.  Both callers' commit callbacks publish the head; what they write
\* about proposals and changes is ProposalCommands.
CommitServerCommand(origin, principal, expectedGeneration, key, payload) ==
    LET sender == [origin |-> origin, principal |-> principal] IN
    /\ origin \in Origins \ {"client"}
    /\ document.status = "draft"
    /\ \/ Initialized /\ Replay(key, sender, SUBSET Ops)
       \/ AppendUpdate(expectedGeneration, key, sender, payload, TRUE)

FindDurableUpdateReplay(key, sender) ==
    Replay(key, sender, SUBSET Ops)

\* Mutant: the checkpoint is taken from the projected document.
Checkpoint_OfProjection(generation) ==
    LET g == CurrentGeneration(generations)
        row == generations[g]
    IN  /\ Initialized
        /\ generation = g
        /\ generations' = [generations EXCEPT
                             ![g] = [@ EXCEPT !.checkpoint = document.content,
                                              !.checkpointSeq = row.headSeq,
                                              !.projectedSeq = row.headSeq]]
        /\ UNCHANGED <<document, updates, noopReceipts, approvals, epochs,
                       proposals, answers, bootstrap>>

Checkpoint(generation) ==
    LET g == CurrentGeneration(generations)
        row == generations[g]
        state == LoadSnapshot(generations, row.headSeq)
    IN  /\ Initialized
        /\ Loadable(generations, row.headSeq)
        /\ generation = g
        /\ Bytes(state) <= CheckpointLimit
        /\ generations' = [generations EXCEPT
                             ![g] = [@ EXCEPT !.checkpoint = state,
                                              !.checkpointSeq = row.headSeq,
                                              !.projectedSeq = row.headSeq]]
        /\ IF row.projectedSeq < row.headSeq
           THEN WriteMaterializedDocument(state)
           ELSE UNCHANGED document
        /\ UNCHANGED <<updates, noopReceipts, approvals, epochs, proposals,
                       answers, bootstrap>>

\* Mutant: the compare-and-set forgets lt(projectedSeq, throughSeq).
Project_Backwards(throughSeq) ==
    LET g == CurrentGeneration(generations) IN
    /\ Initialized
    /\ Loadable(generations, throughSeq)
    /\ generations' = [generations EXCEPT ![g].projectedSeq = throughSeq]
    /\ WriteMaterializedDocument(LoadSnapshot(generations, throughSeq))
    /\ UNCHANGED <<updates, noopReceipts, approvals, epochs, proposals,
                   answers, bootstrap>>

Project(throughSeq) ==
    LET g == CurrentGeneration(generations) IN
    /\ Initialized
    /\ Loadable(generations, throughSeq)
    /\ generations[g].projectedSeq < throughSeq
    /\ generations' = [generations EXCEPT ![g].projectedSeq = throughSeq]
    /\ WriteMaterializedDocument(LoadSnapshot(generations, throughSeq))
    /\ UNCHANGED <<updates, noopReceipts, approvals, epochs, proposals,
                   answers, bootstrap>>

-----------------------------------------------------------------------------
(* The two writers outside persistence.ts that race with it.               *)

\* The autosave of a document without collaboration (saveDocumentDraft).
SaveDocumentDraft(expectedRevision, content) ==
    /\ document.status = "draft"
    /\ ~Initialized
    /\ document.revision = expectedRevision
    /\ document' = [document EXCEPT !.content = content,
                                    !.revision = expectedRevision + 1]
    /\ UNCHANGED <<storeVars, approvals, epochs, proposals, answers>>

-----------------------------------------------------------------------------
(* The specification.                                                      *)

\* A document that predates collaboration may already be "approved": approval
\* rows only exist for collaborative documents.
Init ==
    /\ document \in [status : {"draft"}, readiness : {"draft", "approved"},
                     revision : {0}, content : {{}}]
    /\ generations = <<>>
    /\ updates = {}
    /\ noopReceipts = {}
    /\ approvals = <<>>
    /\ epochs = [p \in Principals |-> 0]
    /\ proposals = [p \in Proposals |-> "pending"]
    /\ answers = {}
    /\ bootstrap = {}

\* Callers name a generation that they have seen.
ClientNext ==
    \E p \in Principals, g \in DOMAIN EnsuredGenerations, k \in Keys, ops \in Payloads :
        AppendAuthorizedClientUpdate(p, g, epochs[p], k, ops)

CommandNext ==
    \E o \in Origins, p \in Principals, g \in DOMAIN EnsuredGenerations, k \in Keys,
       ops \in Payloads :
        \/ AppendValidatedUpdate(o, p, g, k, ops)
        \/ CommitServerCommand(o, p, g, k, ops)

Next ==
    \/ Initialize
    \/ ClientNext
    \/ CommandNext
    \/ \E k \in Keys, s \in Senders : FindDurableUpdateReplay(k, s)
    \/ \E g \in DOMAIN EnsuredGenerations : Checkpoint(g)
    \/ \E seq \in 1 .. MaxSeq : Project(seq)
    \/ \E content \in Payloads :
         document.revision < MaxRevision
           /\ SaveDocumentDraft(document.revision, content)

Spec == Init /\ [][Next]_vars

-----------------------------------------------------------------------------
(* Correctness.                                                            *)

TypeOK ==
    /\ document \in Document
    /\ generations \in Seq(Generation)
    /\ updates \subseteq Receipt
    /\ noopReceipts \subseteq Receipt
    /\ approvals \in Seq(Approval)
    /\ epochs \in [Principals -> Nat]
    /\ proposals \in [Proposals -> {"pending", "accepted", "rejected"}]
    /\ answers \subseteq Answer
    /\ bootstrap \in SUBSET Ops

\* Everything the document has durably accepted, up to a sequence number.
HistoryThrough(seq) ==
    bootstrap \cup UNION {u.payload : u \in {v \in updates : v.seq <= seq}}

LatestSeq == IF Initialized THEN HeadSeq(generations) ELSE 0

\* A rotation retires the old row and installs the new one together: exactly
\* the newest generation is current, a retired one is fully projected, and its
\* successor starts where it ended.  In every row checkpointSeq <= projectedSeq
\* <= headSeq, which the table also states as a CHECK constraint.
GenerationChain ==
    /\ \A g \in DOMAIN generations :
         /\ generations[g].isCurrent <=> g = Len(generations)
         /\ generations[g].checkpointSeq <= generations[g].projectedSeq
         /\ generations[g].projectedSeq <= generations[g].headSeq
    /\ \A g, h \in DOMAIN generations :
         g < h => /\ generations[g].projectedSeq = generations[g].headSeq
                  /\ generations[g].headSeq <= generations[h].checkpointSeq

\* Sequence numbers run through 1 .. head without a gap or a duplicate, across
\* rotations, and a later number never sits in an earlier generation of a chain
\* that is whole.
GaplessHistory ==
    /\ GenerationChain
    /\ {u.seq : u \in updates} = 1 .. LatestSeq
    /\ \A u, v \in updates :
         /\ u.seq = v.seq => u = v
         /\ u.seq < v.seq => u.generation <= v.generation

\* Whatever checkpoints, projections and rotations happened, loading rebuilds
\* exactly the bootstrapped content and every accepted update, no more and no
\* less, and never reports corrupt_state.
RecoveryExact ==
    Initialized =>
        /\ Loadable(generations, HeadSeq(generations))
        /\ LoadSnapshot(generations, HeadSeq(generations))
             = HistoryThrough(HeadSeq(generations))

\* The documents row of a collaborative document shows a state of its history,
\* never a torn one, and never one older than projectedSeq says: no other writer
\* reaches it, and a rotation publishes what it marks as projected.  The row may be
\* newer than projectedSeq, because a command that changed nothing publishes the
\* head without recording it.
ProjectionExact ==
    Initialized =>
        \E seq \in generations[CurrentGeneration(generations)].projectedSeq
                     .. HeadSeq(generations) :
            document.content = HistoryThrough(seq)

\* An idempotency key is spent at most once over the whole history, as an
\* update or as a no-op, in whatever generation: the table's unique index only
\* covers one generation.  So a caller that retries, after a lost answer or an
\* unknown commit outcome, is never told two positions for one key, and what it
\* was told is backed by a row of its own whose generation still covers it.
KeysSpentOnce ==
    /\ updates \cap noopReceipts = {}
    /\ \A r, s \in updates \cup noopReceipts : r.key = s.key => r = s
    /\ \A a \in answers :
         \E r \in updates \cup noopReceipts :
             AnswerFor(r, r.sender) = a /\ ReceiptFenced(r)

\* The checkpoint and the tail of the current generation never outgrow the
\* cumulative budget: rotation happens in time, also after checkpoints.
StorageBounded ==
    Initialized =>
        LET g == CurrentGeneration(generations) IN
        Bytes(generations[g].checkpoint)
          + TailBytes(DurableTail(generations, g, generations[g].headSeq))
            <= CumulativeLimit

\* What readers poll by revision: a change of content or readiness advances
\* the revision, and one transaction never advances it twice, not even when a
\* rotation projects, an approval falls and a command publishes in one append.
RevisionCountsChanges ==
    [][ /\ document'.revision \in {document.revision, document.revision + 1}
        /\ (\/ document'.content # document.content
            \/ document'.readiness # document.readiness)
             => document'.revision = document.revision + 1 ]_vars

-----------------------------------------------------------------------------
(* The store implements AcceptedHistory.                                   *)

UpdateAt(seq) == CHOOSE u \in updates : u.seq = seq

Position(r) == [key |-> r.key, seq |-> r.seq]

AcceptedLog == [n \in 1 .. LatestSeq |-> [key |-> UpdateAt(n).key,
                                         payload |-> UpdateAt(n).payload]]

\* What is recorded as published.
PublishedSeq ==
    IF Initialized THEN generations[CurrentGeneration(generations)].projectedSeq
    ELSE 0

NoopPositions == {Position(r) : r \in noopReceipts}
AnsweredPositions == {Position(r) : r \in answers}

Abstract == INSTANCE AcceptedHistory WITH
    started <- Initialized,
    base <- bootstrap,
    log <- AcceptedLog,
    published <- PublishedSeq,
    content <- document.content,
    noops <- NoopPositions,
    answers <- AnsweredPositions

\* Rotations, checkpoints, retries and lost answers are invisible: what callers
\* and readers observe is one append-only history with keys spent once, of which
\* the row shows a prefix, never one older than what is recorded as published,
\* and that record only advances.
ImplementsAcceptedHistory == Abstract!Spec

=============================================================================
