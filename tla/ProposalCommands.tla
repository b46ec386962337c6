--------------------------- MODULE ProposalCommands ---------------------------
(***************************************************************************)
(* Applying AI proposals to a collaborative document and undoing the       *)
(* changes they made:                                                      *)
(*   src/src/features/collaboration/proposal-command-service.ts  (apply)   *)
(*   src/src/features/collaboration/selective-undo.ts            (undo)    *)
(*   src/src/features/collaboration/proposal-command.ts     (batch, hash)  *)
(*   src/src/features/proposals/proposal-repository.ts  (reject and reset) *)
(*                                                                         *)
(* A request is resolved and classified outside any transaction, commits   *)
(* in one transaction of the durable store (commitServerCommand), and is   *)
(* classified and tried once more when that transaction fails.  Requests   *)
(* of several handlers interleave between these steps, a handler may die   *)
(* at any of them, and peers edit the document all the while.              *)
(*                                                                         *)
(* The text is a set of Yjs items.  A slot is a range between two items    *)
(* that stay, the span of a relative range: the text of a region, or the   *)
(* place below its block.  Items carry the sequence number of the update   *)
(* that inserted them: undoing a deletion inserts new items, it never      *)
(* brings old ones back, and deleting an item twice deletes it once.       *)
(***************************************************************************)
EXTENDS Integers, Sequences, FiniteSets

CONSTANTS
    Proposals,     \* proposals that AI runs may store for this document
    Commands,      \* command ids chosen by browsers
    Principals,    \* who sends them
    Handlers,      \* requests the server works on at a time
    Regions,       \* target ranges
    Texts,         \* what a range may read
    NoText,        \* the empty replacement
    Region,        \* Region[p]: the range that p targets
    Target,        \* Target[p]: the text that p wants to replace
    Replacement,   \* Replacement[p]: its replacement
    Original,      \* Original[r]: what range r reads at first
    Sent,          \* bound: the apply requests that browsers send
    Typed,         \* bound: what peers type, and where
    MaxSeq,        \* bound: durable updates
    MaxGeneration, \* bound: generations
    MaxRevision    \* bound: revisions reached by checkpoints and approvals

ASSUME ProposalsAssumption ==
    /\ Regions \subseteq Nat
    /\ IsFiniteSet(Proposals) /\ IsFiniteSet(Regions)
    /\ NoText \notin Texts
    /\ Region \in [Proposals -> Regions]
    /\ Target \in [Proposals -> Texts]
    /\ Replacement \in [Proposals -> Texts \cup {NoText}]
    /\ Original \in [Regions -> Texts]

VARIABLES
    collaboration, \* the current collaboration_documents row
    body,          \* the visible items of the document at headSeq
    document,      \* the documents row
    proposals,     \* ai_proposals and their anchors
    receipts,      \* collaboration_updates and collaboration_noop_receipts
    actions,       \* collaboration_actions
    changes,       \* document_changes, their links and inverses, in order
    deliveries,    \* command ids with a command-delivery job
    handlers,      \* what each request handler is doing
    answers        \* history: the successful answers that were computed

storeVars == <<collaboration, body, document, proposals, receipts, actions,
               changes, deliveries>>
vars == <<storeVars, handlers, answers>>

-----------------------------------------------------------------------------
(* Rows and requests.                                                      *)

Modes == {"replace", "insert_below"}
Slots == Regions \X {"text", "below"}
Item == [slot : Slots, text : Texts, seq : Nat]

\* The items of a command: a mode for each of its proposals.
Batches == UNION {[S -> Modes] : S \in (SUBSET Proposals) \ {{}}}

ApplyRequest == [kind : {"apply"}, command : Commands, principal : Principals,
                 items : Batches]
UndoRequest == [kind : {"undo"}, command : Commands, principal : Principals,
                change : Nat \ {0}]
Request == ApplyRequest \cup UndoRequest

ASSUME BoundAssumption ==
    /\ Sent \subseteq ApplyRequest
    /\ \A r \in Sent : \A p \in DOMAIN r.items :
         r.items[p] = "insert_below" => Replacement[p] # NoText
    /\ Typed \subseteq Slots \X (Texts \cup {NoText})
    /\ MaxSeq \in Nat /\ MaxGeneration \in Nat \ {0} /\ MaxRevision \in Nat

Receipt == [request : Request, generation : Nat, headSeq : Nat,
            updates : BOOLEAN]
Action == [request : Request, generation : Nat, headSeq : Nat,
           change : Nat \ {0}]

\* What captureCollaborativeInverse stores: the items the command inserted, the
\* text it removed, its changed range and what the slots there then read.
StoredInverse == [removes : SUBSET Item, restores : SUBSET [slot : Slots, text : Texts],
            range : SUBSET Slots, postcondition : [Slots -> [Texts -> Nat]]]
NoInverse == [removes |-> {}, restores |-> {}, range |-> {},
              postcondition |-> [s \in Slots |-> [t \in Texts |-> 0]]]
Change == [links : Batches, undone : BOOLEAN, inverse : StoredInverse]

Idle == [step |-> "idle"]
Handler == [step : {"resolved", "commit", "reclassify", "again"},
            request : Request, generation : Nat, known : BOOLEAN]

Answer == [request : Request, change : Nat \ {0}, generation : Nat,
           headSeq : Nat]

-----------------------------------------------------------------------------
(* The document.                                                           *)

\* fingerprintBodyRange, and the target hash: what a slot reads.  Two items of
\* one slot may stand in either order.
Fingerprint(b, slot) ==
    [t \in Texts |-> Cardinality({i \in b : i.slot = slot /\ i.text = t})]

Reads(b, slot, text) ==
    Fingerprint(b, slot) = [t \in Texts |-> IF t = text THEN 1 ELSE 0]

TargetSlot(p) == <<Region[p], "text">>

EffectSlot(p, mode) ==
    IF mode = "replace" THEN TargetSlot(p) ELSE <<Region[p], "below">>

\* The proposals of a batch whose application changes the text.
Effective(items) ==
    {p \in DOMAIN items : items[p] = "insert_below" \/ Replacement[p] # Target[p]}

\* Slots in the order of the document.
Position(slot) == 2 * slot[1] + (IF slot[2] = "text" THEN 0 ELSE 1)

\* changedRange: one span from the first slot of the batch to the last.
ChangedRange(items) ==
    {s \in Slots : \E p, q \in DOMAIN items :
        /\ Position(EffectSlot(p, items[p])) <= Position(s)
        /\ Position(s) <= Position(EffectSlot(q, items[q]))}

Removed(items) ==
    {i \in body : \E p \in Effective(items) :
                      items[p] = "replace" /\ i.slot = TargetSlot(p)}

Inserted(items, seq) ==
    {[slot |-> EffectSlot(p, items[p]), text |-> Replacement[p], seq |-> seq] :
        p \in {q \in Effective(items) : Replacement[q] # NoText}}

-----------------------------------------------------------------------------
(* Appending an update to the store.                                       *)

\* commitChangedAppend: the position of a changed update.
AppendUpdate(rotates, projectedSeq) ==
    /\ collaboration.headSeq < MaxSeq                           \* bound
    /\ rotates => collaboration.generation < MaxGeneration      \* bound
    /\ collaboration' =
         [generation |-> collaboration.generation + (IF rotates THEN 1 ELSE 0),
          headSeq |-> collaboration.headSeq + 1,
          projectedSeq |-> projectedSeq]

\* position.revisionAdvanced: the append itself counted a revision, because a
\* rotation published what was not projected or an approval fell.
RevisionAdvanced(rotates) ==
    \/ rotates /\ collaboration.projectedSeq < collaboration.headSeq
    \/ document.approved

Advance(revision, advanced) == IF advanced THEN revision + 1 ELSE revision

\* Mutant: a command always counts a revision of its own.
CommandRevision_Twice(rotates, changed) ==
    Advance(document.revision, changed /\ RevisionAdvanced(rotates)) + 1

\* The revision after a command: its own, unless the append counted already.
CommandRevision(rotates, changed) ==
    LET advanced == changed /\ RevisionAdvanced(rotates) IN
    Advance(document.revision, advanced) + (IF advanced THEN 0 ELSE 1)

-----------------------------------------------------------------------------
(* Classification of a command id.                                         *)

ActionsOf(command) == {a \in actions : a.request.command = command}
ReceiptsOf(command) == {r \in receipts : r.request.command = command}

Exact(a, request, generation) ==
    /\ a.request = request
    /\ a.generation \in {generation, generation + 1}

Known(request, generation) ==
    \E a \in ActionsOf(request.command) : Exact(a, request, generation)

Conflicting(request, generation) ==
    \E a \in ActionsOf(request.command) : ~Exact(a, request, generation)

-----------------------------------------------------------------------------
(* Planning.                                                               *)

\* planProposalCommand and applyBatch: every target must still read as the
\* proposal saw it, and no two ranges of a batch may overlap.
CanApply(items) ==
    /\ \A p \in DOMAIN items :
         /\ proposals[p].status = "pending"
         /\ proposals[p].generation = collaboration.generation
         /\ Reads(body, TargetSlot(p), Target[p])
    /\ \A p, q \in DOMAIN items : p # q => Region[p] # Region[q]

\* captureCollaborativeInverse on a shadow of the base state.
Capture(items, seq, newBody) ==
    IF Effective(items) = {} THEN NoInverse
    ELSE [removes |-> Inserted(items, seq),
          restores |-> {[slot |-> i.slot, text |-> i.text] : i \in Removed(items)},
          range |-> ChangedRange(items),
          postcondition |-> [s \in Slots |-> Fingerprint(newBody, s)]]

\* Applying the stored inverse update to the head.
Undone(inverse, seq) ==
    (body \ inverse.removes) \cup
        {[slot |-> t.slot, text |-> t.text, seq |-> seq] : t \in inverse.restores}

\* planUndoCommand: the change stands, has an inverse, and what it changed
\* still reads as it left it.
CanUndo(n) ==
    /\ n \in DOMAIN changes
    /\ ~changes[n].undone
    /\ changes[n].inverse # NoInverse
    /\ \A s \in changes[n].inverse.range :
         Fingerprint(body, s) = changes[n].inverse.postcondition[s]

-----------------------------------------------------------------------------
(* A request: resolve, classify, commit, classify again, commit again.     *)

\* resolveInitialCommand reads the anchors, resolveUndoTarget the change and
\* the current generation.
Resolve(h, r) ==
    /\ handlers[h] = Idle
    /\ \E g \in 1 .. MaxGeneration :
         /\ r.kind = "apply" =>
              \A p \in DOMAIN r.items :
                  proposals[p].status # "none" /\ proposals[p].generation = g
         /\ r.kind = "undo" =>
              /\ r.change \in DOMAIN changes
              /\ changes[r.change].inverse # NoInverse
              /\ g = collaboration.generation
         /\ handlers' = [handlers EXCEPT
                           ![h] = [step |-> "resolved", request |-> r,
                                   generation |-> g, known |-> FALSE]]
    /\ UNCHANGED <<storeVars, answers>>

\* A conflicting command id is refused, anything else goes on to commit.
Classify(h) ==
    /\ handlers[h].step = "resolved"
    /\ LET r == handlers[h].request
           g == handlers[h].generation
       IN  handlers' = [handlers EXCEPT
             ![h] = IF Conflicting(r, g) THEN Idle
                    ELSE [@ EXCEPT !.step = "commit", !.known = Known(r, g)]]
    /\ UNCHANGED <<storeVars, answers>>

\* The transaction committed.  The handler hears of it and answers, or is told
\* of an error after all and goes on as if the transaction had failed.
AfterFailure(handler) ==
    IF handler.step = "commit" THEN [handler EXCEPT !.step = "reclassify"]
    ELSE Idle

Answered(h, change, generation, headSeq) ==
    \/ /\ handlers' = [handlers EXCEPT ![h] = Idle]
       /\ answers' = answers \cup
            {[request |-> handlers[h].request, change |-> change,
              generation |-> generation, headSeq |-> headSeq]}
    \/ /\ handlers' = [handlers EXCEPT ![h] = AfterFailure(handlers[h])]
       /\ UNCHANGED answers

Committing(h) == handlers[h].step \in {"commit", "again"}

\* Mutant: the stored action is not compared with the command.
CommitReplay_AnySender(h) ==
    /\ Committing(h)
    /\ \E stored \in ReceiptsOf(handlers[h].request.command), a \in actions :
         /\ a.request.command = stored.request.command
         /\ deliveries' = IF stored.updates
                          THEN deliveries \cup {stored.request.command}
                          ELSE deliveries
         /\ Answered(h, a.change, stored.generation, stored.headSeq)
    /\ UNCHANGED <<collaboration, body, document, proposals, receipts, actions,
                   changes>>

\* resolveServerCommandReplay, then replayProposalCommand or replayUndoCommand:
\* the stored result is the answer, and its delivery is armed again.
CommitReplay(h) ==
    /\ Committing(h)
    /\ \E stored \in ReceiptsOf(handlers[h].request.command), a \in actions :
         /\ stored.request = handlers[h].request
         /\ a.request = handlers[h].request
         /\ a.headSeq = stored.headSeq
         /\ a.request.kind = "undo" => changes[a.change].undone
         /\ deliveries' = IF stored.updates
                          THEN deliveries \cup {stored.request.command}
                          ELSE deliveries
         /\ Answered(h, a.change, stored.generation, stored.headSeq)
    /\ UNCHANGED <<collaboration, body, document, proposals, receipts, actions,
                   changes>>

FirstTime(h) ==
    /\ Committing(h)
    /\ ReceiptsOf(handlers[h].request.command) = {}
    /\ handlers[h].generation = collaboration.generation

\* The rows of a command that changed the text, or of one that did not.
Record(h, changed, rotates, newBody, change) ==
    LET r == handlers[h].request
        seq == collaboration.headSeq + (IF changed THEN 1 ELSE 0)
        g == collaboration.generation + (IF changed /\ rotates THEN 1 ELSE 0)
    IN  /\ IF changed THEN AppendUpdate(rotates, seq) ELSE UNCHANGED collaboration
        /\ body' = newBody
        /\ document' = [document EXCEPT
                          !.content = newBody,
                          !.revision = CommandRevision(rotates, changed),
                          !.approved = @ /\ ~changed]
        /\ receipts' = receipts \cup
             {[request |-> r, generation |-> g, headSeq |-> seq, updates |-> changed]}
        /\ actions' = actions \cup
             {[request |-> r, generation |-> g, headSeq |-> seq, change |-> change]}
        /\ deliveries' = IF changed THEN deliveries \cup {r.command} ELSE deliveries
        /\ Answered(h, change, g, seq)

\* commitProposalCommand marks every proposal of the batch.
Accept(items) ==
    proposals' = [p \in Proposals |->
                    IF p \in DOMAIN items
                    THEN [proposals[p] EXCEPT !.status = "accepted",
                                              !.mode = items[p]]
                    ELSE proposals[p]]

CommitApply(h, rotates) ==
    LET items == handlers[h].request.items
        changed == Effective(items) # {}
        seq == collaboration.headSeq + 1
        newBody == (body \ Removed(items)) \cup Inserted(items, seq)
    IN  /\ FirstTime(h)
        /\ handlers[h].request.kind = "apply"
        /\ CanApply(items)
        /\ rotates => changed
        /\ Accept(items)
        /\ changes' = Append(changes, [links |-> items, undone |-> FALSE,
                                       inverse |-> Capture(items, seq, newBody)])
        /\ Record(h, changed, rotates, newBody, Len(changes) + 1)

\* commitUndoCommand puts every linked proposal back, if all still stand as the
\* change left them.
Reset(links) ==
    /\ \A p \in DOMAIN links :
         proposals[p].status = "accepted" /\ proposals[p].mode = links[p]
    /\ proposals' = [p \in Proposals |->
                       IF p \in DOMAIN links
                       THEN [proposals[p] EXCEPT !.status = "pending", !.mode = "none"]
                       ELSE proposals[p]]

CommitUndo(h, rotates) ==
    LET n == handlers[h].request.change
        inverse == changes[n].inverse
        changed == inverse.removes \cap body # {} \/ inverse.restores # {}
        newBody == Undone(inverse, collaboration.headSeq + 1)
    IN  /\ FirstTime(h)
        /\ handlers[h].request.kind = "undo"
        /\ CanUndo(n)
        /\ rotates => changed
        /\ Reset(changes[n].links)
        /\ changes' = [changes EXCEPT ![n].undone = TRUE]
        /\ Record(h, changed, rotates, newBody, n)

\* The transaction is refused, for a document that was archived too, or rolled
\* back by the database.
CommitFails(h) ==
    /\ handlers[h].step \in {"commit", "again"}
    /\ handlers' = [handlers EXCEPT ![h] = AfterFailure(handlers[h])]
    /\ UNCHANGED <<storeVars, answers>>

\* A command that was missing and is there now was committed by a twin, or by
\* this very request: its result is fetched with a second commit.
Reclassify(h) ==
    /\ handlers[h].step = "reclassify"
    /\ LET r == handlers[h].request
           g == handlers[h].generation
       IN  handlers' = [handlers EXCEPT
             ![h] = IF ~Conflicting(r, g) /\ Known(r, g) /\ ~handlers[h].known
                    THEN [@ EXCEPT !.step = "again"]
                    ELSE Idle]
    /\ UNCHANGED <<storeVars, answers>>

\* The web process dies, or a read outside the transaction fails.
Abandon(h) ==
    /\ handlers[h] # Idle
    /\ handlers' = [handlers EXCEPT ![h] = Idle]
    /\ UNCHANGED <<storeVars, answers>>

-----------------------------------------------------------------------------
(* What else writes these rows.                                            *)

\* An AI run stores a proposal, anchored in a snapshot of this generation.
Propose(p) ==
    /\ proposals[p].status = "none"
    /\ Reads(body, TargetSlot(p), Target[p])
    /\ proposals' = [proposals EXCEPT
                       ![p].status = "pending",
                       ![p].generation = collaboration.generation]
    /\ UNCHANGED <<collaboration, body, document, receipts, actions, changes,
                   deliveries, handlers, answers>>

\* Mutant: an accepted proposal may be rejected.
UpdateProposalStatus_Accepted(p, status) ==
    /\ proposals[p].status # "none"
    /\ proposals' = [proposals EXCEPT ![p].status = status]
    /\ UNCHANGED <<collaboration, body, document, receipts, actions, changes,
                   deliveries, handlers, answers>>

\* updateProposalStatus: accepted is neither a source nor a target, and a
\* rejected proposal only returns while its anchor is of this generation.
UpdateProposalStatus(p, status) ==
    /\ proposals[p].status \in {"pending", "rejected"}
    /\ (proposals[p].status = "rejected" /\ status = "pending")
         => proposals[p].generation = collaboration.generation
    /\ proposals' = [proposals EXCEPT ![p].status = status]
    /\ UNCHANGED <<collaboration, body, document, receipts, actions, changes,
                   deliveries, handlers, answers>>

\* A peer deletes items of a slot and types text there.
PeerEdit(slot, kept, text, rotates) ==
    LET newBody == {i \in body : i.slot # slot \/ i \in kept} \cup
                     (IF text = NoText THEN {}
                      ELSE {[slot |-> slot, text |-> text,
                             seq |-> collaboration.headSeq + 1]})
    IN  /\ newBody # body
        /\ AppendUpdate(rotates, IF rotates THEN collaboration.headSeq
                                 ELSE collaboration.projectedSeq)
        /\ body' = newBody
        /\ document' = [document EXCEPT
             !.content = IF rotates THEN body ELSE @,
             !.revision = Advance(@, RevisionAdvanced(rotates)),
             !.approved = FALSE]
        /\ UNCHANGED <<proposals, receipts, actions, changes, deliveries,
                       handlers, answers>>

Checkpoint ==
    /\ collaboration.projectedSeq < collaboration.headSeq
    /\ document.revision < MaxRevision                           \* bound
    /\ collaboration' = [collaboration EXCEPT !.projectedSeq = collaboration.headSeq]
    /\ document' = [document EXCEPT !.content = body, !.revision = @ + 1]
    /\ UNCHANGED <<body, proposals, receipts, actions, changes, deliveries,
                   handlers, answers>>

Approve ==
    /\ ~document.approved
    /\ document.revision < MaxRevision                           \* bound
    /\ document' = [document EXCEPT !.approved = TRUE, !.revision = @ + 1]
    /\ UNCHANGED <<collaboration, body, proposals, receipts, actions, changes,
                   deliveries, handlers, answers>>

-----------------------------------------------------------------------------
(* The specification.                                                      *)

FirstBody == {[slot |-> <<r, "text">>, text |-> Original[r], seq |-> 0] :
                 r \in Regions}

Init ==
    /\ collaboration = [generation |-> 1, headSeq |-> 0, projectedSeq |-> 0]
    /\ body = FirstBody
    /\ document = [approved |-> FALSE, revision |-> 0, content |-> FirstBody]
    /\ proposals = [p \in Proposals |-> [status |-> "none", mode |-> "none",
                                         generation |-> 0]]
    /\ receipts = {} /\ actions = {} /\ changes = <<>> /\ deliveries = {}
    /\ handlers = [h \in Handlers |-> Idle]
    /\ answers = {}

ServiceNext(h) ==
    \/ \E r \in Sent : Resolve(h, r)
    \/ \E c \in Commands, p \in Principals, n \in DOMAIN changes :
         Resolve(h, [kind |-> "undo", command |-> c, principal |-> p,
                     change |-> n])
    \/ Classify(h)
    \/ CommitReplay(h)
    \/ \E rotates \in BOOLEAN : CommitApply(h, rotates) \/ CommitUndo(h, rotates)
    \/ CommitFails(h)
    \/ Reclassify(h)
    \/ Abandon(h)

Next ==
    \/ \E h \in Handlers : ServiceNext(h)
    \/ \E p \in Proposals : Propose(p)
    \/ \E p \in Proposals, status \in {"pending", "rejected"} :
         UpdateProposalStatus(p, status)
    \/ \E typed \in Typed, rotates \in BOOLEAN :
         \E kept \in SUBSET {i \in body : i.slot = typed[1]} :
             PeerEdit(typed[1], kept, typed[2], rotates)
    \/ Checkpoint
    \/ Approve

Spec == Init /\ [][Next]_vars

-----------------------------------------------------------------------------
(* Correctness.                                                            *)

TypeOK ==
    /\ collaboration \in [generation : Nat, headSeq : Nat, projectedSeq : Nat]
    /\ body \subseteq Item
    /\ document \in [approved : BOOLEAN, revision : Nat, content : SUBSET Item]
    /\ proposals \in [Proposals ->
         [status : {"none", "pending", "accepted", "rejected"}, mode : Modes \cup {"none"},
          generation : Nat]]
    /\ receipts \subseteq Receipt
    /\ actions \subseteq Action
    /\ changes \in Seq(Change)
    /\ deliveries \subseteq Commands
    /\ handlers \in [Handlers -> Handler \cup {Idle}]
    /\ answers \subseteq Answer

\* The changes of p that stand.
Standing(p) == {n \in DOMAIN changes : p \in DOMAIN changes[n].links
                                         /\ ~changes[n].undone}

\* The three tables agree: a proposal is accepted exactly while one change that
\* was not undone links it, in the mode it was applied with, and never while
\* two do.  Batches, undos, rejections and resets race; each is one row update
\* with its own precondition.
AcceptedByOneChange ==
    \A p \in Proposals :
        IF proposals[p].status = "accepted"
        THEN \E n \in DOMAIN changes :
               /\ Standing(p) = {n}
               /\ changes[n].links[p] = proposals[p].mode
        ELSE Standing(p) = {}

\* A command id names one request and one result.  However often it is sent,
\* by however many handlers at once, across crashes, lost commit outcomes and
\* rotations, every answer it is given is backed by the one action and the one
\* receipt of that command, and a change is made by one command only.
OneResult ==
    /\ \A a, b \in actions : a.request.command = b.request.command => a = b
    /\ \A a, b \in actions :
         a.request.kind = b.request.kind /\ a.change = b.change => a = b
    /\ \A r \in receipts : \E a \in actions :
         a.request = r.request /\ a.headSeq = r.headSeq /\ a.generation = r.generation
    /\ \A x \in answers : \E a \in actions :
         /\ a.request = x.request /\ a.change = x.change
         /\ a.headSeq = x.headSeq /\ a.generation = x.generation

ProjectionHonest ==
    collaboration.projectedSeq = collaboration.headSeq => document.content = body

\* A command counts one revision and leaves the documents row showing the head,
\* also when its append publishes a rotation, unseats an approval or changes
\* nothing; no step lets the row fall behind what projectedSeq claims.
CommandPublishes ==
    [][ /\ ProjectionHonest'
        /\ actions' # actions =>
             /\ document'.revision = document.revision + 1
             /\ document'.content = body' ]_vars

\* The changes that a step undoes.
UndoneBy(n) == n \in DOMAIN changes /\ ~changes[n].undone /\ changes'[n].undone

SlotsOf(n) == {EffectSlot(p, changes[n].links[p]) : p \in DOMAIN changes[n].links}

\* What the design says of an undo: it restores the text that the change replaced.
UndoRestores ==
    [][ \A n \in DOMAIN changes : UndoneBy(n) =>
          \A s \in SlotsOf(n) :
              {[slot |-> i.slot, text |-> i.text] : i \in {j \in body' : j.slot = s}}
                = {t \in changes[n].inverse.restores : t.slot = s} ]_vars

=============================================================================
