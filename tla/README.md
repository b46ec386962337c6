# coredot-editor: a formal model

TLA+ modules, TLC runs and TLAPS proofs about `coredot-editor`, a document
editor with realtime collaboration, review workflow and AI proposals. Paths
are relative to the repository (`src/` below is the directory this project
sits beside; the application itself is `src/src/`). `PROJECT.json` maps every
definition to the lines it stands for.

- [The system](#the-system)
- [Inventory](#inventory)
- [Modules](#modules)
- [Runs, bounds and fairness](#runs-bounds-and-fairness)
- [Findings](#findings)
- [Proofs](#proofs)
- [What is assumed, and what is left out](#what-is-assumed-and-what-is-left-out)
- [Plan](#plan)

## The system

Three kinds of process share one SQLite database:

- **web processes** (Next.js): HTTP routes that save, archive and review
  documents, run AI commands and commit the proposals people accept, and issue
  the capabilities that browsers connect with;
- **one collaboration sidecar** (`src/src/features/collaboration/server/`): a
  Hocuspocus server that holds a live Yjs document ("room") per document and
  generation, makes every browser update durable before it may be applied, and
  runs the workers that deliver jobs to rooms;
- **browser tabs**: an editor bound to a Yjs document, a Hocuspocus provider,
  and a session store that tells the page what is durable and what it may do.

```
  browser tab ──websocket──▶ sidecar room ──append──▶ durable store (SQLite)
      │                          ▲                          ▲
      │ HTTP                     │ publish / notify / close │ one write
      ▼                          │                          │ transaction each
  web process ──commands──▶ durable store ──job rows──▶ outbox workers (sidecar)
```

A web process never talks to the sidecar. It commits, and leaves a job in an
outbox; the sidecar's worker picks the job up and tells the room. All writes to
one document within a process stand in one queue
(`src/src/db/document-write-queue.ts`), and every write is one `BEGIN
IMMEDIATE` transaction, which is what serializes processes.

## Inventory

For each part: the state it keeps, its operations, what is hard about it, and
what makes it correct. The property names are those of the modules; where none
is given the part is not modelled yet (see [Plan](#plan)).

**Durable collaboration store** (`collaboration/persistence.ts`,
`persistence-candidate.ts`, `repository.ts`). Rows: the document, its
generations (head, checkpoint and projected sequence numbers), updates, no-op
receipts, approvals, authorization epochs. Operations: initialize from the
plain document, append (browser, validated, server command), replay by
idempotency key, load, checkpoint, project; an append that would exceed the
storage budget rotates to a new generation. Hard: concurrent writers, retries
whose first answer was lost, rotation in the middle of an append, three writers
of one `revision`. Correct when history is gapless, loading rebuilds exactly
what was accepted, the documents row shows a state of that history no older than
recorded, and a key is spent once.

**Review workflow and archival** (`documents/document-workflow-service.ts`,
`document-archive-service.ts`). State: readiness, approvals, status. Operations:
readiness changes, approve an observed head, revoke, archive. Hard: people edit
while others approve or archive; edits demote and invalidate in the append's own
transaction. Correct when an approval names exactly what is shown, its trail
stays true, and archival is final.

**Delivery outboxes** (`document-workflow-notification-outbox.ts`,
`command-delivery-outbox.ts`, the closure jobs of `document-archive-service.ts`,
and their workers). State: one job row each, with attempts and a next attempt
time. Operations: enqueue or overwrite in a web transaction; select, recheck,
publish, settle, book a failure in the sidecar. Hard: the row changes between
the worker's steps; crashes between publishing and settling. Correct when
nothing is lost, nothing is given up early, and every job ends.

**Sidecar rooms** (`server/create-server.ts`, `durable-update-hook.ts`,
`main.ts`). State: rooms, connections, the frame each connection is working on,
a FIFO sequencer per room, draining. Operations: authenticate, load, join,
receive, append, apply, interrupt, close a room, publish a command, drain,
restart. Hard: everything is between awaits; connections vanish and rooms
rotate while an append is in its transaction. Correct when rooms show only
durable updates, frames are applied in order, nobody present misses an update,
and a drain saves what was accepted.

**Browser session** (`client/session-store.ts`,
`client/hocuspocus-provider-adapter.ts`, `client/deferred-resource-cleanup.ts`,
`client/use-collaboration-session.ts`). State: lifecycle, permission, pending
updates, acknowledgement barriers, the refresh of a capability. Operations:
connect, edit, checksum, acknowledge, refresh, close, clean up. Hard:
acknowledgements carry no identity, transports are lost with frames in flight,
answers to an old capability arrive late. Correct when "nothing pending" means
durable, and a permission never outlives its capability.

**Proposal commands and selective undo**
(`collaboration/proposal-command-service.ts`, `selective-undo.ts`). State:
proposals, anchors, an action ledger, captured inverses. Operations: apply a
batch, undo one change, replay either. Hard: races of two sends of one command,
content that moved since the anchor or the inverse was taken, commands that
change nothing. Correct when a proposal is accepted by exactly one standing
change, a command id names one result, what a command publishes is the document,
and undo takes back its own change only.

**Plain documents in a tab** (`components/document/DocumentShell.tsx`,
`documents/document-repository.ts`, `document-change-service.ts`,
`document-workflow-service.ts`). State: in the browser a draft, its version,
what was saved of it, the revision it is based on, the conflict dialog; on the
server one row with its revision, changes and proposals. Operations: type,
autosave, save now, retry, accept, undo, change readiness, take a newer
snapshot, copy the draft into a new document, leave. Hard: each is a request
whose answer may be late, overtaken or lost, and each answer moves the base of
the next save. Correct when no saved text of another tab is overwritten, an
editor that says "saved" is, and what is not saved is either on its way, in the
dialog or still guarded.

**Legacy proposals and changes** (`documents/document-change-service.ts`,
`proposals/*`). Proposals of plain documents, by revision compare-and-set, and
fenced off once collaboration starts. Modelled with the tabs, as far as they
use them: applying in replace mode, and undo.

**AI runs** (`ai/ai-execution.ts`, `ai-run-repository.ts`,
`recover-stale-runs.ts`). State: runs keyed by idempotency key, with execution
token, lease and result; proposals. Operations: look up, claim, retry, complete
with proposals, fail, recover stale runs. Hard: one deadline cuts off requests
whose claims and completions are still in the database. Correct when one live
attempt owns the run, its result is kept and is what everybody is answered, and
runs do not stay pending.

**AI conversations** (`conversation-repository.ts`,
`use-document-conversations.ts`). State: versioned rows with messages; in the tab
what it shows of them, a queue of calls for each conversation, retries.
Operations: begin, answer, fail, rename, archive, fork, retry, list, select.
Hard: the tab changes what it shows before anything is stored, rolls back what
failed, and reconciles answers that overtook one another. Correct when no
outcome of a command is lost, what is sent again under its key is stored once, no
transcript is called saved that is not, and no answer waits for ever.

**Capabilities and epochs** (`capability*.ts`, `authorization-repository.ts`).
State: one epoch per principal. An append compares the caller's epoch and
generation with the current ones in its own transaction. Nothing in production
raises an epoch yet.

**Limits** (`security/request-budget.ts`, `server/resource-limits.ts`).
Counters per window, connection, room and workspace. Hard: window edges,
clock skew, growth reserved and rolled back over an unload. Should hold: a
counter never exceeds its limit and returns to zero.

**Pure algorithms** (`documents/block-movement.ts`, `tiptap-replace.ts`,
`document-find.ts`). Should hold: moving a block permutes blocks, replacing an
occurrence changes that occurrence.

**Everything else**: document codec, interchange and import, templates,
project profiles, HTTP routes, React components, health and telemetry. They
convert or refuse, and keep no state that outlives a call; `PROJECT.json` gives
the reason for each.

## Modules

| module | models | extends |
| --- | --- | --- |
| `CollaborationPersistence` | the durable store of one document | |
| `AcceptedHistory` | what the store promises, without generations, checkpoints or tables | |
| `DocumentWorkflow` | readiness, approvals and archival on top of the store | `CollaborationPersistence` |
| `DeliveryOutbox` | the three outboxes of one document and its write queue | |
| `LiveRoom` | the sidecar's rooms of one document over its history | |
| `BrowserSession` | one tab's session, with transport, sidecar and issuer around it | |
| `AiRuns` | the requests, the run and the proposals of one idempotency key | |
| `ProposalCommands` | the handlers of proposal commands over a collaborative document | |
| `DocumentDrafts` | tabs that edit one plain document over a network | |
| `Conversations` | one command's conversation in one tab, its row and its fork, beside another tab | |
| `ConversationsInvariant` | the inductive invariant of `Conversations` | `Conversations` |
| `*_proofs` | theorems about the module they are named for | that module (`ConversationsInvariant` for the last), `TLAPS` |
| `MC*` | instances for TLC | that module |

**`CollaborationPersistence`.** One action per operation, because each is one
transaction; a refused call rolls back and is a stutter. A Yjs document is a
join-semilattice, so a document state is a set of elementary operations, an
update is a set of operations and applying is union. That is the one
abstraction of data: sequence numbers, generations, keys, checkpoints, tails and
budgets are kept as the code has them. `Bytes` counts an update's operations
plus one, as an encoding has a header and grows with its content.
`CommitChangedAppend` is the whole append: budget check, rotation with its
projection, head advance, update row, invalidated approval, demotion, the
publication that a server command's `lifecycle.commit` callback does in the same
transaction, and the single revision step. `CommitNoopAppend` publishes for a
command too, without recording it: `projectedSeq` stays. `answers` and
`bootstrap` are history variables.

**`AcceptedHistory`.** The contract: accepted updates form one sequence that
only grows, a key is spent once, everyone who asks about a key hears the same
position, readers see a prefix no shorter than the recorded one, and what is
recorded only advances. A no-op command may show the whole sequence without
recording that. `ImplementsAcceptedHistory` is the refinement: rotation,
checkpoints and retries are stutters of it.

**`DocumentWorkflow`.** Extends the store's state with the two jobs a command
leaves. A command on a collaborative document is judged against the snapshot
that `withInitializedWrite` loads; on a plain one against the row. Project
profiles can only refuse, so the model allows what any profile might.

**`DeliveryOutbox`.** A step is what runs between two awaits of a worker:
select, wait for the queue, recheck, publish, settle. The three outboxes differ
in what overwrites a row and in the fence of their deletion (the closure job
compares no attempts), and share the retry accounting. `announced` and
`failures` are history variables.

**`LiveRoom`.** A step is the code between two awaits of a hook. The store is
a history that only grows, fenced by the current generation — what
`CollaborationPersistence` is shown to provide. Hocuspocus is external: it
handles the frames of a connection in order, calls `afterHandleMessage` after it
applied one, shares a load among the connections that wait for it, and otherwise
may do anything it likes, such as keeping an empty room in memory
(`LingeringRooms`).

**`BrowserSession`.** One thread, so an action is one callback. The provider,
the websocket, the sidecar and the issuer are modelled from how the adapter uses
them: messages arrive in order, a lost transport loses what was in flight, the
first acknowledgement on a transport answers the handshake. `grantedBy` is a
history variable.

**`AiRuns`.** A request is where it stands in `executeAiOperation` and inside
`claimAiRun`. Its lifecycle is over when it has been answered; phases after that
are the promises it left behind: a claim that lands late, a completion that
commits late, and `failing`, the call of `failAiRun` that nobody awaits. Time is
a clock, because leases, stale windows and the instant captured at the start of
a claim are compared with one another. The execution token is the request's
name, for a request claims at most once. The operation's fingerprint is its
payload with the barrier in it; a barrier is a head of the document, 0 on a
plain one.

**`ProposalCommands`.** A step of a handler ends where the code awaits: resolve
(read the proposals or the change), classify the command id, commit, and the one
repetition after a conflict or an outcome that got lost; a handler may die
between any two. The commit is one transaction of the store: the update, its
receipt, the ledger row, the change with its captured inverse, the proposals
and, when the update changes nothing, the publication of the head. The text is
a set of Yjs items in slots (the text of a target range, the place below its
block), each carrying the number of the update that inserted it. An undo deletes
items by identity and inserts new ones for what was removed: that is what makes
a text that reads the same differ from the same text.

**`DocumentDrafts`.** The tabs' side is one thread per tab, so an action is one
callback; the server's side is one transaction per request. Between them is a
set of requests, each with its answer once it has one: anything may overtake
anything. A content is a set of marks (the n-th edit of a tab, the passage a
proposal targets, what replaced it), so that "overwritten" can be asked of each
mark. What users and the network may do is given by a *story*, one for each
group of clicks; `Init` chooses it, and a run is the sum of its stories.

**`Conversations`.** The tab is one thread. A call is served in the steps of its
handler: mutations read the row, then update it by version, then read it back,
and a call that the tab has given up may still be acted on (`stray`). What runs
between an answer and the next call of its queue is one turn of the event loop,
so `Quiet` lets nothing in between. `retryLastMutation` neither waits for an
earlier press nor is its button disabled, so presses overlap: each has a slot of
its own for the refresh or the creation it waits for. A row is the sequence of
its versions: "what version 2 said" is then a lookup. Messages are the user's, the
answers stored under the k-th mutation key, and the ones only the tab has. Lists
are picked out of sequences by position (`Those`, `Filtered`). Stories bound it as
they do the drafts.

Mutants: next to a definition, a variant of it with a suffix
(`Enqueue_KeepsAttempts`) is a plausible bug. Each property is shown to fail
when the definition is replaced by its variant.

## Runs, bounds and fairness

| run | asks | shows |
| --- | --- | --- |
| `persistence` | the store under appends by two kinds of sender with reused keys, with projections, checkpoints and two rotations | chain, gapless history, exact recovery, a row that is never torn nor older than recorded, budget, revisions, keys, refinement |
| `workflow` | decisions, edits, a rotation and archival interleave | approvals bind content, trails stay true, archival freezes, announcements only advance |
| `outboxes` | web commits, deliveries, failures and crashes | nothing lost, budgets kept apart, every job ends |
| `sidecar` | connections, a command, a rotation, archival, drain, restart | durable first, in order, nobody left behind, drains save, every frame ends |
| `browser` | edits through outages, refreshes, refusals, downgrade, unmount | honest guard, fresh authority, edits settle |
| `ai_runs` | two requests with one key, new or failed before, timeouts, late claims, crashes, recovery | one live attempt, one result kept for good, runs settle |
| `proposals` | two handlers, batches, reused ids, lost commits, peers' edits, rotation | one standing change, one result, honest publication |
| `drafts` | two tabs, saves, proposals, undo, readiness, copies, a bad network | nothing of the document overwritten, saved means saved, copies complete, editors settle |
| `conversations` | one command's conversation through lost calls, retries pressed one by one and at once, another tab, a fork, a late list | no outcome lost, no key stored twice, saved transcripts are stored, answers settle |
| `offline_edits` | a documented promise of offline editing | violated, see findings |
| `undo_of_retyped` | a documented promise of undo | violated, see findings |
| `stale_adoption` | a documented promise about two tabs | violated, see findings |

**Bounds.** Each is a named constant of its module.

- Store: three keys and updates that overlap (`{a}`, `{a, b}`, `{c}`), a
  checkpoint limit of 4 and a cumulative limit of 5. A checkpoint is smaller than
  the overlapping tail it replaces, so three updates rotate twice and a retired
  generation has a retired successor; an update that adds nothing is a no-op.
  Any of these contents may have been saved before collaboration starts. Two
  origins make a key that is sent again differ in its sender. One principal
  stands for all: the model compares origin and author as one record.
- Workflow: two edits and a cumulative limit of 5. A small second edit leaves a
  tail of two updates, which is what an approval of an older head needs to be
  wrong about; a large one rotates. Two approvals, so that one is invalidated
  and given again. A browser and a proposal command write, for a command publishes
  what a browser's edit does not. `MaxRevision = 5` bounds legacy saves and
  readiness changes.
- Outboxes: all three share the queue; two attempts distinguish a first, a
  retried and an exhausted publication; two versions make an overwrite; one
  fault may fall between any two steps.
- Sidecar: two connections, so that one may hold the turn while the other waits,
  joins or leaves; one browser update, resent, and one command; two generations.
- AI runs: two requests race to claim a new run, or to retry one that an earlier
  request failed (the initial states have both); three ticks let a lease expire, a
  run become stale and a retry begin after either; two updates of the document, so
  that barriers 0, 1 and 2 are three operations under one key; two faults, each a
  crash or a failure that is not stored. The proofs hold for any number of requests.
- Browser: two edits (one may be in a barrier while the other is on its own),
  two capabilities (a refresh), two failures (one during the recovery from
  another). `offline_edits` needs only one edit.
- Proposals: two handlers race; two proposals in two regions, one of which
  changes nothing when it replaces; two command ids, of which one is sent with two
  bodies; two generations, and three entries, so that a rotation falls between a command
  and its retry. `undo_of_retyped` stacks two proposals in one region and undoes them.
- Drafts: two tabs and one proposal. Seven stories bound edits (`edits`), clicks
  and losses: each has at most three edits and three clicks per tab and one lost
  request or answer. In the story of shared copies another
  client edits the copy and an answer about it may be lost.
- Conversations: one command, one fork, two titles. Seven stories bound edits,
  changes by another tab, lost calls, selections and presses of Retry: two edits
  and a loss (a roll-back beside another edit), a loss and two presses (a creation
  that is tried again twice at once), a loss and another tab (a conflict, or a
  replay that a conflict interrupts), two losses with three presses, a fork that is
  tried again beside a rename, a list that arrives late. Two presses may be under
  way at once.

**Fairness.** Liveness is claimed only under what the code's scheduling gives:

- outboxes: a worker reschedules itself after every pass, whether it threw or
  not (`scheduleTimeout` in the worker's `finally`); transactions end; time
  passes. Web processes, successful publications and clients owe nothing.
- sidecar: a promise whose transaction ends is resumed, and Hocuspocus calls the
  hook after it applied a frame. Connections, commands and restarts owe nothing.
- browser: callbacks run; an outage ends; the websocket's own reconnection loop
  reconnects while it is enabled; the sidecar answers a connection that holds a
  capability. Failures are bounded by `MaxOutages`, so "eventually" speaks of a
  time when no new failure occurs.
- AI runs: queries and transactions come back, timers fire, time passes. The
  provider may never answer, clients may stay or leave, and nobody is obliged to
  run the recovery command: `RunsSettle` speaks of runs without a fault.
- drafts: each tab's autosave timer runs, requests are served and their answers
  taken, unless they are lost (a lost one is answered as failed). Workflow reads
  repeat for ever and are served in their own right, so that nothing else is
  owed to them. Users owe nothing: what they stop doing is what `DraftsSettle`
  excuses (a conflict dialog that nobody answers, a failed save that nobody
  retries).
- conversations: calls are served and their answers taken, unless they are lost;
  a call of a queue starts, and a press of Retry that began goes on. Users owe
  nothing: `AnswerSettles` is content with a tab at rest that offers the retry.
- proposals: none; its properties are safety properties.

**Deadlock** is checked for the store and the outboxes, whose commands and
workers can always take a step. The other configurations disable it: a document
at its bounds after archival, a drained sidecar whose connections have left, a
closed tab, commands and requests that have all been answered have nothing left
to do.

## Findings

1. **An outage that outlasts a capability ends the session**
   (`offline_edits`). The refresh timer stops the websocket, the issuer is out of
   reach, and the failure path sets no timer and reconnects nothing. The network
   returns and the edit stays where it is (`hocuspocus-provider-adapter.ts:482`,
   against `docs/realtime-collaboration.md:16`).
2. **Undo may leave two texts standing** (`undo_of_retyped`). The check before
   an undo compares what the range reads; the inverse deletes the items the
   command inserted, by id. When the text was replaced and put back, by a
   second proposal that was applied and undone or by hand, the check passes, the
   deletions find nothing, and the original is inserted beside the text it should
   replace (`selective-undo.ts:102`, against `docs/realtime-collaboration.md:262`
   and `selective-undo.test.ts:182`).
3. **A late answer may carry a tab past another tab's save** (`stale_adoption`).
   A tab takes a newer snapshot while its own accept request is under way; the
   late answer brings back the older content, while the base, which only
   advances, keeps the newer revision. The next save overwrites the other tab's
   edit without a conflict (`DocumentShell.tsx:2407`, against
   `docs/architecture-hardening.md:90`). The pass run holds without that
   replacement (`DraftReplacedDuringCommands = FALSE`), so this is the only way
   the model finds. The application never refreshes the props of the document that is
   open; the component is tested to take them.

Observations that no run is kept for. *Rooms:* when an append succeeds but its
connection has gone, the hook closes the room so that browsers reload it, and
closing reaches attached connections only. If the connection was the last one,
a reconnecting browser may already have read its snapshot
(`create-server.ts:121`), and joins a room without the update, against
`docs/realtime-collaboration.md:203`; `NobodyLeftBehind` therefore speaks of
what is accepted after a connection has joined. *Conversations* (these
behaviours are in the model, and no property claims that they do not occur): a
fork that is tried again while a rename of its source is under way is dropped, and
the rename's answer, which left the session `saving` for the fork to settle, leaves
it so for ever. Two renames that both fail leave the session labelled saved with the first title,
which was never stored, while the second is offered again
(`docs/architecture-hardening.md:155` says the label waits for the adapter). A
rename under the local id leaves a retry that can never succeed once the
conversation has its row. Pressing Retry twice after a creation
failed stores the answer twice, each creation that comes back drawing a mutation
key (`persistCreate`; `AiWorkspacePanel.tsx:293` never disables the button). A fork's answer is
put before a list that shows the fork already. An edit is lost in four ways,
all in `use-document-conversations.ts`: Retry of an older rename, pressed while
a newer one is in flight, clears the newer one's retry (`renameConversation`);
when that press's refresh fails, the older retry is registered over the newer
one (`retryAfterRefresh`); two queues of one conversation, one under the local id
and one under its own, do the same to each other; and a second edit under the
local id that waits behind one in flight when the creation is answered is
dropped (`if (!latest) return`). An edit that waits when the list drops a
conversation that another tab archived is given up with it. So nothing is claimed
of edits, and of titles that are shown as saved; `SavedIsStored` speaks of the
transcript. *Elsewhere:* a plain document that was approved
before collaboration started has no approval to revoke, so no command moves it
out of `approved` until an edit demotes it. A checkpoint of an archived document
may still publish content that had been accepted. A room closed after an
interrupted frame is closed with the reason `room_rotated`, on which browsers
become fatal rather than reconnect. A session whose permission is reduced to
reading keeps the edits it could not send pending for ever. A failed initial
connection is not retried. After one reconnection, which every refresh is, a
synchronized tab reports each later edit as offline until it is acknowledged,
for the lifecycle stays `reconnecting`. An undo that is retried after its
document has rotated is answered `idempotency_conflict` rather than with its
result. Overlapping autosaves of one tab can conflict with each other, and so
can a save and a readiness change: the dialog then shows the user their own
text. When the answer to a recovery copy is lost and somebody edits the copy
before the retry, the retry overwrites that edit, for it takes the copy's
current revision as its own (`DocumentShell.tsx:1921-1926`); `NothingOverwritten`
therefore claims nothing of copies. After a no-op command has published the head,
`project` may write an older state back, for `projectedSeq` did not move; it has
no caller in production (`docs/realtime-collaboration.md:116`). The branch of `saveDraft` for a conflict whose
content was saved already has no state in the model that reaches it. A test of
AI runs is titled "keeps timeout or abort failures non-reclaimable until
stale-run recovery explicitly releases them" (`ai-run-repository.test.ts`); what
releases such a run is that its lease expires, and recovery never looks at
failed runs.

## Proofs

Checked by TLAPS for every value of the constants, from the modules' `ASSUME`s:
finite sets where something is counted, natural-number bounds, a checkpoint
limit within the cumulative one, a positive number of attempts and of
generations, an AI stale window no shorter than the deadline, and no
plain-document tab that is named like a mark that no tab types. Three theorems
have hypotheses of their own, stated with them: `GuardIsHonest`,
`NothingIsOverwritten` and `CopiesAreComplete`.

**The store** (the first part of `DocumentWorkflow_proofs`, which extends it):
all that its run checks:
`TypeOK`, `GaplessHistory`, `RecoveryExact`, `ProjectionExact`, `KeysSpentOnce`,
`StorageBounded`, the action property `RevisionCountsChanges` and the refinement
`ImplementsAcceptedHistory`. None of the invariants is inductive by
itself. `Loadable` needs the tail to be exactly the numbers between checkpoint
and head, which needs updates to be placed in the generation whose range
contains them; projection in the middle of a rotation needs the retired
generation to be recoverable; a replay is sound only because the generation
fence of every receipt still holds. `IInv` collects these:

- `Chained` rows: exactly the newest generation is current, and ranges follow
  one another;
- placed and numbered updates: `1 .. head`, each inside its generation;
- exact checkpoints: a generation's checkpoint is the history through its
  checkpoint number;
- a documents row that shows a state of the history no older than `projectedSeq`;
  keys spent once; every receipt inside its fence.

The argument is by layers. `LoadExact` says what loading returns from consistent
rows; `RotateConsistent`, `ExtendConsistent` and `PublishConsistent` say what the
three ways of changing rows preserve; `FencedGrown` says that fences survive when
heads only grow. Each action is a composition of these, so the step lemmas
(`NoopStep`, `ChangedStep`, `CheckpointStep`, `ProjectStep`, ...) are short.

The storage bound counts bytes: the tail's updates, and the pairs of an update
and an operation it carries (`Carried`), so that one more update adds exactly its
own bytes (`TailGrown`). `StorageInv` says that all that is counted is finite and
that the newest generation keeps the budget; an append that would pass it has
rotated first, and an update that does not fit beside the checkpoint of that
rotation was refused (`WithinStorageBudget`).

`Refinement` shows that every step of the store is a step of `AcceptedHistory`,
or a stutter of it. The mapping reads the log off the update rows, so its lemmas
are about that: the rows number `1 .. head` without a gap (`LogFacts`), a step
that accepts nothing leaves the log alone (`LogKept`), one that accepts appends
to it (`LogGrown`), and the published content is the state after a prefix
(`StateOfPrefix`). An append then maps to `Accept`, `AcceptNothing` or an
answer, with the publication that its rotation or its command made; checkpoints
are stutters, or projections.

**The outboxes** (`DeliveryOutbox_proofs`): `TypeOK`, `NothingLost`,
`FullBudget`, and that deliveries of one document exclude each other
(`SerializesDelivery`). The invariant relates, for each outbox, the row,
the last committed version, what was announced, and the copy of the row that the
worker carries: a copy that still matches the fence is of the version in the
row, so a deletion it permits can only remove what was announced, and a failure
it books belongs to that version.

**The sidecar** (`LiveRoom_proofs`): `TypeOK`, `DurableFirst`, `Sequenced`,
`NobodyLeftBehind`, `DrainSavesUpdates`. The heart is `Served`: for every
attached connection, each entry accepted since it joined is in its room, on its
way there, or about to close the room. It is preserved because what ends a
frame without applying it closes the room, what removes a publication has
applied it or closed older rooms, and a rotation leaves a frame or a job that
will close them. `Ordered` (entries by generation) is what lets a publication
know which rooms are older.

**AI runs** (`AiRuns_proofs`): `TypeOK`, `OneAttempt`, `OneResult` and the action
property `CompletedForGood`. The invariant is stated per request (`Sound`): what
a live request's phase implies of the row, of the instant it started and of the
clock. Recovery cannot take a live attempt because the row is no older than the
request, the request no older than the stale window allows (`TimesAssumption`
and the guard of `Tick`: the window is at least the deadline, and timers are not
late by more than the difference), and a stale row is older than that. A step
that changes the row finds it pending for its own request, or claimed by nobody;
so whatever the invariant says of other requests is untouched (`RowStep`).

**Proposal commands** (`ProposalCommands_proofs`): `TypeOK`, `OneResult`,
`AcceptedByOneChange` and the action property
`CommandPublishes`, for any number of handlers, proposals,
regions, texts and commands. `IInv` adds what they rest on: every
action names a change and has its receipt, and the change an undo names is undone
(`Ledger`), and the projection is never ahead of the head (`Behind`). Only a
commit writes the ledger; a commit that is not a replay found no receipt of its
command in the same transaction, so by `Ledger` it finds no action either, which
is why its result is the only one.

**The plain document's tabs** (`DocumentDrafts_proofs`): `UnsavedIsGuarded`, the
action property `EditsKept` and the type invariant, for any number of tabs,
proposals and stories. `Held` is everything that some revision contains.
`TabSound` says of a tab that shows "saved", or whose version is the persisted
one, that its own marks are held. That is not inductive, because "saved" is
concluded from a late answer: `Sound` says of a request that writes the tab's
current version that it carries the tab's own marks or they are held already,
and of an answered one that what it sent is held. What a tab may become is
summed up in `Steps` (its draft of one version has nothing new that is not held,
and forgets nothing that is not), each callback is shown to be such a step, and
one lemma shows that such a step preserves the invariant.

`NothingIsOverwritten` is about the others' marks, and needs the base of every
draft related to what the draft contains. `Founded` says that a draft has, of
the marks that other tabs wrote, those of the revision that its base names;
`RequestFounded` says it of what a request sends and expects, and of an answer
and the revision it carries. `Level` says where this is easy to lose: a base that
moves on without the draft, after a save or a readiness change, may do so only
over revisions between which nobody else wrote. The theorem has one
hypothesis, and it is needed: no draft is replaced while a command is under
way (`~DraftReplacedDuringCommands`); the run `stale_adoption` is the
counterexample. It speaks of the document only: what a tab writes into its
recovery copy may drop what others wrote there (see the observations).

`CopiesAreComplete` is about a tab's own marks, and follows them from the draft
into the copy. Its invariant has two parts. `OInv` says what a text has to have
before it may stand for the draft (`Holds`): the draft's own marks, and, when the
editor shows "saved" and a page rendered again may bring another revision, those
of every revision that the tab may still be shown, and of every write that may
make one (`Within`). The text of a conflict holds the draft; so does what is sent
to a copy, as long as the tab's version is the one it was sent with. That needs
the order of a tab's own writes: the one whose answer counts is the last that was
done (`Latest`), and no save on its way is of a later version than the one asked
for last (`SavesOrdered`). `KInv` says what is known of the copies themselves:
what an answer tells is still true of the copy, for every other save into it
expects an earlier revision and will fail (`CopyAnswered`); the tab's revision of
its copy has been reached, and a creation key that was never answered has no
saves (`TabKnows`). Since a tab has one request about a copy under way at a time,
the requests that it gave up and that the server may still see are the only
others, and these lag behind. So the tab that leaves does so on an answer that
names its own draft, and `TabLeft` keeps the copy complete whatever arrives
afterwards: other clients only add to it. It assumes
`~DraftReplacedDuringCommands` too; no counterexample is known without it, but
`Latest` fails there.

**The workflow** (`DocumentWorkflow_proofs`): all that its run checks, and the
type invariant: `ApprovalBindsContent`, `ApprovalTrail` and the action properties `ArchiveFreezes` and `NotificationsAdvance`. `WInv`
adds to the store's `IInv` that approvals name positions the history has reached
(`ApprovalsPlaced`), that an approval in force is the newest and sits at the head
(`ApprovalInForce`), and that jobs never run ahead of the document (`JobsSound`).
The store's actions are used through `StoreEffect`: either nothing is accepted
(`Quiet`), or one update is, at the next number, and whatever was approved falls
(`Accepts`). So the workflow's proof repeats nothing of the store's.
`WorkflowKeepsStore` carries the store's own properties over to the composition,
and `WorkflowRefinement` its contract: a decision or an archival is a stutter of
`AcceptedHistory`, so what the store promises holds under people who approve,
return and archive as well.

**One tab's session** (`BrowserSession_proofs`): `TypeOK` and `FreshAuthority`
in general, `GuardHonest` and `CleanupWaits` under the assumption on the
provider that the next section names (`~KeepsOfflineFrames`). `AInv` says that a
transport is served with the capability at hand or its events are ignored, and
that there is no capability while one is replaced. `QInv` is a count. *Slots*
are the updates that wait for an acknowledgement: the pending ones, and one
while the barrier of a new transport is awaited. *Frames* are what the sidecar
has yet to handle, with the full state that the tab still has to send. On a live
transport slots are never fewer than acknowledgements on their way and frames
together; and there is one more, or everything not durable is in some frame. So
an acknowledgement, though it names nothing, never takes the last slot before
every edit is durable.

**Conversations** (`Conversations_proofs`): `TypeOK`, `OutcomeRetained` and
`SavedIsStored`, for any titles and stories and any number of presses of Retry at
once. The invariant, `CInv`, has a module of its own, for it is long: the rows,
the calls, the queues, the retries and the sessions each hold something about the
others. A call that was acted on has left what it carries in the rows, so an
answer that comes late is still true of them (`Effect`), because transcripts only
grow and versions are never rewritten (`Growth`). The call of a queue is the one
of its first operation (`HeadCalls`), so what an answer settles is what was sent.
What is shown of a stored conversation, and what an edit of it would be rolled
back to, is one of its versions with that version's transcript where it is
called saved (`Shape`, `HeldIn`): every way of writing a session, an answer, a
list, a transcript, a refresh or a roll-back, is shown to keep that, and
`ShownAsSaved` follows. That nothing is stored twice under a key rests on a
transcript naming no message twice (`Transcripts`): an append and a creation find
what they are sent again. `OutcomeUnderWay` is then carried from step to step:
once the conversation has its row, what the command came to is in it, or an
operation of the local queue or a retry holds it. Before that a creation is under way
or offered again (`AttemptSound`), also where several are tried at once, and the
one that comes back hands the outcome on. Neither says anything of edits.

**Only model-checked.**

- Everything under fairness, for liveness and ENABLED are beyond this prover's
  reach: `JobsEnd`, `FramesEnd`, `EditsSettle`, `RunsSettle`, `DraftsSettle`,
  `AnswerSettles`.

## What is assumed, and what is left out

- **SQLite** serializes `BEGIN IMMEDIATE` transactions and commits them
  atomically. Contention errors are retried or surface as refused calls.
- **Yjs** updates commute, are idempotent, and merge; a document is what it has
  applied.
- **Hocuspocus** as described under `LiveRoom`. In particular a frame that was
  applied is followed by `afterHandleMessage`; if it were not, the room's turn
  would never be passed on.
- **The provider in the browser** does not send, on a new transport, frames
  written while there was none (`KeepsOfflineFrames = FALSE`). The adapter
  counts on that: with `TRUE`, an acknowledgement of such a frame counts for a
  later edit and TLC violates `GuardHonest` within sixteen states. Frames sent
  early on a connecting transport are allowed, and harmless.
- **Clocks** of the web processes agree, and a statement whose call threw did
  not commit, except where the model says it may have (`AiRuns`: a process dies
  after its transaction).
- **Checksums** are collision-free, and capabilities cannot be forged.
- **Left out of modelled parts**: token refresh on a live connection, awareness,
  the resource registry and the health endpoint of the sidecar; document
  creation and listing; flushing, the schema fingerprint and workflow-changed
  listeners of the session; wall-clock delays, which are the choice of when
  something becomes due or expires.
- **Plain documents**: proposals are applied in replace mode only; typing may
  remove a proposal's passage but not what a tab typed before; moving to a
  recovery copy is one step, and the requests of a tab that has left go on
  without it; a copy that was deleted before it is saved again is not modelled.
- **Conversations**: one command in one tab, and its fork; titles and messages
  are values; older pages, limits, retention, another document in the same tab
  and the adapter for local storage are left out, and the order of the list is
  abstracted, for no property depends on it.
- **Hazards without a property** (in `PROJECT.json` with their lines): a frame
  that Hocuspocus applies without calling `afterHandleMessage` would hold its
  room's turn for ever, which depends on what Hocuspocus does, and that is not in
  the repository; a checksum that cannot be computed, after which the
  session is fatal and tells the user to reload; two presses of Retry that store
  an answer twice, which happens; request budgets at the edge of a window.

- **Not modelled**: the components marked so in `PROJECT.json`, with the reason.

## Plan

Done, in this order: the store, its contract and proofs; the workflow; the
outboxes; the sidecar's rooms and the browser session; AI runs; proposal
commands with selective undo; the tabs of a plain document; AI conversations;
proofs of the workflow, proposal commands, tabs, browser session and conversations; the
refinements of `AcceptedHistory`; the storage bound; that no tab overwrites
another in the document; that a recovery copy is complete; that a conversation's
outcome is kept and settles, and that the transcript it calls saved is stored.

What would come next:

1. `ResourceLimits`: the sidecar's registry and the request budget. Counters
   equal what is held, limits hold across rollbacks and unloads, a window gives
   out at most its budget.
2. Token refresh on a live connection, in `LiveRoom`: a connection outlives its
   capability only as long as the refresh allows.
3. The navigation guard; several conversations in one tab.
4. The editing algorithms as operators against a reference definition: moving a
   block permutes blocks, replacing an occurrence changes that occurrence.
