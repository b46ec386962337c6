---------------------------- MODULE Conversations ----------------------------
(***************************************************************************)
(* AI conversations: one command in one tab (use-document-conversations.ts)*)
(* and the rows it is stored in (conversation-repository.ts), which other  *)
(* tabs change too.                                                        *)
(*                                                                         *)
(* The tab shows a conversation before it is stored, under a local id,     *)
(* appends the assistant's answer to what it shows, and renames, archives  *)
(* and forks.  What it sends for one conversation goes through a queue, one*)
(* call at a time; a call that fails leaves a retry, which after a conflict*)
(* reads the conversation again first.  A call may be lost before or after *)
(* the server acted on it, and then be acted on later.                     *)
(***************************************************************************)
EXTENDS Integers, Sequences, FiniteSets, SequencesExt

CONSTANTS
    Titles, FirstTitle,   \* titles; the one a command begins with
    Stories,  \* bounds: how many renames and archivings, forks, selections, presses
              \* of Retry, changes by other tabs and lost calls there are, and
              \* whether the page could list the conversations; Init chooses one
    Presses   \* bound: so many presses of Retry may be under way at once

ASSUME TitlesAssumption == FirstTitle \in Titles
ASSUME PressesAssumption ==
    Presses \cap {"local", "c", "create", "list", "detail"} = {}
ASSUME StoriesAssumption ==
    Stories \subseteq [edits : Nat, forks : Nat, selects : Nat, presses : Nat, other : Nat,
                      losses : Nat, load : {"loaded", "failed"}]

VARIABLES
    rows,      \* every version of each stored conversation; the last is its row
    sessions,  \* what the tab shows, in order
    attempt,   \* the command: its answer, and the canonical version it knows
    queue,     \* what waits for, or makes, a call, by mutation key
    net,       \* calls in flight
    stray,     \* calls the tab has given up and the server may still act on
    retries,   \* pendingRetriesRef
    pressing,  \* for each press, the retry it is at, until that is made again
    load,      \* loadState of the list
    selected,  \* activeDetailIdRef
    left       \* what the story has left

page == <<load, selected>>
tab == <<sessions, attempt, queue, retries, pressing, page>>
vars == <<rows, net, stray, tab, left>>

-----------------------------------------------------------------------------
(* Data.  "c" is the row of the command's conversation, "f" of its fork,   *)
(* "local" the id under which the tab shows what is not stored yet.        *)

Stored == {"c", "f"}
Fields == {"title", "archived", "status"}
Keys == {"local", "c"}
Slots == Keys \cup {"create", "list", "detail"} \cup Presses

\* Messages are numbers: 0 the user's, k > 0 an answer stored under the k-th
\* mutation key; and what only the tab has.
PendingUser == -1
PendingAnswer == -2

Row == [title : Titles, archived : {"no", "yes"}, status : {"idle", "failed"},
        messages : Seq(Nat)]

Session ==
    [id : Stored \cup {"local"}, title : Titles, archived : {"no", "yes"},
     status : {"running", "idle", "failed"}, sync : {"saving", "unsaved", "saved"},
     messages : Seq(Int), transcript : {"idle", "loading", "loaded", "failed"},
     version : Nat]

NoCall == [phase |-> "none"]
NoRetry == [what |-> "none"]

\* value is the new value of a field, or the title of a fork; key a mutation
\* key, or the message a fork goes through; seen, the versions that were read.
Call(what, id, value, key, expected) ==
    [what |-> what, id |-> id, value |-> value, key |-> key,
     expected |-> expected, phase |-> "sent", outcome |-> "none",
     seen |-> [i \in Stored |-> 0]]

Retry == [what : Fields \cup {"create", "append", "fork"}, id : Stored \cup {"local"},
          value : Titles \cup {"yes", "failed", "none"}, key : Nat,
          queue : Keys, refresh : BOOLEAN]

\* The map's keys
Same(r, q) == r.what = q.what /\ r.id = q.id

\* Rows, sessions, calls and retries have the shapes the code gives them, and
\* a retry key is registered once.
TypeOK ==
    /\ \A id \in Stored : \A n \in DOMAIN rows[id] : rows[id][n] \in Row
    /\ \A n \in DOMAIN sessions : sessions[n] \in Session
    /\ attempt \in [begun : BOOLEAN, canonical : Nat, answered : BOOLEAN,
                    target : {"running", "idle", "failed"}, appends : Nat]
    /\ DOMAIN queue = Keys /\ DOMAIN net = Slots
    /\ retries \subseteq Retry /\ \A r, q \in retries : Same(r, q) => r = q
    /\ pressing \in [Presses -> Retry \cup {NoRetry}]
    /\ load \in {"failed", "loading", "loaded"}

\* The page was rendered with an empty list, or could not list.
Init ==
    /\ rows = [id \in Stored |-> <<>>]
    /\ sessions = <<>>
    /\ attempt = [begun |-> FALSE, canonical |-> 0, answered |-> FALSE,
                  target |-> "running", appends |-> 0]
    /\ queue = [k \in Keys |-> <<>>]
    /\ net = [s \in Slots |-> NoCall]
    /\ stray = {}
    /\ retries = {}
    /\ pressing = [p \in Presses |-> NoRetry]
    /\ left \in Stories
    /\ load = left.load
    /\ selected = "none"

-----------------------------------------------------------------------------
(* The server.                                                             *)

Version(id) == Len(rows[id])
Missing(id) == id \notin Stored \/ Version(id) = 0

WithVersion(id, row) == [rows EXCEPT ![id] = Append(@, row)]

Refuse(call, reason) ==
    [rows |-> rows,
     call |-> [call EXCEPT !.phase = "answered", !.outcome = reason]]

Done(call, newRows) ==
    [rows |-> newRows, call |-> [call EXCEPT !.phase = "done"]]

\* The row is read for the answer after the transaction, on its own.
ReadBack(call) ==
    [rows |-> rows,
     call |-> [call EXCEPT !.phase = "answered", !.outcome = "ok",
                           !.seen = [i \in Stored |-> Version(i)]]]

\* create: the creation key finds what an earlier call created.
Create(call) ==
    Done(call,
         IF Version("c") > 0 THEN rows
         ELSE WithVersion("c", [title |-> FirstTitle, archived |-> "no",
                                status |-> "idle", messages |-> <<0>>]))

\* append: a mutation key that is stored already is answered as a replay,
\* whatever the version.
AlreadyAppended(call) ==
    \E n \in DOMAIN Last(rows[call.id]).messages :
        Last(rows[call.id]).messages[n] = call.key

AppendMessage(call) ==
    IF Missing(call.id) THEN Refuse(call, "not_found")
    ELSE IF AlreadyAppended(call) THEN Done(call, rows)
    ELSE IF Version(call.id) # call.expected THEN Refuse(call, "conflict")
    ELSE Done(call, WithVersion(call.id,
            [Last(rows[call.id]) EXCEPT !.messages = Append(@, call.key),
                                        !.status = "idle"]))

\* mutateConversation looks first whether there is anything to change ...
CheckField(call) ==
    IF Missing(call.id) THEN Refuse(call, "not_found")
    ELSE IF Last(rows[call.id])[call.what] = call.value THEN Done(call, rows)
    ELSE [rows |-> rows, call |-> [call EXCEPT !.phase = "write"]]

\* ... and then updates the row if it has the expected version.
WriteField(call) ==
    IF Version(call.id) # call.expected THEN Refuse(call, "conflict")
    ELSE Done(call, WithVersion(call.id,
            [Last(rows[call.id]) EXCEPT ![call.what] = call.value]))

\* fork: the messages through the selected one.
ForkThrough(call) ==
    LET source == Last(rows[call.id]).messages
        through == CHOOSE n \in DOMAIN source : source[n] = call.key
    IN  IF Version("f") > 0 THEN Done(call, rows)
        ELSE Done(call, WithVersion("f",
                [title |-> call.value, archived |-> "no", status |-> "idle",
                 messages |-> SubSeq(source, 1, through)]))

Handled(call) ==
    IF call.phase = "done" THEN ReadBack(call)
    ELSE IF call.phase = "write" THEN WriteField(call)
    ELSE CASE call.what = "create" -> Create(call)
           [] call.what = "append" -> AppendMessage(call)
           [] call.what \in Fields -> CheckField(call)
           [] call.what = "fork" -> ForkThrough(call)
           [] call.what = "get" /\ Missing(call.id) -> Refuse(call, "not_found")
           [] OTHER -> ReadBack(call)

Serve(s) ==
    /\ net[s].phase \in {"sent", "write", "done"}
    /\ rows' = Handled(net[s]).rows
    /\ net' = [net EXCEPT ![s] = Handled(net[s]).call]
    /\ UNCHANGED <<stray, tab, left>>

ServeStray(call) ==
    /\ rows' = Handled(call).rows
    /\ stray' = (stray \ {call}) \cup
           {c \in {Handled(call).call} : c.phase = "write"}
    /\ UNCHANGED <<net, tab, left>>

\* The call fails on the way there or back.
Lose(s) ==
    /\ net[s].phase # "none" /\ net[s].outcome # "unavailable"
    /\ left.losses > 0                                 \* bound
    /\ left' = [left EXCEPT !.losses = @ - 1]
    /\ net' = [net EXCEPT ![s].phase = "answered", ![s].outcome = "unavailable"]
    /\ stray' = IF net[s].phase \in {"sent", "write"}
                   /\ net[s].what \notin {"get", "list"}
                THEN stray \cup {net[s]} ELSE stray
    /\ UNCHANGED <<rows, tab>>

\* Another tab renames the conversation or archives it.
OtherTab ==
    /\ Version("c") > 0
    /\ left.other > 0                                   \* bound
    /\ left' = [left EXCEPT !.other = @ - 1]
    /\ \/ \E title \in Titles \ {Last(rows["c"]).title} :
            rows' = WithVersion("c", [Last(rows["c"]) EXCEPT !.title = title])
       \/ /\ Last(rows["c"]).archived = "no"
          /\ rows' = WithVersion("c", [Last(rows["c"]) EXCEPT !.archived = "yes"])
    /\ UNCHANGED <<net, stray, tab>>

-----------------------------------------------------------------------------
(* What the tab makes of what it shows and of what it is answered.         *)

\* toDocumentConversationSession: a transcript, or a summary without one.
Shown(id, version, loaded) ==
    LET row == rows[id][version]
    IN  [id |-> id, title |-> row.title, archived |-> row.archived,
         status |-> row.status, sync |-> "saved",
         messages |-> IF loaded THEN row.messages ELSE <<>>,
         transcript |-> IF loaded THEN "loaded" ELSE "idle", version |-> version]

Mapped(ss, Test(_), Image(_)) ==
    [n \in DOMAIN ss |-> IF Test(ss[n]) THEN Image(ss[n]) ELSE ss[n]]

\* The elements at some positions, in their order
Those(ss, positions) ==
    LET order == CHOOSE f \in [1 .. Cardinality(positions) -> positions] :
                    \A m, n \in DOMAIN f : m < n => f[m] < f[n]
    IN  [n \in DOMAIN order |-> ss[order[n]]]

Filtered(ss, Test(_)) == Those(ss, {n \in DOMAIN ss : Test(ss[n])})

\* dedupeConversationSessions
Deduped(ss) ==
    Those(ss, {n \in DOMAIN ss : \A m \in 1 .. (n - 1) : ss[m].id # ss[n].id})

\* matchesAttempt
IsKnown(id) == attempt.canonical > 0 /\ id = "c"
IsAttempt(s) == s.id = "local" \/ IsKnown(s.id)

WithSync(sync) == Mapped(sessions, IsAttempt, LAMBDA s : [s EXCEPT !.sync = sync])

\* conversationMutationKey
MutationKey(id) == IF IsKnown(id) THEN "local" ELSE id

Sessions(id) == {n \in DOMAIN sessions : sessions[n].id = id}
First(id) == sessions[CHOOSE n \in Sessions(id) : \A m \in Sessions(id) : n <= m]

NewerOf(a, b) == IF a >= b THEN a ELSE b

\* Mutant: what is only on the screen is forgotten in the label.
Reconciled_Saved(id, version, s, status, following, preserve) ==
    LET row == Shown(id, version, TRUE)
    IN  IF version < s.version THEN s
        ELSE [row EXCEPT !.status = status,
                !.messages = IF Len(s.messages) > Len(@) THEN s.messages ELSE @,
                !.sync = IF following THEN "saving" ELSE @]

\* reconcilePersistedSession
Reconciled(id, version, s, status, following, preserve) ==
    IF version < s.version THEN s
    ELSE LET row == Shown(id, version, TRUE)
             kept == IF preserve
                     THEN Filtered(s.messages, LAMBDA m : m = PendingAnswer)
                     ELSE <<>>
             optimistic == Len(s.messages) > Len(row.messages) \/ kept # <<>>
         IN  [row EXCEPT
                !.title = IF following THEN s.title ELSE @,
                !.archived = IF following THEN s.archived ELSE @,
                !.messages = IF kept # <<>> THEN @ \o kept
                             ELSE IF optimistic THEN s.messages ELSE @,
                !.status = status,
                !.sync = IF following \/ optimistic THEN "saving" ELSE "saved"]

Without(what, id) == {r \in retries : ~(r.what = what /\ r.id = id)}

\* registerRetry, registerVersionedMutationRetry
With(r) == {q \in retries : ~Same(q, r)} \cup {r}

RetryOf(op, id, k, outcome) ==
    [what |-> op.what, id |-> id, value |-> op.value, key |-> op.key, queue |-> k,
     refresh |-> outcome = "conflict" /\ op.what # "fork"]

Arrived(s) == net[s].phase = "answered"
Ok(s) == net[s].outcome = "ok"

\* Nothing else of the tab runs between an answer and what follows it in the
\* same turn of the event loop: the next call of a queue, a retry whose
\* conversation has been read again.
Started == \A k \in Keys : queue[k] # <<>> => net[k] # NoCall
Quiet == Started /\ \A p \in Presses : pressing[p] # NoRetry => net[p] # NoCall

Op(what, id, value, key) ==
    [what |-> what, id |-> id, value |-> value, key |-> key,
     waits |-> FALSE, base |-> NoCall]

\* Mutant: an operation that came back keeps its place.
Popped_Kept(k) == queue

Enqueued(k, op) == [queue EXCEPT ![k] = Append(@, op)]
Popped(k) == [queue EXCEPT ![k] = Tail(@)]

\* hasFollowingMutation, where n operations count that are not waiting
FollowedBy(k, n) == Len(queue[k]) > n

-----------------------------------------------------------------------------
(* The command: beginConversation, persistCreate, and its three outcomes.  *)

Begin ==
    /\ Quiet /\ ~attempt.begun                              \* bound: one command
    /\ attempt' = [attempt EXCEPT !.begun = TRUE]
    /\ sessions' = <<[id |-> "local", title |-> FirstTitle, archived |-> "no",
                      status |-> "running", sync |-> "saving",
                      messages |-> <<PendingUser>>, transcript |-> "loaded",
                      version |-> 1]>> \o sessions
    /\ net' = [net EXCEPT !["create"] = Call("create", "c", FirstTitle, 0, 0)]
    /\ UNCHANGED <<rows, stray, queue, retries, pressing, page, left>>

\* persistAssistant draws the mutation key.
AppendOp == Op("append", "c", "none", attempt.appends + 1)
StatusOp == Op("status", "c", "failed", 0)

\* An outcome waits for the first creation (attempt.ready); after that failed,
\* each creation that is tried again brings the outcome along.
Creating == net["create"] # NoCall

Outcome(change(_), op) ==
    /\ sessions' = Mapped(sessions, IsAttempt, LAMBDA s :
            [change(s) EXCEPT !.sync = IF attempt.canonical > 0 \/ Creating
                                       THEN "saving" ELSE "unsaved"])
    /\ queue' = IF attempt.canonical > 0 THEN Enqueued("local", op) ELSE queue
    /\ UNCHANGED <<rows, net, stray, retries, pressing, page, left>>

\* completeConversation
Answer ==
    /\ Quiet /\ attempt.begun /\ attempt.target = "running"
    /\ attempt' = [attempt EXCEPT !.answered = TRUE, !.target = "idle",
                   !.appends = IF attempt.canonical > 0 THEN @ + 1 ELSE @]
    /\ Outcome(LAMBDA s : [s EXCEPT !.messages = Append(@, PendingAnswer),
                                    !.status = "idle"],
               AppendOp)

\* failConversation
Fail ==
    /\ Quiet /\ attempt.begun /\ attempt.target = "running"
    /\ attempt' = [attempt EXCEPT !.target = "failed"]
    /\ Outcome(LAMBDA s : [s EXCEPT !.status = "failed"], StatusOp)

\* markConversationIdle
NoAnswer ==
    /\ Quiet /\ attempt.begun /\ attempt.target = "running"
    /\ attempt' = [attempt EXCEPT !.target = "idle"]
    /\ sessions' = Mapped(sessions, IsAttempt, LAMBDA s : [s EXCEPT !.status = "idle"])
    /\ UNCHANGED <<rows, net, stray, queue, retries, pressing, page, left>>

\* Mutant: what the command came to meanwhile is forgotten.
FollowUp_None == <<>>

\* What is stored after the creation, now that there is a row.
FollowUp ==
    IF attempt.answered THEN <<AppendOp>>
    ELSE IF attempt.target = "failed" THEN <<StatusOp>>
    ELSE <<>>

KnownAs(version) == NewerOf(attempt.canonical, version)

CreateFails ==
    /\ sessions' = Mapped(sessions, LAMBDA s : s.id = "local",
                          LAMBDA s : [s EXCEPT !.sync = "unsaved"])
    /\ retries' = With([what |-> "create", id |-> "local", value |-> "none", key |-> 0,
                      queue |-> "local", refresh |-> FALSE])
    /\ UNCHANGED <<attempt, queue>>

CreateSucceeds(version) ==
    LET shown == Shown("c", version, TRUE)
    IN  /\ sessions' = Deduped(Mapped(sessions, LAMBDA s : s.id \in {"local", "c"},
                LAMBDA s :
                    LET longer == Len(s.messages) > Len(shown.messages)
                    IN  [shown EXCEPT
                           !.messages = IF longer THEN s.messages ELSE @,
                           !.status = s.status,
                           !.sync = IF longer \/ FollowUp # <<>> THEN "saving" ELSE @]))
        /\ attempt' = [attempt EXCEPT !.canonical = KnownAs(version),
                       !.appends = IF attempt.answered THEN @ + 1 ELSE @]
        /\ queue' = [queue EXCEPT !["local"] = @ \o FollowUp]
        /\ retries' = Without("create", "local")

\* Where a press tried the creation again, that is all it had to do; its answer
\* is taken whatever came first.
CreateArrives(s) ==
    /\ Quiet /\ Arrived(s) /\ net[s].what = "create"
    /\ IF Ok(s) THEN CreateSucceeds(net[s].seen["c"]) ELSE CreateFails
    /\ net' = [net EXCEPT ![s] = NoCall]
    /\ pressing' = [p \in Presses |-> IF p = s THEN NoRetry ELSE pressing[p]]
    /\ UNCHANGED <<rows, stray, page, left>>

-----------------------------------------------------------------------------
(* Renaming and archiving: what is shown changes at once, the call waits   *)
(* for its turn and carries the version that was shown before.             *)

\* renameConversation, archiveConversation, up to the queue
EditOf(id, field, value) ==
    LET k == MutationKey(id)
    IN  /\ retries' = Without(field, id)
        /\ sessions' = Mapped(sessions, LAMBDA s : s.id = id,
               LAMBDA s : [s EXCEPT !.sync = "saving", ![field] = value])
        /\ queue' = Enqueued(k, [Op(field, id, value, 0) EXCEPT
                                   !.waits = queue[k] # <<>>, !.base = First(id)])

Edit(id, field, value) ==
    /\ Quiet /\ Sessions(id) # {} /\ First(id).archived = "no"
    /\ left.edits > 0                                   \* bound
    /\ left' = [left EXCEPT !.edits = @ - 1]
    /\ EditOf(id, field, value)
    /\ UNCHANGED <<rows, net, stray, attempt, pressing, page>>

Rename == \E id \in Keys, title \in Titles : Edit(id, "title", title)
ArchiveOne == \E id \in Keys : Edit(id, "archived", "yes")

\* The turn of an edit. What it would be rolled back to is what is shown now,
\* if it had to wait, with its own field as it was.
StartEdit(k, op) ==
    LET base == IF op.waits THEN [First(op.id) EXCEPT ![op.what] = op.base[op.what]]
                ELSE op.base
    IN  /\ UNCHANGED retries
        /\ IF Sessions(op.id) = {}
           THEN queue' = Popped(k) /\ UNCHANGED <<net, sessions>>
           ELSE /\ queue' = [queue EXCEPT ![k][1].base = base]
                /\ sessions' = Mapped(sessions, LAMBDA s : s.id = op.id,
                       LAMBDA s : [s EXCEPT !.sync = "saving", ![op.what] = op.value])
                /\ net' = [net EXCEPT ![k] = Call(op.what, op.id, op.value, 0, base.version)]

EditFails(k, op) ==
    /\ sessions' = Mapped(sessions, LAMBDA s : s.id = op.id, LAMBDA s : op.base)
    /\ retries' = With(RetryOf(op, op.id, k, net[k].outcome))
    /\ UNCHANGED attempt

EditSucceeds(k, op, version) ==
    /\ attempt' = IF IsKnown(op.id)
                  THEN [attempt EXCEPT !.canonical = KnownAs(version)] ELSE attempt
    /\ sessions' = Mapped(sessions, LAMBDA s : s.id = op.id,
           LAMBDA s : Reconciled(op.id, version, s, s.status, FollowedBy(k, 1), FALSE))
    /\ retries' = Without(op.what, op.id)

\* It is reconciled before it leaves the queue.
EditArrives(k) ==
    /\ Quiet /\ Arrived(k) /\ Head(queue[k]).what \in {"title", "archived"}
    /\ LET op == Head(queue[k])
       IN  IF Ok(k) THEN EditSucceeds(k, op, net[k].seen[op.id]) ELSE EditFails(k, op)
    /\ queue' = Popped(k)
    /\ net' = [net EXCEPT ![k] = NoCall]
    /\ UNCHANGED <<rows, stray, pressing, page, left>>

-----------------------------------------------------------------------------
(* Storing the outcome: persistAssistant and persistAttemptStatus.         *)

OutcomeArrives ==
    /\ Quiet /\ Arrived("local") /\ Head(queue["local"]).what \in {"append", "status"}
    /\ LET op == Head(queue["local"])
           version == net["local"].seen["c"]
           shown == IF op.what = "append" THEN "idle" ELSE "failed"
       IN  IF Ok("local")
           THEN /\ attempt' = [attempt EXCEPT !.canonical = KnownAs(version)]
                /\ sessions' = Deduped(Mapped(sessions, IsAttempt, LAMBDA s :
                     Reconciled("c", version, s, shown, FollowedBy("local", 2), FALSE)))
                /\ retries' = Without(op.what, "local")
           ELSE /\ sessions' = WithSync("unsaved")
                /\ retries' = With(RetryOf(op, "local", "local", net["local"].outcome))
                /\ UNCHANGED attempt
    /\ queue' = Popped("local")
    /\ net' = [net EXCEPT !["local"] = NoCall]
    /\ UNCHANGED <<rows, stray, pressing, page, left>>

-----------------------------------------------------------------------------
(* Forking through the last message that is shown.                         *)

\* durableMessages
Durable(message) ==
    LET s == First("c")
        messages == IF IsAttempt(s) THEN rows["c"][attempt.canonical].messages
                    ELSE s.messages
    IN  \E n \in DOMAIN messages : messages[n] = message

CanFork(message) ==
    Sessions("c") # {} /\ First("c").sync = "saved" /\ Durable(message)

Fork ==
    /\ Quiet
    /\ left.forks > 0                                   \* bound
    /\ left' = [left EXCEPT !.forks = @ - 1]
    /\ Sessions("c") # {} /\ First("c").archived = "no" /\ First("c").messages # <<>>
    /\ LET message == Last(First("c").messages)
       IN  /\ CanFork(message)
           /\ queue' = Enqueued(MutationKey("c"),
                   Op("fork", "c", First("c").title, message))
    /\ UNCHANGED <<rows, net, stray, sessions, attempt, retries, pressing, page>>

\* It is asked again whether there is anything to fork.
StartFork(k, op) ==
    /\ IF CanFork(op.key)
       THEN /\ net' = [net EXCEPT ![k] = Call("fork", "c", op.value, op.key, 0)]
            /\ UNCHANGED <<queue, retries>>
       ELSE /\ queue' = Popped(k)
            /\ retries' = Without("fork", "c")
            /\ UNCHANGED net
    /\ UNCHANGED sessions

ForkArrives(k) ==
    /\ Quiet /\ Arrived(k) /\ Head(queue[k]).what = "fork"
    /\ LET op == Head(queue[k])
       IN  IF Ok(k)
           THEN /\ sessions' = <<Shown("f", net[k].seen["f"], TRUE)>> \o sessions
                /\ retries' = Without("fork", "c")
           ELSE /\ retries' = With(RetryOf(op, "c", k, net[k].outcome))
                /\ UNCHANGED sessions
    /\ queue' = Popped(k)
    /\ net' = [net EXCEPT ![k] = NoCall]
    /\ UNCHANGED <<rows, stray, attempt, pressing, page, left>>

\* withConversationMutation: the next operation of a queue.
Start(k) ==
    /\ queue[k] # <<>> /\ net[k] = NoCall
    /\ LET op == Head(queue[k])
       IN  CASE op.what \in {"title", "archived"} -> StartEdit(k, op)
             [] op.what = "fork" -> StartFork(k, op)
             [] OTHER -> /\ net' = [net EXCEPT ![k] = Call(op.what, "c", op.value, op.key,
                                                          attempt.canonical)]
                         /\ UNCHANGED <<queue, sessions, retries>>
    /\ UNCHANGED <<rows, stray, attempt, pressing, page, left>>

-----------------------------------------------------------------------------
(* Retrying.  retryLastMutation goes through what is registered, one after *)
(* the other; the model lets the user press any one of them, also while    *)
(* earlier presses, of the same one too, have not come back.               *)

Press(r) ==
    LET free == {p \in Presses : pressing[p] = NoRetry}
        p == CHOOSE p \in free : TRUE
    IN
    /\ Quiet /\ free # {}
    /\ left.presses > 0                                    \* bound
    /\ left' = [left EXCEPT !.presses = @ - 1]
    /\ pressing' = [pressing EXCEPT ![p] = r]
    /\ net' = IF r.refresh THEN [net EXCEPT ![p] = Call("get", "c", "none", 0, 0)] ELSE net
    /\ UNCHANGED <<rows, stray, sessions, attempt, queue, retries, page>>

\* retryAfterRefresh
RefreshArrives(p) ==
    /\ Quiet /\ Arrived(p) /\ net[p].what = "get"
    /\ LET r == pressing[p]
           version == net[p].seen["c"]
       IN  IF Ok(p)
           THEN /\ attempt' = IF attempt.canonical > 0
                              THEN [attempt EXCEPT !.canonical = KnownAs(version)]
                              ELSE attempt
                /\ sessions' = Deduped(Mapped(sessions,
                     LAMBDA s : s.id = "c" \/ (attempt.canonical > 0 /\ s.id = "local"),
                     LAMBDA s : Reconciled("c", version, s, s.status,
                                    FollowedBy(r.queue, 1), r.what = "append")))
                /\ UNCHANGED <<retries, pressing>>
           ELSE /\ retries' = With(r)
                /\ pressing' = [pressing EXCEPT ![p] = NoRetry]
                /\ UNCHANGED <<attempt, sessions>>
    /\ net' = [net EXCEPT ![p] = NoCall]
    /\ UNCHANGED <<rows, stray, queue, page, left>>

RedoCreate(p) ==
    /\ sessions' = Mapped(sessions, LAMBDA s : s.id = "local",
                          LAMBDA s : [s EXCEPT !.sync = "saving"])
    /\ net' = [net EXCEPT ![p] = Call("create", "c", FirstTitle, 0, 0)]
    /\ UNCHANGED <<queue, retries, pressing>>

\* An outcome keeps its mutation key, a fork its creation key.
RedoCall(r) ==
    /\ sessions' = IF r.what = "fork" THEN sessions ELSE WithSync("saving")
    /\ queue' = Enqueued(r.queue, Op(r.what, "c", r.value, r.key))
    /\ UNCHANGED retries

\* An edit is made anew; it stays registered when its conversation is gone.
RedoEdit(r) ==
    IF Sessions(r.id) = {} THEN UNCHANGED <<retries, sessions, queue>>
    ELSE EditOf(r.id, r.what, r.value)

Redo(p) ==
    /\ Started /\ pressing[p] # NoRetry /\ net[p] = NoCall
    /\ LET r == pressing[p]
       IN  \/ r.what = "create" /\ RedoCreate(p)
           \/ /\ r.what # "create"
              /\ IF r.what \in {"title", "archived"} THEN RedoEdit(r) ELSE RedoCall(r)
              /\ pressing' = [pressing EXCEPT ![p] = NoRetry]
              /\ UNCHANGED net
    /\ UNCHANGED <<rows, stray, attempt, page, left>>

-----------------------------------------------------------------------------
(* The list and the selected transcript.                                   *)

\* onRetryConversation reloads a list that failed when nothing else waits.
PressLoad ==
    /\ Quiet /\ retries = {} /\ load = "failed"
    /\ load' = "loading"
    /\ net' = [net EXCEPT !["list"] = Call("list", "c", "none", 0, 0)]
    /\ UNCHANGED <<rows, stray, sessions, attempt, queue, retries, pressing, selected, left>>

RetryFor(s, r) == r.id = s.id \/ (IsAttempt(s) /\ r.id = "local")
RetryPending(s) == \E r \in retries : RetryFor(s, r)

\* sessionHasPendingPersistence; a fork is registered under its own key.
HasPendingPersistence(s) ==
    s.sync # "saved" \/ (\E r \in retries : r.what # "fork" /\ RetryFor(s, r))

\* mergeConversationSummary
Merged(id, version) ==
    LET summary == Shown(id, version, FALSE)
    IN  IF Sessions(id) = {} THEN summary
        ELSE IF First(id).version > version THEN First(id)
        ELSE IF First(id).version = version /\ First(id).transcript = "loaded"
        THEN [summary EXCEPT !.messages = First(id).messages, !.transcript = "loaded"]
        ELSE summary

ListArrives ==
    /\ Quiet /\ Arrived("list")
    /\ LET pending == Filtered(sessions, HasPendingPersistence)
           seen == net["list"].seen
           listed == Filtered(<<"f", "c">>, LAMBDA id :
               /\ seen[id] > 0 /\ rows[id][seen[id]].archived = "no"
               /\ \A n \in DOMAIN pending : pending[n].id # id)
       IN  IF Ok("list")
           THEN /\ sessions' = Deduped(pending \o
                     [n \in DOMAIN listed |-> Merged(listed[n], seen[listed[n]])])
                /\ load' = "loaded"
           ELSE /\ load' = "failed"
                /\ UNCHANGED sessions
    /\ net' = [net EXCEPT !["list"] = NoCall]
    /\ UNCHANGED <<rows, stray, attempt, queue, retries, pressing, selected, left>>

\* loadConversationDetail, forced by the retry of a transcript that failed.
\* The call in flight is given up when something else is selected.
Select(id) ==
    /\ left.selects > 0                                     \* bound
    /\ left' = [left EXCEPT !.selects = @ - 1]
    /\ Quiet /\ Sessions(id) # {} /\ First(id).archived = "no" /\ First(id).sync = "saved"
    /\ LET s == First(id)
           changed == selected # id
           forced == s.transcript = "failed"
       IN  /\ (changed \/ forced \/ s.transcript = "idle")
           /\ selected' = id
           /\ IF ~forced /\ s.transcript = "loaded"
              THEN /\ net' = [net EXCEPT !["detail"] = NoCall]
                   /\ UNCHANGED sessions
              ELSE /\ net' = [net EXCEPT !["detail"] = Call("get", id, "none", 0, 0)]
                   /\ sessions' = [n \in DOMAIN sessions |->
                        IF sessions[n].id = id
                        THEN [sessions[n] EXCEPT !.transcript = "loading"]
                        ELSE IF changed /\ sessions[n].transcript = "loading"
                        THEN [sessions[n] EXCEPT !.transcript = "idle"]
                        ELSE sessions[n]]
    /\ UNCHANGED <<rows, stray, attempt, queue, retries, pressing, load>>

DetailArrives ==
    /\ Quiet /\ Arrived("detail")
    /\ LET id == net["detail"].id
           version == net["detail"].seen[id]
       IN  sessions' = Mapped(sessions, LAMBDA s : s.id = id, LAMBDA s :
             IF ~Ok("detail") THEN [s EXCEPT !.transcript = "failed"]
             ELSE IF s.sync = "saved" /\ version >= s.version THEN Shown(id, version, TRUE)
             ELSE s)
    /\ net' = [net EXCEPT !["detail"] = NoCall]
    /\ UNCHANGED <<rows, stray, attempt, queue, retries, pressing, page, left>>

-----------------------------------------------------------------------------
Next ==
    \/ Begin \/ Answer \/ Fail \/ NoAnswer \/ (\E s \in {"create"} \cup Presses : CreateArrives(s))
    \/ Rename \/ ArchiveOne \/ Fork \/ OutcomeArrives
    \/ \E k \in Keys : Start(k) \/ EditArrives(k) \/ ForkArrives(k)
    \/ (\E r \in retries : Press(r)) \/ \E p \in Presses : RefreshArrives(p) \/ Redo(p)
    \/ PressLoad \/ ListArrives \/ (\E id \in Stored : Select(id)) \/ DetailArrives
    \/ (\E s \in Slots : Serve(s) \/ Lose(s))
    \/ (\E call \in stray : ServeStray(call)) \/ OtherTab

Spec == Init /\ [][Next]_vars

\* Calls are answered, or lost, and their answers taken; users owe nothing,
\* and a stray call may never be acted on.
FairSpec ==
    /\ Spec
    /\ WF_vars(\E s \in Slots : Serve(s))
    /\ \A k \in Keys : WF_vars(Start(k)) /\ WF_vars(EditArrives(k)) /\ WF_vars(ForkArrives(k))
    /\ \A s \in {"create"} \cup Presses : WF_vars(CreateArrives(s))
    /\ WF_vars(OutcomeArrives)
    /\ \A p \in Presses : WF_vars(RefreshArrives(p)) /\ WF_vars(Redo(p))

-----------------------------------------------------------------------------
(* Properties.                                                             *)

StoredAnswer == \E n \in DOMAIN rows["c"] : \E m \in DOMAIN rows["c"][n].messages :
                    rows["c"][n].messages[m] > 0

UnderWay(what) ==
    \/ \E n \in DOMAIN queue["local"] : queue["local"][n].what = what
    \/ \E r \in retries : r.what \in {what, "create"}
    \/ \E s \in Slots : net[s] # NoCall /\ net[s].what = "create"

\* What the command came to, an answer that was paid for or a failure, is
\* stored, or something of the tab is still going to store it: it never stands
\* on the screen only.  And what is sent again under one mutation key, after
\* answers that were lost and conflicts with other tabs, is stored once
\* (completeConversation, failConversation, persistCreate, persistAssistant).
\* The answer itself may be stored twice: each creation that Retry tries again
\* draws a key of its own.
OutcomeRetained ==
    /\ \A id \in Stored : Version(id) > 0 =>
         LET messages == Last(rows[id]).messages
         IN  \A m, n \in DOMAIN messages : messages[m] = messages[n] => m = n
    /\ attempt.answered => StoredAnswer \/ UnderWay("append")
    /\ attempt.target = "failed" =>
           \/ Version("c") > 0 /\ Last(rows["c"]).status = "failed"
           \/ UnderWay("status")

\* A transcript that is shown as saved is the one stored with the version it is
\* shown in: no message that was not stored is among those labelled saved,
\* whichever answer, list, refresh or roll-back wrote the session last
\* (reconcilePersistedSession, persistCreate, loadConversationDetail).  Of a title
\* this is not so: one that was never stored may be labelled saved, when it is what
\* a later rename that fails is rolled back to.
SavedIsStored ==
    \A n \in DOMAIN sessions :
        LET s == sessions[n]
        IN  s.sync = "saved" =>
              /\ s.id \in Stored /\ s.version \in 1 .. Version(s.id)
              /\ s.transcript = "loaded" => s.messages = rows[s.id][s.version].messages

\* An answer is stored in the end, or the tab comes to rest with storing it still
\* offered: no creation, rename, fork or retry that it waits for, however these
\* fail and however often Retry is pressed, holds it up for ever
\* (withConversationMutation, persistCreate, retryLastMutation).
AnswerSettles ==
    attempt.answered ~>
        \/ StoredAnswer
        \/ /\ \A k \in Keys : queue[k] = <<>>
           /\ \A p \in Presses : pressing[p] = NoRetry
           /\ \E r \in retries : r.what \in {"append", "create"}

=============================================================================
