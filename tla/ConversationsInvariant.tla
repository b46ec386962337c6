----------------------- MODULE ConversationsInvariant -----------------------
(***************************************************************************)
(* The inductive invariant of Conversations, which Conversations_proofs    *)
(* shows to hold for any titles, stories and presses.                      *)
(*                                                                         *)
(* The pieces of the tab hold something about each other (PInv).  A call   *)
(* that was acted on has left what it carries in the rows (Effect), however*)
(* late its answer is read; the call of a queue is the one of its first    *)
(* operation (HeadCalls); an answer or a failure is stored for a command   *)
(* that came to that and knows its row (Carries, RetryValid); transcripts  *)
(* only grow, and not before the command knows its row (RowsValid).  What  *)
(* is shown of a stored conversation, and what an edit of it would be      *)
(* rolled back to, is one of its versions, with that version's transcript  *)
(* where it is called saved (HeldIn).  A creation that was not answered is *)
(* under way or offered again (AttemptSound).                              *)
(*                                                                         *)
(* On this rests what is carried from step to step: once the conversation  *)
(* has its row, the outcome of the command is in it, or an operation or a  *)
(* retry holds it (OutcomeUnderWay).                                       *)
(***************************************************************************)
EXTENDS Conversations

EditFields == {"title", "archived"}

\* The transcript with which a conversation is created
M0 == <<0>>

\* A transcript names no message twice.
Transcripts == {ms \in Seq(Nat) : \A m, n \in DOMAIN ms : ms[m] = ms[n] => m = n}

Says(ms, message) == \E n \in DOMAIN ms : ms[n] = message

StoredRow == [title : Titles, archived : {"no", "yes"}, status : {"idle", "failed"},
              messages : Transcripts]

Values == Titles \cup {"yes", "failed", "none"}

Calls ==
    [what : Fields \cup {"create", "append", "fork", "get", "list"},
     id : Stored \cup {"local"}, value : Values, key : Nat, expected : Nat,
     phase : {"sent", "write", "done", "answered"},
     outcome : {"none", "ok", "not_found", "conflict", "unavailable"},
     seen : [Stored -> Nat]]

Ops ==
    [what : EditFields \cup {"append", "status", "fork"}, id : Keys, value : Values,
     key : Nat, waits : BOOLEAN, base : Session \cup {NoCall}]

Left == [edits : Nat, forks : Nat, selects : Nat, presses : Nat, other : Nat,
         losses : Nat, load : {"loaded", "failed"}]

TypeInv ==
    /\ rows \in [Stored -> Seq(StoredRow)]
    /\ sessions \in Seq(Session)
    /\ attempt \in [begun : BOOLEAN, canonical : Nat, answered : BOOLEAN,
                    target : {"running", "idle", "failed"}, appends : Nat]
    /\ queue \in [Keys -> Seq(Ops)]
    /\ net \in [Slots -> Calls \cup {NoCall}]
    /\ stray \in SUBSET Calls
    /\ retries \in SUBSET Retry
    /\ pressing \in [Presses -> Retry \cup {NoRetry}]
    /\ load \in {"failed", "loading", "loaded"}
    /\ selected \in Stored \cup {"none"}
    /\ left \in Left

\* Retries have keys of a map.
OneRetryPerKey == \A r, q \in retries : Same(r, q) => r = q

Final(rs, id) == rs[id][Len(rs[id])]

\* What a call that was acted on has left in the rows
Effect(rs, call) ==
    /\ call.what = "create" => rs["c"] # <<>>
    /\ call.what = "append" => rs["c"] # <<>> /\ Says(Final(rs, "c").messages, call.key)
    /\ call.what = "status" => rs["c"] # <<>> /\ Final(rs, "c").status = "failed"
    /\ call.what = "fork" => rs["f"] # <<>>

\* What the calls of the tab carry, where there is one command
Carries(at, call) ==
    /\ call.what = "create" => call.id = "c" /\ at.begun
    /\ call.what = "append" =>
           call.id = "c" /\ call.key > 0 /\ at.answered /\ at.canonical > 0
    /\ call.what = "status" =>
           call.id = "c" /\ call.value = "failed" /\ at.target = "failed" /\ at.canonical > 0
    /\ call.what = "title" => call.id \in Keys /\ call.value \in Titles
    /\ call.what = "archived" => call.id \in Keys /\ call.value = "yes"
    /\ call.what = "fork" => call.id = "c" /\ call.value \in Titles

Valid(rs, at, call) ==
    /\ Carries(at, call)
    /\ call.what = "fork" => rs["c"] # <<>> /\ Says(Final(rs, "c").messages, call.key)
    /\ call.what = "get" => call.id \in Stored
    /\ call.what = "list" => call.id = "c"
    /\ call.phase = "write" =>
           call.what \in Fields /\ call.id \in Stored /\ rs[call.id] # <<>>
    /\ call.id = "local" => call.phase \in {"sent", "answered"} /\ call.outcome # "ok"
    /\ call.phase # "answered" => call.outcome = "none"
    /\ call.phase = "done" =>
           call.what \notin {"get", "list"} /\ call.id \in Stored /\ rs[call.id] # <<>>
    /\ call.phase = "done" \/ call.outcome = "ok" => Effect(rs, call)
    /\ call.outcome = "ok" =>
           /\ \A i \in Stored : call.seen[i] <= Len(rs[i])
           /\ call.what # "list" => call.seen[call.id] > 0
           /\ call.what = "fork" => call.seen["f"] > 0

SlotsValid == \A s \in Slots : net[s] # NoCall => Valid(rows, attempt, net[s])

SlotKinds ==
    /\ net["create"] # NoCall => net["create"].what = "create"
    /\ net["list"] # NoCall => net["list"].what = "list"
    /\ net["detail"] # NoCall => net["detail"].what = "get"
    /\ \A p \in Presses : net[p] # NoCall =>
           /\ net[p].what \in {"create", "get"} /\ net[p].id = "c"
           /\ pressing[p] # NoRetry
           /\ net[p].what = "get" => pressing[p].refresh

StraysValid ==
    \A call \in stray :
        /\ Valid(rows, attempt, call) /\ call.phase \in {"sent", "write"}
        /\ call.what \notin {"get", "list"}

CallsValid == SlotsValid /\ SlotKinds /\ StraysValid

\* The call of a queue is the one of its first operation.
HeadCalls ==
    \A k \in Keys : net[k] # NoCall =>
        /\ queue[k] # <<>>
        /\ net[k].what = Head(queue[k]).what /\ net[k].id = Head(queue[k]).id

\* A transcript only grows, and not before the command knows its row.
RowsValid(rs, at) ==
    /\ \A m, n \in DOMAIN rs["c"] : m <= n =>
           \A i \in DOMAIN rs["c"][m].messages :
               Says(rs["c"][n].messages, rs["c"][m].messages[i])
    /\ at.canonical = 0 => \A n \in DOMAIN rs["c"] : rs["c"][n].messages = M0
    /\ at.canonical <= Len(rs["c"])

RowsSound == RowsValid(rows, attempt)

\* The version that is shown exists, with the transcript that is shown as saved.
HeldIn(rs, s) ==
    /\ s.version \in 1 .. Len(rs[s.id])
    /\ s.sync = "saved" /\ s.transcript = "loaded" =>
           s.messages = rs[s.id][s.version].messages

\* A session under the local id stands for a creation that was not answered.
Shape(rs, at) ==
    {s \in Session :
        /\ s.id \in Stored => HeldIn(rs, s)
        /\ s.id = "c" /\ at.canonical = 0 => s.messages \in {<<>>, M0}
        /\ s.id = "local" => s.sync # "saved" /\ at.begun /\ at.canonical = 0}

\* What an edit would be rolled back to
Base(rs, at, op) ==
    {s \in Session :
        /\ s.id = op.id
        /\ s.id = "c" => HeldIn(rs, s)
        /\ s.id = "c" /\ at.canonical = 0 => s.messages \in {<<>>, M0}
        /\ s.id = "local" => s.sync # "saved" /\ at.begun}

SessionsSound == sessions \in Seq(Shape(rows, attempt))

OpValid(rs, at, k, op) ==
    /\ Carries(at, op)
    /\ op.what \in EditFields => op.base \in Base(rs, at, op)
    /\ k = "local" /\ at.canonical = 0 => op.id = "local"
    /\ k = "c" => op.id = "c" /\ op.what \in EditFields \cup {"fork"}
    /\ op.what \notin EditFields => op.id = "c"

QueuesValid == \A k \in Keys : \A n \in DOMAIN queue[k] : OpValid(rows, attempt, k, queue[k][n])

RetryValid(at, r) ==
    /\ r.what = "create" => r.id = "local" /\ ~r.refresh /\ r.queue = "local" /\ at.begun
    /\ r.what = "append" =>
           /\ r.id = "local" /\ r.queue = "local" /\ r.key > 0
           /\ at.answered /\ at.canonical > 0
    /\ r.what = "status" =>
           /\ r.id = "local" /\ r.queue = "local" /\ r.value = "failed"
           /\ at.target = "failed" /\ at.canonical > 0
    /\ r.what = "title" => r.id \in Keys /\ r.value \in Titles
    /\ r.what = "archived" => r.id \in Keys /\ r.value = "yes"
    /\ r.what = "fork" =>
           /\ r.id = "c" /\ r.value \in Titles
           /\ r.queue = "local" => at.canonical > 0
    /\ r.refresh => r.what # "fork"

RetriesValid ==
    /\ \A r \in retries : RetryValid(attempt, r)
    /\ \A p \in Presses : pressing[p] # NoRetry => RetryValid(attempt, pressing[p])

\* The creation is being tried, or offered again.
CreateUnderWay ==
    \/ \E s \in Slots : net[s] # NoCall /\ net[s].what = "create"
    \/ \E r \in retries : r.what = "create"

AttemptSound ==
    /\ ~attempt.begun => attempt.canonical = 0 /\ attempt.target = "running"
    /\ attempt.answered => attempt.target = "idle"
    /\ attempt.begun /\ attempt.canonical = 0 => CreateUnderWay

PInv ==
    /\ TypeInv /\ OneRetryPerKey /\ CallsValid /\ HeadCalls /\ RowsSound
    /\ SessionsSound /\ QueuesValid /\ RetriesValid /\ AttemptSound

\* Something is still going to store an outcome of this kind.
Held(what) ==
    \/ \E n \in DOMAIN queue["local"] : queue["local"][n].what = what
    \/ \E r \in retries : r.what = what

\* Once the conversation is known, what the command came to is stored or is
\* going to be.
OutcomeUnderWay ==
    attempt.canonical > 0 =>
        /\ attempt.answered => StoredAnswer \/ Held("append")
        /\ attempt.target = "failed" =>
              \/ rows["c"] # <<>> /\ Final(rows, "c").status = "failed"
              \/ Held("status")

CInv == PInv /\ OutcomeUnderWay

=============================================================================
