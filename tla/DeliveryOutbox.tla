---------------------------- MODULE DeliveryOutbox ----------------------------
(***************************************************************************)
(* The three outboxes through which a committed transaction reaches the    *)
(* clients of one document's live room:                                    *)
(*                                                                         *)
(*   notification  document-workflow-notification-outbox.ts: readiness     *)
(*                 changed; one row per document, overwritten by newer     *)
(*                 revisions                                               *)
(*   command       command-delivery-outbox.ts: the exact update of one     *)
(*                 server command, enqueued again by every replay of it    *)
(*   closure       document-archive-service.ts: close the archived room    *)
(*                                                                         *)
(* Web processes write rows inside their transactions and never deliver:   *)
(* they have no gateway.  The sidecar runs one worker per outbox.  A       *)
(* worker reads a due row, waits for the document's write queue, reads the *)
(* row again, publishes, and settles the row in one more transaction whose *)
(* WHERE clause is the fence.  Between those steps web processes commit,   *)
(* storage fails and the sidecar crashes.                                  *)
(***************************************************************************)
EXTENDS Integers, Sequences

CONSTANTS
    Outboxes,     \* the outboxes in use
    MaxAttempts,  \* COLLABORATION_*_MAX_ATTEMPTS, equal for all three
    MaxVersion,   \* bound: workflow revisions committed
    MaxFaults     \* bound: crashes and failed transactions of the sidecar

ASSUME OutboxesAssumption ==
    Outboxes \subseteq {"notification", "command", "closure"}
ASSUME MaxAttemptsAssumption == MaxAttempts \in Nat \ {0}
ASSUME BoundsAssumption == MaxVersion \in Nat \ {0} /\ MaxFaults \in Nat

VARIABLES
    rows,       \* the job row of each outbox
    committed,  \* the last version a transaction committed, 0 before the first
    worker,     \* the step each worker is at, and the row it works on
    queue,      \* document-write-queue.ts: who holds and awaits the document
    faults,     \* crashes and storage failures so far
    announced,  \* history: the last version the room has been told of
    failures    \* history: failed publications, counted up to MaxAttempts,
                \* since the row's attempts were last reset

vars == <<rows, committed, worker, queue, faults, announced, failures>>

-----------------------------------------------------------------------------
(* Rows and workers.                                                       *)

\* A version is what the fence compares besides attempts: the workflow
\* revision with its generation, or the one command or closure there is.
\* due is nextAttemptAt <= now.  The retry_state checks of the tables: a row
\* that waits has an attempt left, an exhausted one has no next attempt.
Row == [status : {"none"}, version : {0}, attempts : {0}, due : {FALSE}]
    \cup [status : {"pending"}, version : Nat, attempts : 0 .. MaxAttempts - 1,
          due : BOOLEAN]
    \cup [status : {"exhausted"}, version : Nat, attempts : {MaxAttempts},
          due : {FALSE}]

NoRow == [status |-> "none", version |-> 0, attempts |-> 0, due |-> FALSE]

FreshRow(version) ==
    [status |-> "pending", version |-> version, attempts |-> 0, due |-> TRUE]

Worker == [step : {"idle", "waiting", "publishing", "settling"},
           version : Nat, attempts : Nat, failed : BOOLEAN]

Idle == [step |-> "idle", version |-> 0, attempts |-> 0, failed |-> FALSE]

Pending(o) == rows[o].status = "pending"

-----------------------------------------------------------------------------
(* Commits, in web processes: rows appear with the fact they announce.     *)

\* Mutant: an overwritten row inherits the attempts of its predecessor.
Enqueue_KeepsAttempts(o, version) ==
    /\ rows' = [rows EXCEPT ![o] = [FreshRow(version) EXCEPT
                    !.attempts = IF Pending(o) THEN rows[o].attempts ELSE 0]]
    /\ failures' = [failures EXCEPT ![o] = 0]
    /\ UNCHANGED <<worker, queue, faults, announced>>

Enqueue(o, version) ==
    /\ rows' = [rows EXCEPT ![o] = FreshRow(version)]
    /\ failures' = [failures EXCEPT ![o] = 0]
    /\ UNCHANGED <<worker, queue, faults, announced>>

\* Insert or overwrite: a newer revision starts with a full retry budget.
CommitWorkflow ==
    /\ "notification" \in Outboxes
    /\ committed["notification"] < MaxVersion               \* bound
    /\ committed' = [committed EXCEPT !["notification"] = @ + 1]
    /\ Enqueue("notification", committed'["notification"])

\* The first commit of a command, and of an archival, inserts its only row.
CommitOnce(o) ==
    /\ o \in Outboxes \cap {"command", "closure"}
    /\ committed[o] = 0
    /\ committed' = [committed EXCEPT ![o] = 1]
    /\ Enqueue(o, 1)

\* A replay of the command inserts the row again if it was settled, re-arms it
\* if it was exhausted, and leaves it alone if it still waits.
ReplayCommand ==
    /\ "command" \in Outboxes
    /\ committed["command"] = 1
    /\ ~Pending("command")
    /\ Enqueue("command", 1)
    /\ UNCHANGED committed

-----------------------------------------------------------------------------
(* The document's write queue: first come, first served, always released.  *)

Await(holder) == queue' = Append(queue, holder)

HasDocument(holder) == queue # <<>> /\ Head(queue) = holder

Release == queue' = Tail(queue)

\* Client appends of the sidecar take their turn in the same queue.
BeginClientAppend ==
    /\ \A i \in DOMAIN queue : queue[i] # "append"          \* bound
    /\ Await("append")
    /\ UNCHANGED <<rows, committed, worker, faults, announced, failures>>

EndClientAppend ==
    /\ HasDocument("append")
    /\ Release
    /\ UNCHANGED <<rows, committed, worker, faults, announced, failures>>

-----------------------------------------------------------------------------
(* Reconciliation, in the sidecar.                                         *)

\* reconcileDue reads the rows that are due, and queues for the document.
SelectDue(o) ==
    /\ worker[o].step = "idle"
    /\ Pending(o)
    /\ rows[o].due
    /\ worker' = [worker EXCEPT ![o] =
                    [step |-> "waiting", version |-> rows[o].version,
                     attempts |-> rows[o].attempts, failed |-> FALSE]]
    /\ Await(o)
    /\ UNCHANGED <<rows, committed, faults, announced, failures>>

\* Mutant: a row is settled whichever revision it has moved on to.
Fenced_AnyVersion(o) == Pending(o) /\ rows[o].attempts = worker[o].attempts

\* The row is still the one the worker read.
Fenced(o) ==
    /\ Pending(o)
    /\ rows[o].version = worker[o].version
    /\ rows[o].attempts = worker[o].attempts

\* readDueJob, with the document held: a row that changed meanwhile is skipped.
Recheck(o) ==
    /\ worker[o].step = "waiting"
    /\ HasDocument(o)
    /\ IF Fenced(o) /\ rows[o].due
       THEN worker' = [worker EXCEPT ![o].step = "publishing"] /\ UNCHANGED queue
       ELSE worker' = [worker EXCEPT ![o] = Idle] /\ Release
    /\ UNCHANGED <<rows, committed, faults, announced, failures>>

\* Clients that hear of a readiness change read the committed state themselves,
\* so a publication announces what is committed when it happens.
PublishSucceeds(o) ==
    /\ worker[o].step = "publishing"
    /\ announced' = [announced EXCEPT ![o] = committed[o]]
    /\ worker' = [worker EXCEPT ![o].step = "settling"]
    /\ UNCHANGED <<rows, committed, queue, faults, failures>>

PublishFails(o) ==
    /\ worker[o].step = "publishing"
    /\ failures' = [failures EXCEPT
                       ![o] = IF @ < MaxAttempts THEN @ + 1 ELSE @]
    /\ worker' = [worker EXCEPT ![o].step = "settling", ![o].failed = TRUE]
    /\ UNCHANGED <<rows, committed, queue, faults, announced>>

\* The closure's delete does not compare attempts, the other two do.
MayDelete(o) ==
    IF o = "closure" THEN Pending(o) /\ rows[o].version = worker[o].version
    ELSE Fenced(o)

\* recordDeliveryFailure: retry later, or give up.
AfterFailure(row) ==
    LET attempts == row.attempts + 1 IN
    [status |-> IF attempts >= MaxAttempts THEN "exhausted" ELSE "pending",
     version |-> row.version, attempts |-> attempts, due |-> FALSE]

\* Mutant: the result of a failed publication is never written down.
Settled_DropsFailure(o) ==
    IF MayDelete(o) /\ ~worker[o].failed THEN NoRow ELSE rows[o]

Settled(o) ==
    IF worker[o].failed
    THEN IF Fenced(o) THEN AfterFailure(rows[o]) ELSE rows[o]
    ELSE IF MayDelete(o) THEN NoRow ELSE rows[o]

Settle(o) ==
    /\ worker[o].step = "settling"
    /\ rows' = [rows EXCEPT ![o] = Settled(o)]
    /\ worker' = [worker EXCEPT ![o] = Idle]
    /\ Release
    /\ UNCHANGED <<committed, faults, announced, failures>>

-----------------------------------------------------------------------------
(* Faults and time.                                                        *)

\* A read or the settling transaction fails: the pass ends, the document is
\* released, and the next pass starts over from the rows.
StorageFails(o) ==
    /\ faults < MaxFaults                                   \* bound
    /\ \/ worker[o].step = "waiting" /\ HasDocument(o)
       \/ worker[o].step = "settling"
    /\ faults' = faults + 1
    /\ worker' = [worker EXCEPT ![o] = Idle]
    /\ Release
    /\ UNCHANGED <<rows, committed, announced, failures>>

\* The sidecar dies and comes back: its workers and its queue are gone.
Crash ==
    /\ faults < MaxFaults                                   \* bound
    /\ faults' = faults + 1
    /\ worker' = [o \in Outboxes |-> Idle]
    /\ queue' = <<>>
    /\ UNCHANGED <<rows, committed, announced, failures>>

\* nextAttemptAt comes.
BecomeDue(o) ==
    /\ Pending(o)
    /\ ~rows[o].due
    /\ rows' = [rows EXCEPT ![o].due = TRUE]
    /\ UNCHANGED <<committed, worker, queue, faults, announced, failures>>

-----------------------------------------------------------------------------
(* The specification.                                                      *)

Init ==
    /\ rows = [o \in Outboxes |-> NoRow]
    /\ committed = [o \in Outboxes |-> 0]
    /\ worker = [o \in Outboxes |-> Idle]
    /\ queue = <<>>
    /\ faults = 0
    /\ announced = [o \in Outboxes |-> 0]
    /\ failures = [o \in Outboxes |-> 0]

Commit ==
    \/ CommitWorkflow
    \/ ReplayCommand
    \/ \E o \in {"command", "closure"} : CommitOnce(o)

Publish(o) == PublishSucceeds(o) \/ PublishFails(o)

Deliver(o) == SelectDue(o) \/ Recheck(o) \/ Publish(o) \/ Settle(o)

Next ==
    \/ Commit
    \/ BeginClientAppend
    \/ EndClientAppend
    \/ \E o \in Outboxes : Deliver(o) \/ StorageFails(o) \/ BecomeDue(o)
    \/ Crash

\* Workers reschedule themselves after every pass, whether it succeeded or not;
\* operations on the database and the room end; time passes.  Nothing is
\* assumed of web processes, publications need not succeed, and clients may
\* keep appending.
Fairness ==
    /\ WF_vars(EndClientAppend)
    /\ \A o \in Outboxes : WF_vars(Deliver(o)) /\ WF_vars(BecomeDue(o))

Spec == Init /\ [][Next]_vars /\ Fairness

-----------------------------------------------------------------------------
(* Correctness.                                                            *)

TypeOK ==
    /\ rows \in [Outboxes -> Row]
    /\ committed \in [Outboxes -> Nat]
    /\ worker \in [Outboxes -> Worker]
    /\ queue \in Seq(Outboxes \cup {"append"})
    /\ faults \in Nat
    /\ announced \in [Outboxes -> Nat]
    /\ failures \in [Outboxes -> 0 .. MaxAttempts]

\* No announcement is lost: a row is gone only after the room was told of the
\* last commit, also when that commit overtook a delivery in flight.
NothingLost ==
    \A o \in Outboxes : rows[o].status = "none" => announced[o] = committed[o]

\* Giving up is earned: an exhausted row stands for MaxAttempts failed
\* publications of that very revision, never for failures of an earlier one.
FullBudget ==
    \A o \in Outboxes :
        rows[o].status = "exhausted" =>
            /\ rows[o].version = committed[o]
            /\ failures[o] = MaxAttempts

\* A worker only publishes and settles with the document held, so no two
\* outboxes and no client append interleave there.
HoldsDocument ==
    \A o \in Outboxes :
        worker[o].step \in {"publishing", "settling"} => HasDocument(o)

\* Every job ends: whatever crashes, fails or waits in front of it, a pending
\* row is eventually delivered or given up, or a newer revision takes its place.
JobsEnd ==
    \A o \in Outboxes, v \in 1 .. MaxVersion :
        (Pending(o) /\ rows[o].version = v) ~>
            (~Pending(o) \/ rows[o].version > v)

=============================================================================
