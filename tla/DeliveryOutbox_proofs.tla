------------------------- MODULE DeliveryOutbox_proofs -------------------------
(***************************************************************************)
(* Proofs about DeliveryOutbox, for any outboxes, retry budget and bounds. *)
(*                                                                         *)
(* None of the three safety properties is inductive.  A row may only go    *)
(* when its announcement was made, so the invariant follows the worker     *)
(* through publication and settlement: what it publishes is committed, and *)
(* as long as the row still has the version it read, settling it does to   *)
(* the row what the publication earned.                                    *)
(***************************************************************************)
EXTENDS DeliveryOutbox, TLAPS

-----------------------------------------------------------------------------
(* The invariant.                                                          *)

\* A row announces the last commit and has not failed more often than it says.
RowInv(o) ==
    /\ rows[o].status # "none" =>
         /\ rows[o].version = committed[o]
         /\ committed[o] >= 1
         /\ rows[o].attempts <= failures[o]
    /\ rows[o].status = "none" => announced[o] = committed[o]

\* A worker never reads ahead of the commits, works with the document held on a
\* row that still waits, and reports the outcome of its own publication.
WorkerInv(o) ==
    /\ worker[o].step # "idle" => worker[o].version <= committed[o]
    /\ worker[o].step \in {"waiting", "publishing"} => ~worker[o].failed
    /\ worker[o].step \in {"publishing", "settling"} => Pending(o) /\ HasDocument(o)
    /\ (worker[o].step = "settling" /\ rows[o].version = worker[o].version) =>
         IF worker[o].failed THEN rows[o].attempts < failures[o]
         ELSE announced[o] = committed[o]

OutboxInv(o) == RowInv(o) /\ WorkerInv(o)

IInv == TypeOK /\ \A o \in Outboxes : OutboxInv(o)

-----------------------------------------------------------------------------
(* Rows.                                                                   *)

\* What the table's checks say of a row.
LEMMA RowFacts ==
    ASSUME NEW r \in Row
    PROVE  /\ r.status \in {"none", "pending", "exhausted"}
           /\ r.version \in Nat
           /\ r.attempts \in Nat
           /\ r.attempts <= MaxAttempts
           /\ r.status = "pending" => r.attempts < MaxAttempts
           /\ r.status = "exhausted" => r.attempts = MaxAttempts
<1>1. CASE r \in [status : {"none"}, version : {0}, attempts : {0}, due : {FALSE}]
  BY <1>1, MaxAttemptsAssumption
<1>2. CASE r \in [status : {"pending"}, version : Nat,
                  attempts : 0 .. MaxAttempts - 1, due : BOOLEAN]
  <2>1. r.attempts \in 0 .. MaxAttempts - 1
    BY <1>2
  <2>2. r.attempts \in Nat /\ r.attempts < MaxAttempts
    BY <2>1, MaxAttemptsAssumption
  <2> QED BY <1>2, <2>2, MaxAttemptsAssumption
<1>3. CASE r \in [status : {"exhausted"}, version : Nat,
                  attempts : {MaxAttempts}, due : {FALSE}]
  BY <1>3, MaxAttemptsAssumption
<1> QED BY <1>1, <1>2, <1>3 DEF Row

\* The rows that transactions write satisfy the checks.
LEMMA WrittenRows ==
    /\ NoRow \in Row
    /\ \A v \in Nat : FreshRow(v) \in Row
    /\ \A r \in Row : r.status = "pending" =>
         /\ AfterFailure(r) \in Row
         /\ [r EXCEPT !.due = TRUE] \in Row
<1>1. NoRow \in Row
  BY DEF NoRow, Row
<1>2. \A v \in Nat : FreshRow(v) \in Row
  BY MaxAttemptsAssumption DEF FreshRow, Row
<1>3. ASSUME NEW r \in Row, r.status = "pending"
      PROVE  AfterFailure(r) \in Row /\ [r EXCEPT !.due = TRUE] \in Row
  <2>1. r \in [status : {"pending"}, version : Nat,
               attempts : 0 .. MaxAttempts - 1, due : BOOLEAN]
    BY <1>3 DEF Row
  <2>2. r.attempts \in 0 .. MaxAttempts - 1
    BY <2>1
  <2>3. [r EXCEPT !.due = TRUE] \in Row
    BY <2>1 DEF Row
  <2>4. CASE r.attempts + 1 >= MaxAttempts
    <3>1. r.attempts + 1 = MaxAttempts
      BY <2>2, <2>4, MaxAttemptsAssumption
    <3>2. AfterFailure(r) = [status |-> "exhausted", version |-> r.version,
                             attempts |-> r.attempts + 1, due |-> FALSE]
      BY <2>1, <2>2, <2>4, <3>1, MaxAttemptsAssumption DEF AfterFailure
    <3>3. AfterFailure(r) \in [status : {"exhausted"}, version : Nat,
                               attempts : {MaxAttempts}, due : {FALSE}]
      BY <2>1, <3>1, <3>2
    <3> QED BY <2>3, <3>3 DEF Row
  <2>5. CASE ~(r.attempts + 1 >= MaxAttempts)
    <3>1. r.attempts + 1 \in 0 .. MaxAttempts - 1
      BY <2>2, <2>5, MaxAttemptsAssumption
    <3>2. AfterFailure(r) = [status |-> "pending", version |-> r.version,
                             attempts |-> r.attempts + 1, due |-> FALSE]
      BY <2>1, <2>5 DEF AfterFailure
    <3>3. AfterFailure(r) \in [status : {"pending"}, version : Nat,
                               attempts : 0 .. MaxAttempts - 1, due : BOOLEAN]
      BY <2>1, <3>1, <3>2
    <3> QED BY <2>3, <3>3 DEF Row
  <2> QED BY <2>4, <2>5
<1> QED BY <1>1, <1>2, <1>3

-----------------------------------------------------------------------------
(* Commits.                                                                *)

\* A commit announced by a fresh row preserves the invariant, if it is a newer
\* version or nobody is working on the row.
LEMMA EnqueueStep ==
    ASSUME IInv, NEW o \in Outboxes, NEW v \in Nat, v >= 1, v >= committed[o],
           Enqueue(o, v), committed' = [committed EXCEPT ![o] = v],
           \/ v > committed[o]
           \/ worker[o].step \notin {"publishing", "settling"}
    PROVE  IInv'
<1>1. TypeOK'
  <2>1. FreshRow(v) \in Row
    BY WrittenRows
  <2> QED BY <2>1, MaxAttemptsAssumption DEF IInv, TypeOK, Enqueue
<1>2. ASSUME NEW q \in Outboxes
      PROVE  OutboxInv(q)'
  <2>1. /\ worker' = worker /\ queue' = queue /\ announced' = announced
        /\ q # o => /\ rows'[q] = rows[q]
                    /\ committed'[q] = committed[q]
                    /\ failures'[q] = failures[q]
    BY DEF IInv, TypeOK, Enqueue
  <2>2. CASE q # o
    BY <2>1, <2>2 DEF IInv, OutboxInv, RowInv, WorkerInv, Pending, HasDocument
  <2>3. CASE q = o
    <3>1. rows'[q] = FreshRow(v) /\ committed'[q] = v /\ failures'[q] = 0
      BY <2>3 DEF IInv, TypeOK, Enqueue
    <3>2. RowInv(q)'
      BY <3>1 DEF RowInv, FreshRow
    <3>3. worker[q].version \in Nat /\ committed[q] \in Nat
      BY DEF IInv, TypeOK, Worker
    <3>4. OutboxInv(q)
      BY DEF IInv
    <3>5. Pending(q)'
      BY <3>1 DEF Pending, FreshRow
    <3>6. HasDocument(q) => HasDocument(q)'
      BY <2>1 DEF HasDocument
    <3>7. rows'[q].version = v
      BY <3>1 DEF FreshRow
    <3>8. WorkerInv(q)'
      BY <2>1, <2>3, <3>1, <3>3, <3>4, <3>5, <3>6, <3>7
         DEF OutboxInv, WorkerInv
    <3> QED BY <3>2, <3>8 DEF OutboxInv
  <2> QED BY <2>2, <2>3
<1> QED BY <1>1, <1>2 DEF IInv

\* Every commit of a web process preserves the invariant.
LEMMA CommitStep ==
    ASSUME IInv, Commit
    PROVE  IInv'
<1>1. CASE CommitWorkflow
  <2> DEFINE v == committed["notification"] + 1
  <2>1. committed["notification"] \in Nat /\ "notification" \in Outboxes
    BY <1>1 DEF IInv, TypeOK, CommitWorkflow
  <2>2. /\ committed' = [committed EXCEPT !["notification"] = v]
        /\ committed'["notification"] = v
    BY <1>1, <2>1 DEF IInv, TypeOK, CommitWorkflow
  <2>3. Enqueue("notification", v)
    BY <1>1, <2>2 DEF CommitWorkflow
  <2>4. v \in Nat /\ v >= 1 /\ v > committed["notification"]
    BY <2>1
  <2>5. v >= committed["notification"]
    BY <2>1
  <2> HIDE DEF v
  <2> QED BY ONLY IInv, <2>1, <2>2, <2>3, <2>4, <2>5, EnqueueStep
<1>2. CASE ReplayCommand
  <2>1. "command" \in Outboxes /\ committed["command"] = 1
    BY <1>2 DEF ReplayCommand
  <2>2. committed' = [committed EXCEPT !["command"] = 1]
    BY <1>2, <2>1 DEF IInv, TypeOK, ReplayCommand
  <2>3. worker["command"].step \notin {"publishing", "settling"}
    BY <1>2, <2>1 DEF IInv, OutboxInv, WorkerInv, ReplayCommand
  <2>4. Enqueue("command", 1)
    BY <1>2 DEF ReplayCommand
  <2>5. PICK v \in Nat : v = 1
    OBVIOUS
  <2>6. v >= 1 /\ v >= committed["command"]
    BY <2>1, <2>5
  <2> QED BY ONLY IInv, <2>1, <2>2, <2>3, <2>4, <2>5, <2>6, EnqueueStep
<1>3. ASSUME NEW o \in {"command", "closure"}, CommitOnce(o)
      PROVE  IInv'
  <2>1. /\ o \in Outboxes
        /\ committed[o] = 0
        /\ committed' = [committed EXCEPT ![o] = 1]
        /\ Enqueue(o, 1)
    BY <1>3 DEF CommitOnce
  <2>2. PICK v \in Nat : v = 1
    OBVIOUS
  <2>3. v >= 1 /\ v >= committed[o] /\ v > committed[o]
    BY <2>1, <2>2
  <2> QED BY ONLY IInv, <2>1, <2>2, <2>3, EnqueueStep
<1> QED BY <1>1, <1>2, <1>3 DEF Commit

-----------------------------------------------------------------------------
(* The write queue.                                                        *)

Holders == Outboxes \cup {"append"}

\* Joining the queue takes the document from nobody.
LEMMA AwaitFacts ==
    ASSUME queue \in Seq(Holders), NEW h \in Holders, Await(h)
    PROVE  /\ queue' \in Seq(Holders)
           /\ \A q \in Holders : HasDocument(q) => HasDocument(q)'
<1>1. queue' \in Seq(Holders)
  BY DEF Await
<1>2. ASSUME queue # <<>>
      PROVE  queue' # <<>> /\ Head(queue') = Head(queue)
  BY <1>2 DEF Await
<1> QED BY <1>1, <1>2 DEF HasDocument

\* Only the holder of the document leaves the queue.
LEMMA ReleaseFacts ==
    ASSUME queue \in Seq(Holders), NEW h, HasDocument(h), Release
    PROVE  /\ queue' \in Seq(Holders)
           /\ \A q : HasDocument(q) => q = h
BY DEF HasDocument, Release

\* A step that changes only the queue, and takes the document from no outbox.
LEMMA QueueStep ==
    ASSUME IInv, queue' \in Seq(Holders),
           \A q \in Outboxes : HasDocument(q) => HasDocument(q)',
           UNCHANGED <<rows, committed, worker, faults, announced, failures>>
    PROVE  IInv'
BY DEF IInv, TypeOK, OutboxInv, RowInv, WorkerInv, Pending, HasDocument, Holders

\* Dropping a worker back to idle, with or without the queue moving on.
LEMMA IdleStep ==
    ASSUME IInv, NEW o \in Outboxes, HasDocument(o), Release,
           worker' = [worker EXCEPT ![o] = Idle],
           faults' \in Nat, rows' \in [Outboxes -> Row],
           \A q \in Outboxes : q # o => rows'[q] = rows[q],
           RowInv(o)',
           UNCHANGED <<committed, announced, failures>>
    PROVE  IInv'
<1>1. /\ queue' \in Seq(Holders)
      /\ \A q : HasDocument(q) => q = o
  BY ReleaseFacts DEF IInv, TypeOK, Holders
<1>2. TypeOK'
  BY <1>1 DEF IInv, TypeOK, Holders, Idle, Worker
<1>3. ASSUME NEW q \in Outboxes
      PROVE  OutboxInv(q)'
  <2>1. CASE q = o
    <3>1. worker'[q] = Idle
      BY <2>1 DEF IInv, TypeOK
    <3> QED BY <2>1, <3>1 DEF OutboxInv, WorkerInv, Idle
  <2>2. CASE q # o
    <3>1. worker'[q] = worker[q] /\ rows'[q] = rows[q]
      BY <2>2 DEF IInv, TypeOK
    <3>2. worker[q].step \notin {"publishing", "settling"}
      BY <1>1, <2>2 DEF IInv, OutboxInv, WorkerInv
    <3> QED BY <3>1, <3>2 DEF IInv, OutboxInv, RowInv, WorkerInv
  <2> QED BY <2>1, <2>2
<1> QED BY <1>2, <1>3 DEF IInv

-----------------------------------------------------------------------------
(* Delivery.                                                               *)

\* Reading a due row and joining the queue preserves it.
LEMMA SelectStep ==
    ASSUME IInv, NEW o \in Outboxes, SelectDue(o)
    PROVE  IInv'
<1>1. /\ queue' \in Seq(Holders)
      /\ \A q \in Holders : HasDocument(q) => HasDocument(q)'
  BY AwaitFacts DEF IInv, TypeOK, SelectDue, Holders
<1>2. rows[o].version \in Nat /\ rows[o].attempts \in Nat
  BY RowFacts DEF IInv, TypeOK
<1>3. /\ worker' \in [Outboxes -> Worker]
      /\ worker'[o] = [step |-> "waiting", version |-> rows[o].version,
                       attempts |-> rows[o].attempts, failed |-> FALSE]
      /\ \A q \in Outboxes : q # o => worker'[q] = worker[q]
  BY <1>2 DEF IInv, TypeOK, SelectDue, Worker
<1>4. TypeOK'
  BY <1>1, <1>3 DEF IInv, TypeOK, SelectDue, Holders
<1>5. ASSUME NEW q \in Outboxes
      PROVE  OutboxInv(q)'
  <2>1. RowInv(q)'
    BY DEF IInv, OutboxInv, RowInv, SelectDue
  <2>2. CASE q = o
    <3>1. /\ worker'[q].version = committed[q]
          /\ worker'[q].step = "waiting" /\ ~worker'[q].failed
      BY <1>3, <2>2 DEF IInv, OutboxInv, RowInv, SelectDue, Pending
    <3>2. committed' = committed /\ committed[q] \in Nat
      BY DEF IInv, TypeOK, SelectDue
    <3> QED BY <2>1, <3>1, <3>2 DEF OutboxInv, WorkerInv
  <2>3. CASE q # o
    <3>1. worker'[q] = worker[q] /\ (HasDocument(q) => HasDocument(q)')
      BY <1>1, <1>3, <2>3 DEF Holders
    <3> QED BY <2>1, <3>1
            DEF IInv, OutboxInv, WorkerInv, SelectDue, Pending
  <2> QED BY <2>2, <2>3
<1> QED BY <1>4, <1>5 DEF IInv

\* A worker that still finds its row holds the document; another goes idle.
LEMMA RecheckStep ==
    ASSUME IInv, NEW o \in Outboxes, Recheck(o)
    PROVE  IInv'
<1>1. CASE Fenced(o) /\ rows[o].due
  <2>1. /\ queue' = queue /\ Pending(o) /\ HasDocument(o)
        /\ worker' = [worker EXCEPT ![o].step = "publishing"]
    BY <1>1 DEF Recheck, Fenced
  <2>2. /\ worker' \in [Outboxes -> Worker]
        /\ worker'[o].step = "publishing"
        /\ worker'[o].version = worker[o].version
        /\ worker'[o].failed = worker[o].failed
        /\ \A q \in Outboxes : q # o => worker'[q] = worker[q]
    BY <2>1 DEF IInv, TypeOK, Worker
  <2>3. TypeOK'
    BY <2>1, <2>2 DEF IInv, TypeOK, Recheck
  <2>4. ASSUME NEW q \in Outboxes
        PROVE  OutboxInv(q)'
    <3>1. RowInv(q)'
      BY DEF IInv, OutboxInv, RowInv, Recheck
    <3>2. worker[o].version <= committed[o] /\ ~worker[o].failed
      BY DEF IInv, OutboxInv, WorkerInv, Recheck
    <3>3. CASE q = o
      BY <2>1, <2>2, <3>1, <3>2, <3>3
         DEF OutboxInv, WorkerInv, Recheck, Pending, HasDocument
    <3>4. CASE q # o
      BY <2>1, <2>2, <3>1, <3>4
         DEF IInv, OutboxInv, WorkerInv, Recheck, Pending, HasDocument
    <3> QED BY <3>3, <3>4
  <2> QED BY <2>3, <2>4 DEF IInv
<1>2. CASE ~(Fenced(o) /\ rows[o].due)
  <2>1. RowInv(o)'
    BY DEF IInv, OutboxInv, RowInv, Recheck
  <2> QED BY <1>2, <2>1, IdleStep DEF Recheck, IInv, TypeOK
<1> QED BY <1>1, <1>2

\* A publication announces the last commit, whichever version the worker read.
LEMMA PublishSucceedsStep ==
    ASSUME IInv, NEW o \in Outboxes, PublishSucceeds(o)
    PROVE  IInv'
<1>1. /\ worker[o].step = "publishing" /\ ~worker[o].failed
      /\ Pending(o) /\ HasDocument(o)
      /\ worker[o].version <= committed[o]
  BY DEF IInv, OutboxInv, WorkerInv, PublishSucceeds
<1>2. /\ worker' \in [Outboxes -> Worker]
      /\ worker'[o].step = "settling"
      /\ worker'[o].version = worker[o].version
      /\ worker'[o].failed = worker[o].failed
      /\ \A q \in Outboxes : q # o => worker'[q] = worker[q]
  BY DEF IInv, TypeOK, PublishSucceeds, Worker
<1>3. /\ announced' \in [Outboxes -> Nat]
      /\ announced'[o] = committed[o]
      /\ \A q \in Outboxes : q # o => announced'[q] = announced[q]
  BY DEF IInv, TypeOK, PublishSucceeds
<1>4. TypeOK'
  BY <1>2, <1>3 DEF IInv, TypeOK, PublishSucceeds
<1>5. ASSUME NEW q \in Outboxes
      PROVE  OutboxInv(q)'
  <2>1. CASE q = o
    BY <1>1, <1>2, <1>3, <2>1
       DEF IInv, OutboxInv, RowInv, WorkerInv, PublishSucceeds, Pending, HasDocument
  <2>2. CASE q # o
    BY <1>2, <1>3, <2>2
       DEF IInv, OutboxInv, RowInv, WorkerInv, PublishSucceeds, Pending, HasDocument
  <2> QED BY <2>1, <2>2
<1> QED BY <1>4, <1>5 DEF IInv

\* A failed publication is counted before it is written down.
LEMMA PublishFailsStep ==
    ASSUME IInv, NEW o \in Outboxes, PublishFails(o)
    PROVE  IInv'
<1>1. /\ worker[o].step = "publishing"
      /\ Pending(o) /\ HasDocument(o)
      /\ worker[o].version <= committed[o]
      /\ rows[o].attempts <= failures[o]
  BY DEF IInv, OutboxInv, RowInv, WorkerInv, PublishFails, Pending
<1>2. /\ worker' \in [Outboxes -> Worker]
      /\ worker'[o].step = "settling"
      /\ worker'[o].version = worker[o].version
      /\ worker'[o].failed
      /\ \A q \in Outboxes : q # o => worker'[q] = worker[q]
  BY DEF IInv, TypeOK, PublishFails, Worker
<1>3. /\ rows[o].attempts \in Nat /\ rows[o].attempts < MaxAttempts
      /\ failures[o] \in 0 .. MaxAttempts
  BY <1>1, RowFacts DEF IInv, TypeOK, Pending
<1>4. /\ failures' \in [Outboxes -> 0 .. MaxAttempts]
      /\ failures'[o] = IF failures[o] < MaxAttempts THEN failures[o] + 1
                        ELSE failures[o]
      /\ \A q \in Outboxes : q # o => failures'[q] = failures[q]
  BY <1>3, MaxAttemptsAssumption DEF IInv, TypeOK, PublishFails
<1>5. rows[o].attempts < failures'[o] /\ rows[o].attempts <= failures'[o]
  BY <1>1, <1>3, <1>4, MaxAttemptsAssumption
<1>6. TypeOK'
  BY <1>2, <1>4 DEF IInv, TypeOK, PublishFails
<1>7. ASSUME NEW q \in Outboxes
      PROVE  OutboxInv(q)'
  <2>1. CASE q = o
    BY <1>1, <1>2, <1>5, <2>1
       DEF IInv, OutboxInv, RowInv, WorkerInv, PublishFails, Pending, HasDocument
  <2>2. CASE q # o
    BY <1>2, <1>4, <2>2
       DEF IInv, OutboxInv, RowInv, WorkerInv, PublishFails, Pending, HasDocument
  <2> QED BY <2>1, <2>2
<1> QED BY <1>6, <1>7 DEF IInv

\* Settling turns the row into what its publication earned, or leaves a newer
\* row alone.
LEMMA SettleStep ==
    ASSUME IInv, NEW o \in Outboxes, Settle(o)
    PROVE  IInv'
<1>1. /\ worker[o].step = "settling"
      /\ Pending(o) /\ HasDocument(o) /\ OutboxInv(o)
      /\ rows[o] \in Row
  BY DEF IInv, TypeOK, OutboxInv, WorkerInv, Settle
<1>2. Settled(o) \in Row
  BY <1>1, WrittenRows DEF Settled, Pending
<1>3. /\ rows' \in [Outboxes -> Row]
      /\ rows'[o] = Settled(o)
      /\ \A q \in Outboxes : q # o => rows'[q] = rows[q]
  BY <1>2 DEF IInv, TypeOK, Settle
<1>4. RowInv(o)'
  <2>1. CASE Settled(o) = rows[o]
    BY <1>1, <1>3, <2>1 DEF OutboxInv, RowInv, Settle
  <2>2. CASE ~worker[o].failed /\ MayDelete(o) /\ Settled(o) = NoRow
    <3>1. rows[o].version = worker[o].version
      BY <2>2 DEF MayDelete, Fenced
    <3>2. announced[o] = committed[o]
      BY <1>1, <2>2, <3>1 DEF OutboxInv, WorkerInv
    <3> QED BY <1>3, <2>2, <3>2 DEF RowInv, NoRow, Settle
  <2>3. CASE worker[o].failed /\ Fenced(o) /\ Settled(o) = AfterFailure(rows[o])
    <3>1. rows[o].version = worker[o].version
      BY <2>3 DEF Fenced
    <3>2. rows[o].attempts < failures[o]
      BY <1>1, <2>3, <3>1 DEF OutboxInv, WorkerInv
    <3>3. rows[o].attempts \in Nat /\ failures[o] \in Nat
      BY <1>1, RowFacts, MaxAttemptsAssumption DEF IInv, TypeOK
    <3>4. /\ rows'[o].status # "none"
          /\ rows'[o].version = rows[o].version
          /\ rows'[o].attempts = rows[o].attempts + 1
      BY <1>3, <2>3 DEF AfterFailure
    <3>5. rows[o].version = committed[o] /\ committed[o] >= 1
      BY <1>1 DEF OutboxInv, RowInv, Pending
    <3> QED BY <3>2, <3>3, <3>4, <3>5 DEF RowInv, Settle
  <2> QED BY <2>1, <2>2, <2>3 DEF Settled
<1> QED BY <1>1, <1>3, <1>4, IdleStep DEF Settle, IInv, TypeOK

\* A failed transaction only makes the worker start over.
LEMMA StorageFailsStep ==
    ASSUME IInv, NEW o \in Outboxes, StorageFails(o)
    PROVE  IInv'
<1>1. HasDocument(o)
  BY DEF IInv, OutboxInv, WorkerInv, StorageFails
<1>2. RowInv(o)'
  BY DEF IInv, OutboxInv, RowInv, StorageFails
<1>3. /\ Release
      /\ worker' = [worker EXCEPT ![o] = Idle]
      /\ faults' \in Nat
      /\ rows' \in [Outboxes -> Row]
      /\ \A q \in Outboxes : q # o => rows'[q] = rows[q]
      /\ UNCHANGED <<committed, announced, failures>>
  BY DEF StorageFails, IInv, TypeOK
<1> QED BY ONLY IInv, <1>1, <1>2, <1>3, IdleStep

\* A crash loses workers and queue, never a row.
LEMMA CrashStep ==
    ASSUME IInv, Crash
    PROVE  IInv'
<1>1. worker' = [o \in Outboxes |-> Idle]
  BY DEF Crash
<1>2. TypeOK'
  BY <1>1 DEF IInv, TypeOK, Crash, Idle, Worker
<1>3. ASSUME NEW q \in Outboxes
      PROVE  OutboxInv(q)'
  BY <1>1 DEF IInv, OutboxInv, RowInv, WorkerInv, Crash, Idle
<1> QED BY <1>2, <1>3 DEF IInv

\* Time makes a row due and changes nothing the invariant speaks of.
LEMMA BecomeDueStep ==
    ASSUME IInv, NEW o \in Outboxes, BecomeDue(o)
    PROVE  IInv'
<1>1. [rows[o] EXCEPT !.due = TRUE] \in Row
  BY WrittenRows DEF IInv, TypeOK, BecomeDue, Pending
<1>2. rows' \in [Outboxes -> Row]
  BY <1>1 DEF IInv, TypeOK, BecomeDue
<1>3. ASSUME NEW q \in Outboxes
      PROVE  /\ rows'[q].status = rows[q].status
             /\ rows'[q].version = rows[q].version
             /\ rows'[q].attempts = rows[q].attempts
  <2>1. CASE q = o
    <3>1. rows'[q] = [rows[q] EXCEPT !.due = TRUE]
      BY <2>1 DEF IInv, TypeOK, BecomeDue
    <3> QED BY <3>1 DEF IInv, TypeOK, Row
  <2>2. CASE q # o
    BY <2>2 DEF IInv, TypeOK, BecomeDue
  <2> QED BY <2>1, <2>2
<1>4. TypeOK'
  BY <1>2 DEF IInv, TypeOK, BecomeDue
<1>5. ASSUME NEW q \in Outboxes
      PROVE  OutboxInv(q)'
  BY <1>3 DEF IInv, OutboxInv, RowInv, WorkerInv, BecomeDue, Pending, HasDocument
<1> QED BY <1>4, <1>5 DEF IInv

-----------------------------------------------------------------------------
(* Theorems.                                                               *)

\* No job, no commit, nobody working.
LEMMA InitIInv == Init => IInv
<1> SUFFICES ASSUME Init PROVE IInv
  OBVIOUS
<1>1. TypeOK
  BY WrittenRows, MaxAttemptsAssumption DEF Init, TypeOK, Idle, Worker
<1>2. ASSUME NEW o \in Outboxes
      PROVE  OutboxInv(o)
  BY DEF Init, OutboxInv, RowInv, WorkerInv, NoRow, Idle
<1> QED BY <1>1, <1>2 DEF IInv

\* The invariant is inductive: one case per action.
LEMMA StepIInv == IInv /\ [Next]_vars => IInv'
<1> SUFFICES ASSUME IInv, [Next]_vars PROVE IInv'
  OBVIOUS
<1>1. CASE Commit
  BY <1>1, CommitStep
<1>2. CASE BeginClientAppend
  <2>1. /\ queue' \in Seq(Holders)
        /\ \A q \in Holders : HasDocument(q) => HasDocument(q)'
    BY <1>2, AwaitFacts DEF IInv, TypeOK, BeginClientAppend, Holders
  <2> QED BY <1>2, <2>1, QueueStep DEF BeginClientAppend, Holders
<1>3. CASE EndClientAppend
  <2>1. /\ queue' \in Seq(Holders)
        /\ \A q : HasDocument(q) => q = "append"
    BY <1>3, ReleaseFacts DEF IInv, TypeOK, EndClientAppend, Holders
  <2>2. "append" \notin Outboxes
    BY OutboxesAssumption
  <2> QED BY <1>3, <2>1, <2>2, QueueStep DEF EndClientAppend
<1>4. ASSUME NEW o \in Outboxes, Deliver(o)
      PROVE  IInv'
  BY <1>4, SelectStep, RecheckStep, PublishSucceedsStep, PublishFailsStep,
     SettleStep DEF Deliver, Publish
<1>5. ASSUME NEW o \in Outboxes, StorageFails(o)
      PROVE  IInv'
  BY <1>5, StorageFailsStep
<1>6. ASSUME NEW o \in Outboxes, BecomeDue(o)
      PROVE  IInv'
  BY <1>6, BecomeDueStep
<1>7. CASE Crash
  BY <1>7, CrashStep
<1>8. CASE UNCHANGED vars
  BY <1>8 DEF vars, IInv, TypeOK, OutboxInv, RowInv, WorkerInv, Pending, HasDocument
<1> QED BY <1>1, <1>2, <1>3, <1>4, <1>5, <1>6, <1>7, <1>8 DEF Next

\* The invariant holds in every reachable state, whatever web processes commit
\* and replay, and however often the sidecar fails or crashes.
THEOREM Invariance == Spec => []IInv
<1> QED BY InitIInv, StepIInv, PTL DEF Spec

\* Every job row satisfies the retry_state check of its table: a waiting row has
\* an attempt left, an exhausted one has used them all.
THEOREM TypeCorrect == Spec => []TypeOK
<1>1. IInv => TypeOK
  BY DEF IInv
<1> QED BY <1>1, Invariance, PTL

\* A job row disappears only when the room has been told of the last commit.
THEOREM LosesNothing == Spec => []NothingLost
<1>1. IInv => NothingLost
  BY DEF IInv, OutboxInv, RowInv, NothingLost
<1> QED BY <1>1, Invariance, PTL

\* An exhausted row stands for MaxAttempts failed publications of its revision.
THEOREM EarnsExhaustion == Spec => []FullBudget
<1>1. ASSUME IInv, NEW o \in Outboxes, rows[o].status = "exhausted"
      PROVE  rows[o].version = committed[o] /\ failures[o] = MaxAttempts
  <2>1. rows[o].attempts = MaxAttempts /\ failures[o] \in 0 .. MaxAttempts
    BY <1>1, RowFacts DEF IInv, TypeOK
  <2> QED BY <1>1, <2>1, MaxAttemptsAssumption DEF IInv, OutboxInv, RowInv
<1>2. IInv => FullBudget
  BY <1>1 DEF FullBudget
<1> QED BY <1>2, Invariance, PTL

\* Publications and settlements of one document never overlap.
THEOREM SerializesDelivery == Spec => []HoldsDocument
<1>1. IInv => HoldsDocument
  BY DEF IInv, OutboxInv, WorkerInv, HoldsDocument
<1> QED BY <1>1, Invariance, PTL

=============================================================================
