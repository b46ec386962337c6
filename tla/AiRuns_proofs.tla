---------------------------- MODULE AiRuns_proofs ----------------------------
(***************************************************************************)
(* Proofs about AiRuns: for any requests, times and bounds one live        *)
(* attempt owns the run, there is one result, and it is kept for good.     *)
(*                                                                         *)
(* The invariant is stated per request, of its record, the row and the     *)
(* clock (Sound).  A step either changes one record and leaves the row     *)
(* alone (QuietStep), or changes the row too; then the row is not          *)
(* completed, and is pending only for the request that changes it, so that *)
(* nobody else says anything of it (RowStep).                              *)
(***************************************************************************)
EXTENDS AiRuns, TLAPS

Claiming == {"insert", "read", "retry", "raced"}

\* What the invariant says of request q whose record is r, while the row is
\* row and the time is time.
Sound(q, r, row, time) ==
    /\ r.phase # "idle" /\ r.answer = "none" =>
        /\ ~r.failing
        /\ r.start <= time /\ time <= r.start + StaleAfter
        /\ r.phase = "insert" => r.start <= r.now
        /\ r.phase \in {"run", "complete"} =>
            /\ row.status = "pending" /\ row.token = q
            /\ row.asks = r.asks
            /\ r.start <= row.updated
        /\ r.phase = "deliver" =>
            row.status = "completed" /\ row.output = q /\ row.asks = r.asks
    /\ r.phase \in Claiming => r.snapshot = r.asks.barrier
    /\ r.phase # "idle" /\ r.answer = "ok" =>
        row.status = "completed" /\ r.result = row.output /\ r.asks = row.asks

\* What it says of the row and its proposals.
RowSound(row, results) ==
    /\ row \in Run \cup {NoRun}
    /\ results \subseteq Proposal
    /\ row.status # "absent" => row.snapshot = row.asks.barrier
    /\ row.status = "completed" <=> results # {}
    /\ \A p \in results : p = [by |-> row.output, anchor |-> row.snapshot]

IInv ==
    /\ clock \in Nat /\ head \in Nat /\ faults \in Nat
    /\ request \in [Requests -> Request \cup {Idle}]
    /\ RowSound(run, proposals)
    /\ \A q \in Requests : Sound(q, request[q], run, clock)

-----------------------------------------------------------------------------

\* A record that is not idle is one of a request.
LEMMA Known ==
    ASSUME IInv, NEW q \in Requests, ~At(q, "idle")
    PROVE  request[q] \in Request
BY DEF IInv, At, Idle

\* What a request's record is when its promise has settled.
LEMMA EndedRecord ==
    ASSUME IInv, NEW q \in Requests, ~At(q, "idle"),
           NEW answer \in {"error", "ok"}, NEW result \in Requests \cup {None}
    PROVE  /\ Ended(q, answer, result) \in Request
           /\ Ended(q, answer, result).phase = "done"
           /\ Ended(q, answer, result).answer # "none"
           /\ Ended(q, answer, result).asks = request[q].asks
           /\ Ended(q, answer, result).failing = request[q].failing
           /\ Ended(q, answer, result).lease = request[q].lease
           /\ Ended(q, answer, result).answer =
                IF Live(q) THEN answer ELSE request[q].answer
           /\ Ended(q, answer, result).result =
                IF Live(q) THEN result ELSE request[q].result
<1>1. request[q] \in Request
    BY Known
<1> QED
    BY <1>1 DEF Ended, Live, Request, At

\* The step of one request that leaves the row alone.
LEMMA QuietStep ==
    ASSUME IInv, NEW q \in Requests, NEW r \in Request,
           request' = [request EXCEPT ![q] = r],
           Sound(q, r, run, clock),
           UNCHANGED <<clock, run, proposals>>, head' \in Nat, faults' \in Nat
    PROVE  IInv'
<1>1. request' \in [Requests -> Request \cup {Idle}]
    BY DEF IInv
<1>2. \A p \in Requests : Sound(p, request'[p], run, clock)
    BY DEF IInv
<1> QED
    BY <1>1, <1>2 DEF IInv

\* The step of one request that changes the row: it owns the row, or nobody
\* does.
LEMMA RowStep ==
    ASSUME IInv, NEW q \in Requests, NEW r \in Request,
           request' = [request EXCEPT ![q] = r],
           run.status # "completed",
           run.status = "pending" => run.token = q,
           RowSound(run', proposals'), Sound(q, r, run', clock),
           UNCHANGED <<clock, head, faults>>
    PROVE  IInv'
<1>1. request' \in [Requests -> Request \cup {Idle}]
    BY DEF IInv
<1>2. \A p \in Requests : Sound(p, request'[p], run', clock)
    <2> SUFFICES ASSUME NEW p \in Requests, p # q
                 PROVE  Sound(p, request'[p], run', clock)
        BY DEF IInv
    <2>1. request'[p] = request[p] /\ Sound(p, request[p], run, clock)
        BY DEF IInv
    <2> QED
        BY <2>1 DEF Sound
<1> QED
    BY <1>1, <1>2 DEF IInv

\* A request whose promise settles without a result.
LEMMA RefusedStep ==
    ASSUME IInv, NEW q \in Requests, ~At(q, "idle"), Refused(q),
           UNCHANGED <<clock, head, run, proposals, faults>>
    PROVE  IInv'
<1> DEFINE r == Ended(q, "error", None)
<1>1. r \in Request /\ r.phase = "done" /\ r.answer # "none"
      /\ r.asks = request[q].asks
      /\ r.answer = (IF Live(q) THEN "error" ELSE request[q].answer)
      /\ r.result = (IF Live(q) THEN None ELSE request[q].result)
    BY EndedRecord
<1>2. Sound(q, r, run, clock)
    <2>1. Sound(q, request[q], run, clock)
        BY DEF IInv
    <2> HIDE DEF r
    <2> QED
        BY <1>1, <2>1 DEF Sound, Claiming, Live, At
<1> QED
    BY <1>1, <1>2, QuietStep DEF Refused, Settle, IInv

\* The same with a failure on its way.
LEMMA FailingStep ==
    ASSUME IInv, NEW q \in Requests, ~At(q, "idle"), NEW lease \in Nat,
           RefusedAndFailing(q, lease),
           UNCHANGED <<clock, head, run, proposals, faults>>
    PROVE  IInv'
<1> DEFINE e == Ended(q, "error", None)
           r == [e EXCEPT !.failing = TRUE, !.lease = lease]
<1>1. e \in Request /\ e.phase = "done" /\ e.answer # "none"
      /\ e.asks = request[q].asks
      /\ e.answer = (IF Live(q) THEN "error" ELSE request[q].answer)
      /\ e.result = (IF Live(q) THEN None ELSE request[q].result)
    BY EndedRecord
<1>2. /\ r \in Request /\ r.phase = "done" /\ r.answer = e.answer
      /\ r.asks = e.asks /\ r.result = e.result
    <2> HIDE DEF e
    <2> QED
        BY <1>1 DEF Request
<1>3. Sound(q, r, run, clock)
    <2>1. Sound(q, request[q], run, clock)
        BY DEF IInv
    <2> HIDE DEF e, r
    <2> QED
        BY <1>1, <1>2, <2>1 DEF Sound, Claiming, Live, At
<1> QED
    BY <1>2, <1>3, QuietStep DEF RefusedAndFailing, IInv

\* A promise settles with the result of the run.
LEMMA AnsweredStep ==
    ASSUME IInv, NEW q \in Requests, ~At(q, "idle"),
           NEW result \in Requests, Settle(q, "ok", result),
           Live(q) => /\ run.status = "completed" /\ run.output = result
                      /\ run.asks = request[q].asks,
           UNCHANGED <<clock, head, run, proposals, faults>>
    PROVE  IInv'
<1> DEFINE r == Ended(q, "ok", result)
<1>1. r \in Request /\ r.phase = "done" /\ r.answer # "none"
      /\ r.asks = request[q].asks
      /\ r.answer = (IF Live(q) THEN "ok" ELSE request[q].answer)
      /\ r.result = (IF Live(q) THEN result ELSE request[q].result)
    BY EndedRecord
<1>2. Sound(q, r, run, clock)
    <2>1. Sound(q, request[q], run, clock)
        BY DEF IInv
    <2> HIDE DEF r
    <2> QED
        BY <1>1, <2>1 DEF Sound, Claiming, Live, At
<1> QED
    BY <1>1, <1>2, QuietStep DEF Settle, IInv

\* The output of a completed run names a request.
LEMMA CompletedOutput ==
    ASSUME IInv, run.status = "completed"
    PROVE  run.output \in Requests
BY DEF IInv, RowSound, Run, NoRun

\* Every reply of a verdict is sound when the verdict is about the request's
\* own operation.
LEMMA ReplyStep ==
    ASSUME IInv, NEW q \in Requests, ~At(q, "idle"), NEW verdict, Reply(q, verdict),
           verdict = "completed" =>
                run.status = "completed" /\ run.asks = request[q].asks,
           UNCHANGED <<clock, head, run, proposals, faults>>
    PROVE  IInv'
<1>1. CASE verdict = "completed"
    <2>1. run.output \in Requests /\ Settle(q, "ok", run.output)
        BY <1>1, CompletedOutput DEF Reply
    <2> QED
        BY <1>1, <2>1, AnsweredStep
<1>2. CASE verdict # "completed"
    BY <1>2, RefusedStep DEF Reply
<1> QED
    BY <1>1, <1>2

\* Two verdicts that matter.
LEMMA VerdictMeaning ==
    /\ Verdict = "completed" <=> run.status = "completed"
    /\ Verdict = "open" => run.status # "completed" /\ run.status # "pending"
BY DEF Verdict

\* A request moves on without the invariant saying more of where it goes.
LEMMA GoStep ==
    ASSUME IInv, NEW q \in Requests, ~At(q, "idle"),
           NEW phase \in {"prepare", "read", "retry", "raced"}, Go(q, phase),
           phase # "prepare" => request[q].phase \in Claiming,
           UNCHANGED <<clock, head, run, proposals, faults>>
    PROVE  IInv'
<1> DEFINE r == [request[q] EXCEPT !.phase = phase]
<1>1. request[q] \in Request /\ Sound(q, request[q], run, clock)
    BY Known DEF IInv
<1>2. r \in Request /\ Sound(q, r, run, clock)
    BY <1>1 DEF Request, Sound, Claiming
<1> QED
    BY <1>2, QuietStep DEF Go, IInv

-----------------------------------------------------------------------------
(* One lemma per step.                                                     *)

LEMMA BeginStep ==
    ASSUME IInv, NEW q \in Requests, Begin(q)
    PROVE  IInv'
<1>1. PICK payload \in Payloads, barrier \in 0 .. head :
        request' = [request EXCEPT ![q] =
            [phase |-> "lookup",
             asks |-> [payload |-> payload, barrier |-> barrier],
             start |-> clock, now |-> 0, snapshot |-> 0,
             failing |-> FALSE, lease |-> 0, answer |-> "none", result |-> None]]
    BY DEF Begin
<1> DEFINE r == [phase |-> "lookup",
             asks |-> [payload |-> payload, barrier |-> barrier],
             start |-> clock, now |-> 0, snapshot |-> 0,
             failing |-> FALSE, lease |-> 0, answer |-> "none", result |-> None]
<1>2. barrier \in Nat /\ clock \in Nat /\ StaleAfter \in Nat
    BY TimesAssumption DEF IInv
<1>3. r \in Request
    BY <1>2 DEF Request, Operation
<1>4. Sound(q, r, run, clock)
    BY <1>2 DEF Sound, Claiming
<1> QED
    BY <1>1, <1>3, <1>4, QuietStep DEF Begin, IInv

LEMMA LookupStep ==
    ASSUME IInv, NEW q \in Requests, Lookup(q)
    PROVE  IInv'
<1> DEFINE verdict == IF run.status # "absent" /\ run.asks # request[q].asks
                      THEN "conflict" ELSE Verdict
<1>1. ~At(q, "idle") /\ (IF verdict = "open" THEN Go(q, "prepare") ELSE Reply(q, verdict))
    BY DEF Lookup, At
<1>2. verdict = "completed" => run.status = "completed" /\ run.asks = request[q].asks
    BY VerdictMeaning
<1> HIDE DEF verdict
<1> QED
    BY <1>1, <1>2, GoStep, ReplyStep DEF Lookup

LEMMA PrepareStep ==
    ASSUME IInv, NEW q \in Requests, Prepare(q)
    PROVE  IInv'
<1>1. ~At(q, "idle")
    BY DEF Prepare, At
<1>2. CASE request[q].asks.barrier = head
    <2> DEFINE r == [request[q] EXCEPT !.phase = "insert",
                        !.snapshot = head, !.now = clock]
    <2>1. request[q] \in Request /\ Sound(q, request[q], run, clock)
          /\ clock \in Nat /\ head \in Nat
        BY <1>1, Known DEF IInv
    <2>2. r \in Request
        BY <2>1 DEF Request
    <2>3. Sound(q, r, run, clock)
        BY <1>2, <2>1 DEF Request, Sound, Claiming, Prepare, At
    <2>4. request' = [request EXCEPT ![q] = r]
        BY <1>2 DEF Prepare
    <2> QED
        BY <2>1, <2>2, <2>3, <2>4, QuietStep DEF Prepare, IInv
<1>3. CASE request[q].asks.barrier # head
    BY <1>1, <1>3, RefusedStep DEF Prepare
<1> QED
    BY <1>2, <1>3

LEMMA FailsStep ==
    ASSUME IInv, NEW q \in Requests, Fails(q)
    PROVE  IInv'
BY RefusedStep DEF Fails, At

\* A claim that succeeds, whichever statement made it.
LEMMA ClaimedStep ==
    ASSUME IInv, NEW q \in Requests, request[q].phase \in Claiming, Claimed(q),
           run.status \notin {"completed", "pending"},
           run' \in Run, run'.status = "pending", run'.token = q,
           run'.asks = request[q].asks, run'.snapshot = run'.asks.barrier,
           Live(q) => request[q].start <= run'.updated,
           UNCHANGED <<clock, head, proposals, faults>>
    PROVE  IInv'
<1>1. ~At(q, "idle") /\ request[q] \in Request
      /\ Sound(q, request[q], run, clock)
    BY Known DEF Claiming, At, IInv
<1>2. RowSound(run', proposals')
    BY DEF RowSound, IInv
<1>3. CASE Live(q)
    <2> DEFINE r == [request[q] EXCEPT !.phase = "run", !.now = 0]
    <2>1. r \in Request
        BY <1>1 DEF Request
    <2>2. Sound(q, r, run', clock)
        BY <1>1, <1>3 DEF Sound, Request, Claiming, Live
    <2>3. request' = [request EXCEPT ![q] = r]
        BY <1>3 DEF Claimed, Execute
    <2> QED
        BY <1>2, <2>1, <2>2, <2>3, RowStep
<1>4. CASE ~Live(q)
    <2> DEFINE e == Ended(q, "error", None)
               r == [e EXCEPT !.failing = TRUE, !.lease = clock + Deadline]
    <2>1. e \in Request /\ e.phase = "done" /\ e.answer # "none"
          /\ e.answer = (IF Live(q) THEN "error" ELSE request[q].answer)
        BY <1>1, EndedRecord
    <2>2. clock + Deadline \in Nat
        BY TimesAssumption DEF IInv
    <2>3. r \in Request /\ r.phase = "done" /\ r.answer = e.answer
        <3> HIDE DEF e
        <3> QED
            BY <2>1, <2>2 DEF Request
    <2>4. r.answer # "ok"
        BY <1>1, <1>4, <2>1, <2>3 DEF Sound, At
    <2>5. Sound(q, r, run', clock)
        <3> HIDE DEF e, r
        <3> QED
            BY <2>1, <2>3, <2>4 DEF Sound, Claiming
    <2>6. request' = [request EXCEPT ![q] = r]
        BY <1>4 DEF Claimed, RefusedAndFailing
    <2> HIDE DEF e, r
    <2> QED
        BY <1>2, <2>3, <2>5, <2>6, RowStep
<1> QED
    BY <1>3, <1>4

LEMMA ClaimInsertStep ==
    ASSUME IInv, NEW q \in Requests, ClaimInsert(q)
    PROVE  IInv'
<1>1. ~At(q, "idle") /\ request[q].phase \in Claiming
      /\ request[q] \in Request /\ Sound(q, request[q], run, clock)
    BY Known DEF ClaimInsert, At, Claiming, IInv
<1>2. CASE run.status # "absent"
    BY <1>1, <1>2, GoStep DEF ClaimInsert
<1>3. CASE run.status = "absent" /\ Fenced(request[q].snapshot)
    BY <1>1, <1>3, RefusedStep DEF ClaimInsert
<1>4. CASE run.status = "absent" /\ ~Fenced(request[q].snapshot)
    <2>1. run' = [status |-> "pending", asks |-> request[q].asks,
                  snapshot |-> request[q].snapshot, token |-> q,
                  lease |-> 0, updated |-> request[q].now, output |-> None]
          /\ Claimed(q)
        BY <1>4 DEF ClaimInsert
    <2>2. run' \in Run
        BY <1>1, <2>1 DEF Run, Request
    <2>3. request[q].snapshot = request[q].asks.barrier
        BY <1>1 DEF Sound
    <2>4. Live(q) => request[q].start <= request[q].now
        BY <1>1 DEF Sound, Live, ClaimInsert, At
    <2> QED
        BY <1>1, <1>4, <2>1, <2>2, <2>3, <2>4, ClaimedStep DEF ClaimInsert
<1> QED
    BY <1>2, <1>3, <1>4

LEMMA ClaimReadStep ==
    ASSUME IInv, NEW q \in Requests, ClaimRead(q)
    PROVE  IInv'
<1>1. ~At(q, "idle") /\ request[q].phase \in Claiming
    BY DEF ClaimRead, At, Claiming
<1>2. Classified(q) = "completed" =>
        run.status = "completed" /\ run.asks = request[q].asks
    BY VerdictMeaning DEF Classified
<1> QED
    BY <1>1, <1>2, GoStep, ReplyStep DEF ClaimRead

LEMMA ClaimRetryStep ==
    ASSUME IInv, NEW q \in Requests, ClaimRetry(q)
    PROVE  IInv'
<1>1. ~At(q, "idle") /\ request[q].phase \in Claiming
      /\ request[q] \in Request /\ Sound(q, request[q], run, clock)
    BY Known DEF ClaimRetry, At, Claiming, IInv
<1>2. CASE Fenced(request[q].snapshot)
    BY <1>1, <1>2, RefusedStep DEF ClaimRetry
<1>3. CASE ~Fenced(request[q].snapshot) /\ Retriable(q)
    <2>1. /\ run' = [run EXCEPT !.status = "pending", !.token = q,
                         !.lease = 0, !.updated = clock, !.output = None]
          /\ Claimed(q)
        BY <1>3 DEF ClaimRetry
    <2>2. run.status = "failed" /\ run.asks = request[q].asks
        BY <1>3 DEF Retriable
    <2>3. run \in Run /\ run.snapshot = run.asks.barrier
        BY <2>2 DEF IInv, RowSound, NoRun
    <2>4. run' \in Run /\ run'.status = "pending" /\ run'.token = q
          /\ run'.asks = run.asks /\ run'.snapshot = run.snapshot
          /\ run'.updated = clock
        BY <2>1, <2>2, <2>3 DEF Run, IInv
    <2>5. Live(q) => request[q].start <= clock
        BY <1>1 DEF Sound, Live
    <2> QED
        BY <1>1, <2>1, <2>2, <2>3, <2>4, <2>5, ClaimedStep DEF ClaimRetry
<1>4. CASE ~Fenced(request[q].snapshot) /\ ~Retriable(q)
    BY <1>1, <1>4, GoStep DEF ClaimRetry
<1> QED
    BY <1>2, <1>3, <1>4

LEMMA ClaimRacedStep ==
    ASSUME IInv, NEW q \in Requests, ClaimRaced(q)
    PROVE  IInv'
<1>1. ~At(q, "idle")
    BY DEF ClaimRaced, At
<1>2. Classified(q) = "completed" =>
        run.status = "completed" /\ run.asks = request[q].asks
    BY VerdictMeaning DEF Classified
<1> QED
    BY <1>1, <1>2, ReplyStep DEF ClaimRaced

LEMMA ProviderStep ==
    ASSUME IInv, NEW q \in Requests, ProviderAnswers(q) \/ ProviderFails(q)
    PROVE  IInv'
<1>1. ~At(q, "idle") /\ request[q] \in Request /\ Sound(q, request[q], run, clock)
    BY Known DEF ProviderAnswers, ProviderFails, At, IInv
<1>2. CASE ProviderAnswers(q)
    <2> DEFINE r == [request[q] EXCEPT !.phase = "complete"]
    <2>1. r \in Request /\ Sound(q, r, run, clock)
        BY <1>1, <1>2 DEF Request, Sound, Claiming, ProviderAnswers, At
    <2> QED
        BY <1>2, <2>1, QuietStep DEF ProviderAnswers, Go, IInv
<1>3. CASE ProviderFails(q)
    BY <1>1, <1>3, FailingStep DEF ProviderFails
<1> QED
    BY <1>2, <1>3

LEMMA ThrowsStep ==
    ASSUME IInv, NEW q \in Requests, ~At(q, "idle"), Throws(q),
           UNCHANGED <<clock, head, run, proposals, faults>>
    PROVE  IInv'
BY RefusedStep, FailingStep DEF Throws

\* The transaction that completes the run.
LEMMA CommitStep ==
    ASSUME IInv, NEW q \in Requests, At(q, "complete"), Holds(q),
           request[q].snapshot = run.snapshot,
           run' = [run EXCEPT !.status = "completed", !.token = None,
                              !.lease = 0, !.updated = clock, !.output = q],
           proposals' = proposals \cup
                {[by |-> q, anchor |-> request[q].snapshot]},
           IF Live(q) THEN Go(q, "deliver") ELSE Refused(q),
           UNCHANGED <<clock, head, faults>>
    PROVE  IInv'
<1>1. ~At(q, "idle") /\ request[q] \in Request /\ Sound(q, request[q], run, clock)
    BY Known DEF At, IInv
<1>2. run \in Run /\ run.status = "pending" /\ run.token = q
      /\ run.snapshot = run.asks.barrier /\ proposals = {} /\ clock \in Nat
    BY DEF IInv, RowSound, Holds, NoRun
<1>3. run' \in Run /\ run'.status = "completed" /\ run'.output = q
      /\ run'.asks = run.asks /\ run'.snapshot = run.snapshot
    BY <1>2 DEF Run
<1>4. RowSound(run', proposals')
    <2>1. proposals' = {[by |-> q, anchor |-> run.snapshot]}
        BY <1>2
    <2>2. [by |-> q, anchor |-> run.snapshot] \in Proposal
        BY <1>1 DEF Proposal, Request
    <2> QED
        BY <1>2, <1>3, <2>1, <2>2 DEF RowSound
<1>5. CASE Live(q)
    <2> DEFINE r == [request[q] EXCEPT !.phase = "deliver"]
    <2>1. r \in Request
        BY <1>1 DEF Request
    <2>2. Sound(q, r, run', clock)
        BY <1>1, <1>3, <1>5 DEF Sound, Request, Claiming, Live, At
    <2>3. request' = [request EXCEPT ![q] = r]
        BY <1>5 DEF Go
    <2> QED
        BY <1>2, <1>4, <2>1, <2>2, <2>3, RowStep
<1>6. CASE ~Live(q)
    <2> DEFINE r == Ended(q, "error", None)
    <2>1. r \in Request /\ r.phase = "done" /\ r.answer # "none"
          /\ r.answer = (IF Live(q) THEN "error" ELSE request[q].answer)
        BY <1>1, EndedRecord
    <2>2. r.answer # "ok"
        BY <1>1, <1>2, <1>6, <2>1 DEF Sound, At
    <2>3. Sound(q, r, run', clock)
        <3> HIDE DEF r
        <3> QED
            BY <2>1, <2>2 DEF Sound, Claiming
    <2>4. request' = [request EXCEPT ![q] = r]
        BY <1>6 DEF Refused, Settle
    <2> HIDE DEF r
    <2> QED
        BY <1>2, <1>4, <2>1, <2>3, <2>4, RowStep
<1> QED
    BY <1>5, <1>6

LEMMA CompleteStep ==
    ASSUME IInv, NEW q \in Requests, Complete(q) \/ CompleteThrows(q)
    PROVE  IInv'
<1>1. At(q, "complete") /\ ~At(q, "idle")
    BY DEF Complete, CompleteThrows, At
<1>2. CASE CompleteThrows(q)
    BY <1>1, <1>2, ThrowsStep DEF CompleteThrows
<1>3. CASE Complete(q) /\ ~Holds(q)
    BY <1>1, <1>3, RefusedStep DEF Complete
<1>4. CASE Complete(q) /\ Holds(q)
           /\ (Fenced(run.snapshot) \/ request[q].snapshot # run.snapshot)
    BY <1>1, <1>4, ThrowsStep DEF Complete
<1>5. CASE Complete(q) /\ Holds(q)
           /\ ~(Fenced(run.snapshot) \/ request[q].snapshot # run.snapshot)
    BY <1>1, <1>5, CommitStep DEF Complete
<1> QED
    BY <1>2, <1>3, <1>4, <1>5

LEMMA DeliverStep ==
    ASSUME IInv, NEW q \in Requests, Deliver(q)
    PROVE  IInv'
<1>1. ~At(q, "idle") /\ Sound(q, request[q], run, clock)
    BY DEF Deliver, At, IInv
<1>2. Live(q) => run.status = "completed" /\ run.output = q
                 /\ run.asks = request[q].asks
    BY <1>1 DEF Sound, Deliver, At, Live
<1> QED
    BY <1>1, <1>2, AnsweredStep DEF Deliver

\* A failure that is stored, or lost.
LEMMA FailureStep ==
    ASSUME IInv, NEW q \in Requests, PersistFailure(q) \/ FailureLost(q)
    PROVE  IInv'
<1> DEFINE stored == [request[q] EXCEPT !.failing = FALSE, !.lease = 0]
<1>1. request[q] \in Request /\ Sound(q, request[q], run, clock)
      /\ request[q].failing
    BY Known DEF PersistFailure, FailureLost, IInv
<1>2. stored \in Request /\ Sound(q, stored, run, clock)
    BY <1>1 DEF Request, Sound, Claiming
<1>3. CASE FailureLost(q)
    <2>1. request' = [request EXCEPT ![q] = stored]
        BY <1>3 DEF FailureLost
    <2>2. faults' \in Nat
        BY <1>3 DEF FailureLost, IInv
    <2> QED
        BY <1>2, <1>3, <2>1, <2>2, QuietStep DEF FailureLost, IInv
<1>4. CASE PersistFailure(q) /\ ~Holds(q)
    <2>1. request' = [request EXCEPT ![q] = stored] /\ UNCHANGED run
        BY <1>4 DEF PersistFailure, Failed
    <2> QED
        BY <1>2, <1>4, <2>1, QuietStep DEF PersistFailure, IInv
<1>5. CASE PersistFailure(q) /\ Holds(q)
    <2>1. /\ run' = [run EXCEPT !.status = "failed", !.token = None,
                         !.lease = request[q].lease, !.updated = clock]
          /\ request' = [request EXCEPT ![q] = stored]
        BY <1>5 DEF PersistFailure, Failed
    <2>2. run \in Run /\ run.status = "pending" /\ run.token = q /\ clock \in Nat
          /\ run.snapshot = run.asks.barrier
        BY <1>5 DEF IInv, RowSound, Holds, NoRun
    <2>3. run' \in Run /\ run'.status = "failed"
          /\ run'.asks = run.asks /\ run'.snapshot = run.snapshot
        BY <1>1, <2>1, <2>2 DEF Run, Request
    <2>4. RowSound(run', proposals')
        BY <1>5, <2>2, <2>3 DEF RowSound, IInv, PersistFailure
    <2>5. Sound(q, stored, run', clock)
        BY <1>1, <2>2 DEF Sound, Request, Claiming
    <2> QED
        BY <1>2, <1>5, <2>1, <2>2, <2>4, <2>5, RowStep DEF PersistFailure
<1> QED
    BY <1>3, <1>4, <1>5

LEMMA InterruptStep ==
    ASSUME IInv, NEW q \in Requests, Interrupt(q)
    PROVE  IInv'
<1>1. ~At(q, "idle") /\ request[q] \in Request
      /\ Sound(q, request[q], run, clock) /\ clock + Deadline \in Nat
    BY Known, TimesAssumption DEF Interrupt, Live, At, IInv
<1>2. CASE Refused(q)
    BY <1>1, <1>2, RefusedStep DEF Interrupt
<1>3. CASE RefusedAndFailing(q, clock + Deadline)
    BY <1>1, <1>3, FailingStep DEF Interrupt
<1>4. CASE /\ request[q].phase \in Claiming
           /\ request' = [request EXCEPT ![q].answer = "error", ![q].start = 0]
    <2> DEFINE r == [request[q] EXCEPT !.answer = "error", !.start = 0]
    <2>1. r \in Request /\ Sound(q, r, run, clock)
        BY <1>1 DEF Request, Sound, Claiming
    <2> QED
        BY <1>4, <2>1, QuietStep DEF Interrupt, IInv
<1>5. CASE request' = [request EXCEPT ![q].answer = "error", ![q].start = 0,
                           ![q].failing = TRUE, ![q].lease = clock + Deadline]
    <2> DEFINE r == [request[q] EXCEPT !.answer = "error", !.start = 0,
                        !.failing = TRUE, !.lease = clock + Deadline]
    <2>1. r \in Request /\ Sound(q, r, run, clock)
        BY <1>1 DEF Request, Sound, Claiming
    <2> QED
        BY <1>5, <2>1, QuietStep DEF Interrupt, IInv
<1> QED
    BY <1>2, <1>3, <1>4, <1>5 DEF Interrupt, Claiming

LEMMA CrashStep ==
    ASSUME IInv, NEW q \in Requests, Crash(q)
    PROVE  IInv'
<1> DEFINE e == Ended(q, "error", None)
           r == [e EXCEPT !.failing = FALSE, !.lease = 0]
<1>1. e \in Request /\ e.phase = "done" /\ e.answer # "none"
      /\ e.asks = request[q].asks
      /\ e.answer = (IF Live(q) THEN "error" ELSE request[q].answer)
      /\ e.result = (IF Live(q) THEN None ELSE request[q].result)
    BY EndedRecord DEF Crash
<1>2. /\ r \in Request /\ r.phase = "done" /\ r.answer = e.answer
      /\ r.asks = e.asks /\ r.result = e.result
    <2> HIDE DEF e
    <2> QED
        BY <1>1 DEF Request
<1>3. Sound(q, r, run, clock)
    <2>1. Sound(q, request[q], run, clock) /\ ~At(q, "idle")
        BY DEF IInv, Crash
    <2> HIDE DEF e, r
    <2> QED
        BY <1>1, <1>2, <2>1 DEF Sound, Claiming, Live, At
<1>4. request' = [request EXCEPT ![q] = r] /\ faults' \in Nat
    BY DEF Crash, IInv
<1> QED
    BY <1>2, <1>3, <1>4, QuietStep DEF Crash, IInv

LEMMA RecoverStep ==
    ASSUME IInv, Recover
    PROVE  IInv'
<1>1. run \in Run /\ run.status = "pending" /\ clock \in Nat
      /\ run.snapshot = run.asks.barrier /\ run.updated < clock - StaleAfter
    BY DEF IInv, RowSound, Recover, Stale, NoRun
<1>2. run' \in Run /\ run'.status = "failed"
      /\ run'.asks = run.asks /\ run'.snapshot = run.snapshot
    BY <1>1 DEF Recover, Run
<1>3. RowSound(run', proposals')
    BY <1>1, <1>2 DEF RowSound, IInv, Recover
<1>4. ASSUME NEW q \in Requests
      PROVE  Sound(q, request[q], run', clock)
    <2>1. Sound(q, request[q], run, clock)
        BY DEF IInv
    <2>2. ~(Live(q) /\ request[q].phase \in {"run", "complete"})
        <3> SUFFICES ASSUME Live(q), request[q].phase \in {"run", "complete"}
                     PROVE  FALSE
            OBVIOUS
        <3>1. request[q] \in Request
            BY Known DEF Live, At
        <3>2. request[q].start \in Nat /\ run.updated \in Nat /\ StaleAfter \in Nat
            BY <1>1, <3>1, TimesAssumption DEF Request, Run
        <3>3. clock <= request[q].start + StaleAfter /\ request[q].start <= run.updated
            BY <2>1 DEF Sound, Live
        <3> QED
            BY <1>1, <3>2, <3>3
    <2> QED
        BY <1>1, <2>1, <2>2 DEF Sound, Live
<1> QED
    BY <1>3, <1>4 DEF IInv, Recover

LEMMA TimeStep ==
    ASSUME IInv, Append \/ Tick
    PROVE  IInv'
<1>1. CASE Append
    BY <1>1 DEF Append, IInv
<1>2. CASE Tick
    <2> SUFFICES ASSUME NEW q \in Requests
                 PROVE  Sound(q, request[q], run, clock')
        BY <1>2 DEF Tick, IInv
    <2>1. Sound(q, request[q], run, clock) /\ clock' = clock + 1 /\ clock \in Nat
        BY <1>2 DEF Tick, IInv
    <2>2. CASE Live(q)
        <3>1. request[q].start \in Nat /\ StaleAfter \in Nat
            BY <2>2, Known, TimesAssumption DEF Live, At, Request
        <3>2. clock < request[q].start + StaleAfter
            BY <1>2, <2>2 DEF Tick
        <3> QED
            BY <2>1, <2>2, <3>1, <3>2 DEF Sound, Live
    <2>3. CASE ~Live(q)
        BY <2>1, <2>3 DEF Sound, Live
    <2> QED
        BY <2>2, <2>3
<1> QED
    BY <1>1, <1>2

-----------------------------------------------------------------------------
(* The theorems.                                                           *)

\* The invariant holds in every behaviour, whatever the requests, providers,
\* crashes and clocks do.
THEOREM Invariance == Spec => []IInv
<1>1. Init => IInv
    <2> SUFFICES ASSUME Init PROVE IInv
        OBVIOUS
    <2>1. RowSound(run, proposals)
        <3>1. CASE run = NoRun
            BY <3>1 DEF Init, RowSound, NoRun
        <3>2. CASE run \in FailedBefore
            <4>1. run \in Run /\ run.status = "failed"
                  /\ run.snapshot = run.asks.barrier
                BY <3>2, TimesAssumption DEF FailedBefore, Run, Operation
            <4> QED
                BY <4>1 DEF Init, RowSound
        <3> QED
            BY <3>1, <3>2 DEF Init
    <2> QED
        BY <2>1 DEF Init, IInv, Sound, Idle, Claiming
<1>2. IInv /\ [Next]_vars => IInv'
    <2> SUFFICES ASSUME IInv, [Next]_vars PROVE IInv'
        OBVIOUS
    <2>1. CASE UNCHANGED vars
        BY <2>1 DEF vars, IInv
    <2>2. ASSUME NEW q \in Requests, Step(q)
          PROVE  IInv'
        BY <2>2, LookupStep, PrepareStep, ClaimInsertStep, ClaimReadStep,
           ClaimRetryStep, ClaimRacedStep, CompleteStep, DeliverStep,
           FailureStep, InterruptStep DEF Step, DeadlineFires
    <2>3. ASSUME NEW q \in Requests,
                 \/ Begin(q) \/ Fails(q)
                 \/ ProviderAnswers(q) \/ ProviderFails(q) \/ CompleteThrows(q)
                 \/ ClientLeaves(q) \/ FailureLost(q) \/ Crash(q)
          PROVE  IInv'
        BY <2>3, BeginStep, FailsStep, ProviderStep, CompleteStep,
           InterruptStep, FailureStep, CrashStep DEF ClientLeaves
    <2>4. CASE Recover \/ Append \/ Tick
        BY <2>4, RecoverStep, TimeStep
    <2> QED
        BY <2>1, <2>2, <2>3, <2>4 DEF Next
<1> QED
    BY <1>1, <1>2, PTL DEF Spec

\* Rows, proposals and requests keep their types.
THEOREM TypeCorrect == Spec => []TypeOK
<1>1. IInv => TypeOK
    BY DEF IInv, RowSound, TypeOK
<1> QED
    BY <1>1, Invariance, PTL

\* A live attempt owns the pending run: no recovery, retry or late failure of
\* another request takes it, so two live requests never both pay for it.
THEOREM OwnsRun == Spec => []OneAttempt
<1>1. IInv => OneAttempt
    BY DEF IInv, Sound, OneAttempt, Live
<1> QED
    BY <1>1, Invariance, PTL

\* Every answer with a result is the stored one, of the operation asked for,
\* and the run and its proposals come from one attempt.
THEOREM AnswersAgree == Spec => []OneResult
<1>1. IInv => OneResult
    BY DEF IInv, RowSound, Sound, OneResult, At
<1> QED
    BY <1>1, Invariance, PTL

\* No step changes a completed run or its proposals.
THEOREM KeepsResult == Spec => CompletedForGood
<1>1. [Next]_vars => [run.status = "completed" =>
                        run' = run /\ proposals' = proposals]_vars
    <2> SUFFICES ASSUME Next, run.status = "completed"
                 PROVE  run' = run /\ proposals' = proposals
        BY DEF vars
    <2>1. ASSUME NEW q \in Requests, Step(q)
          PROVE  run' = run /\ proposals' = proposals
        BY <2>1 DEF Step, Lookup, Prepare, ClaimInsert, ClaimRead, ClaimRetry,
           Retriable, ClaimRaced, Complete, Holds, Deliver, PersistFailure,
           Failed, DeadlineFires, Interrupt
    <2>2. ASSUME NEW q \in Requests,
                 \/ Begin(q) \/ Fails(q)
                 \/ ProviderAnswers(q) \/ ProviderFails(q) \/ CompleteThrows(q)
                 \/ ClientLeaves(q) \/ FailureLost(q) \/ Crash(q)
          PROVE  run' = run /\ proposals' = proposals
        BY <2>2 DEF Begin, Fails, ProviderAnswers, ProviderFails,
           CompleteThrows, ClientLeaves, Interrupt, FailureLost, Crash
    <2>3. CASE Recover \/ Append \/ Tick
        BY <2>3 DEF Recover, Stale, Append, Tick
    <2> QED
        BY <2>1, <2>2, <2>3 DEF Next
<1> QED
    BY <1>1, PTL DEF Spec, CompletedForGood
=============================================================================
