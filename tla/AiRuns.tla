-------------------------------- MODULE AiRuns --------------------------------
(***************************************************************************)
(* AI runs under one idempotency key of one document (ai-execution.ts,     *)
(* ai-run-repository.ts, recover-stale-runs.ts).                           *)
(*                                                                         *)
(* A request looks the key up, prepares its input, claims the run, calls   *)
(* the provider, and completes the run together with its proposals.  One   *)
(* deadline, or the client's disconnection, interrupts it anywhere; what   *)
(* it had started goes on in the background: a claim may land late, a      *)
(* completion may commit after the failure was answered, and the failure   *)
(* is stored by a call nobody awaits.  A run is claimed again after it     *)
(* failed, when the lease of a timeout is over, and a scheduled command    *)
(* fails the runs of processes that died.                                  *)
(*                                                                         *)
(* Requests run in different processes: what serializes the claims of one  *)
(* process (document-write-queue.ts) orders nothing here.  A step that     *)
(* touches the database is one transaction or one statement.               *)
(***************************************************************************)
EXTENDS Integers

CONSTANTS
    Requests,    \* requests with this key; each claims at most once, so a
                 \* request stands for the execution token of its claim
    Payloads,    \* what a request may ask for
    None,        \* no request
    Deadline,    \* RESOURCE_LIMITS.operationMs, in ticks
    StaleAfter,  \* --stale-after-minutes, in ticks
    MaxClock,    \* bound: ticks
    MaxHead,     \* bound: updates of the document
    MaxFaults    \* bound: crashes and failures that could not be stored

ASSUME NoneAssumption == None \notin Requests
\* DEPLOYMENT.md: a window longer than the longest operation.
ASSUME TimesAssumption ==
    Deadline \in Nat \ {0} /\ StaleAfter \in Nat /\ StaleAfter >= Deadline
ASSUME BoundsAssumption == MaxClock \in Nat /\ MaxHead \in Nat /\ MaxFaults \in Nat

VARIABLES
    clock,      \* the time all processes read
    head,       \* the document's head, 0 while it is not collaborative
    run,        \* the row of ai_runs with its collaboration snapshot
    proposals,  \* the run's rows of ai_proposals and their anchors
    request,    \* the requests' local state and what was answered
    faults

vars == <<clock, head, run, proposals, request, faults>>

-----------------------------------------------------------------------------
(* Rows and requests.                                                      *)

\* The fingerprint of an operation: its payload, of which the barrier is a
\* part; barrier 0 is a request without one.
Operation == [payload : Payloads, barrier : Nat]

\* lease is retryNotBeforeAt, 0 when it is null; snapshot 0 is a run without
\* one; output names the attempt whose output is stored.
Run == [status : {"pending"}, asks : Operation, snapshot : Nat, token : Requests,
        lease : {0}, updated : Nat, output : {None}]
  \cup [status : {"failed"}, asks : Operation, snapshot : Nat, token : {None},
        lease : Nat, updated : Nat, output : {None}]
  \cup [status : {"completed"}, asks : Operation, snapshot : Nat, token : {None},
        lease : {0}, updated : Nat, output : Requests]

NoRun == [status |-> "absent"]

Proposal == [by : Requests, anchor : Nat]

Idle == [phase |-> "idle"]

\* now is the instant captured when the claim began; failing, a call of
\* failAiRun with this lease that has not come back.
Request ==
    [phase : {"lookup", "prepare", "insert", "read", "retry", "raced", "run",
              "complete", "deliver", "done"},
     asks : Operation, start : Nat, now : Nat, snapshot : Nat,
     failing : BOOLEAN, lease : Nat,
     answer : {"none", "error", "ok"}, result : Requests \cup {None}]

TypeOK ==
    /\ clock \in Nat /\ head \in Nat /\ faults \in Nat
    /\ run \in Run \cup {NoRun}
    /\ proposals \subseteq Proposal
    /\ request \in [Requests -> Request \cup {Idle}]

\* What an earlier request left: it failed, perhaps by its deadline.
FailedBefore ==
    [status : {"failed"}, asks : [payload : Payloads, barrier : {0}],
     snapshot : {0}, token : {None}, lease : 0 .. Deadline, updated : {0},
     output : {None}]

Init ==
    /\ clock = 0 /\ head = 0 /\ faults = 0
    /\ run \in {NoRun} \cup FailedBefore
    /\ proposals = {}
    /\ request = [q \in Requests |-> Idle]

At(q, phase) == request[q].phase = phase

\* The lifecycle of a request is over when it has been answered.
Live(q) == request[q].phase # "idle" /\ request[q].answer = "none"

Go(q, phase) == request' = [request EXCEPT ![q].phase = phase]

\* The request's promise settles and its locals are gone; nobody hears of
\* the outcome when the lifecycle was over before.
Ended(q, answer, result) ==
    [request[q] EXCEPT !.phase = "done", !.start = 0, !.now = 0, !.snapshot = 0,
        !.answer = IF Live(q) THEN answer ELSE @,
        !.result = IF Live(q) THEN result ELSE @]

Settle(q, answer, result) ==
    request' = [request EXCEPT ![q] = Ended(q, answer, result)]

Refused(q) == Settle(q, "error", None)

\* The same, and a failure of the request's attempt is on its way.
RefusedAndFailing(q, lease) ==
    request' = [request EXCEPT ![q] =
        [Ended(q, "error", None) EXCEPT !.failing = TRUE, !.lease = lease]]

-----------------------------------------------------------------------------
(* Before the claim.                                                       *)

\* Admission starts the deadline.  A browser takes its barrier from the head
\* it has flushed, now or when it first sent this operation.
Begin(q) ==
    /\ At(q, "idle")
    /\ clock + Deadline <= MaxClock                         \* bound
    /\ \E payload \in Payloads, barrier \in 0 .. head :
        request' = [request EXCEPT ![q] =
            [phase |-> "lookup",
             asks |-> [payload |-> payload, barrier |-> barrier],
             start |-> clock, now |-> 0, snapshot |-> 0,
             failing |-> FALSE, lease |-> 0, answer |-> "none", result |-> None]]
    /\ UNCHANGED <<clock, head, run, proposals, faults>>

Verdict ==
    CASE run.status = "completed" -> "completed"
      [] run.status = "pending"   -> "in_progress"
      [] run.status = "failed" /\ run.lease > clock -> "in_progress"
      [] OTHER -> "open"

\* A completed run is replayed; anything else that is not open is a conflict.
Reply(q, verdict) ==
    IF verdict = "completed" THEN Settle(q, "ok", run.output) ELSE Refused(q)

Lookup(q) ==
    /\ At(q, "lookup")
    /\ LET verdict == IF run.status # "absent" /\ run.asks # request[q].asks
                      THEN "conflict" ELSE Verdict
       IN IF verdict = "open" THEN Go(q, "prepare") ELSE Reply(q, verdict)
    /\ UNCHANGED <<clock, head, run, proposals, faults>>

\* The barrier must be the durable head, absent on a plain document.
Prepare(q) ==
    /\ At(q, "prepare")
    /\ IF request[q].asks.barrier = head
       THEN request' = [request EXCEPT ![q].phase = "insert",
                            ![q].snapshot = head, ![q].now = clock]
       ELSE Refused(q)
    /\ UNCHANGED <<clock, head, run, proposals, faults>>

\* Preflight or the provider's construction is refused, or storage throws
\* before anything is claimed.
Fails(q) ==
    /\ request[q].phase \in {"lookup", "prepare", "insert", "read", "retry", "raced"}
    /\ Refused(q)
    /\ UNCHANGED <<clock, head, run, proposals, faults>>

-----------------------------------------------------------------------------
(* The claim.                                                              *)

\* A run without a snapshot belongs to a document that is not collaborative.
Fenced(snapshot) == snapshot = 0 /\ head # 0

\* The request goes on to call the provider.
Execute(q) == request' = [request EXCEPT ![q].phase = "run", ![q].now = 0]

\* Mutant: the claim of an interrupted request is left to itself.
Claimed_Forgotten(q) == IF Live(q) THEN Execute(q) ELSE Refused(q)

\* The attempt is the request's.  A claim that lands after the lifecycle is
\* over is failed at once, with the lease of a timeout.
Claimed(q) ==
    IF Live(q) THEN Execute(q) ELSE RefusedAndFailing(q, clock + Deadline)

\* insertInitialAiRunClaim: insert, or do nothing when the key is taken.
ClaimInsert(q) ==
    /\ At(q, "insert")
    /\ IF run.status # "absent" THEN Go(q, "read") /\ UNCHANGED run
       ELSE IF Fenced(request[q].snapshot) THEN Refused(q) /\ UNCHANGED run
       ELSE /\ run' = [status |-> "pending", asks |-> request[q].asks,
                       snapshot |-> request[q].snapshot, token |-> q,
                       lease |-> 0, updated |-> request[q].now, output |-> None]
            /\ Claimed(q)
    /\ UNCHANGED <<clock, head, proposals, faults>>

\* classifyClaim
Classified(q) ==
    IF run.asks # request[q].asks \/ run.snapshot # request[q].snapshot
    THEN "conflict" ELSE Verdict

ClaimRead(q) ==
    /\ At(q, "read")
    /\ IF Classified(q) = "open" THEN Go(q, "retry") ELSE Reply(q, Classified(q))
    /\ UNCHANGED <<clock, head, run, proposals, faults>>

\* Mutant: a retry is claimed whatever became of the run since it was read.
Retriable_AnyStatus(q) ==
    /\ run.asks = request[q].asks
    /\ run.lease <= request[q].now

Retriable(q) ==
    /\ run.status = "failed"
    /\ run.asks = request[q].asks
    /\ run.lease <= request[q].now

\* retryFailedAiRunInTransaction: at most one of the requests that read the
\* failed run updates it.
ClaimRetry(q) ==
    /\ At(q, "retry")
    /\ IF Fenced(request[q].snapshot) THEN Refused(q) /\ UNCHANGED run
       ELSE IF Retriable(q)
       THEN /\ run' = [run EXCEPT !.status = "pending", !.token = q,
                                  !.lease = 0, !.updated = clock, !.output = None]
            /\ Claimed(q)
       ELSE Go(q, "raced") /\ UNCHANGED run
    /\ UNCHANGED <<clock, head, proposals, faults>>

ClaimRaced(q) ==
    /\ At(q, "raced")
    /\ Reply(q, Classified(q))
    /\ UNCHANGED <<clock, head, run, proposals, faults>>

-----------------------------------------------------------------------------
(* Execution and completion.                                               *)

ProviderAnswers(q) ==
    /\ At(q, "run")
    /\ Go(q, "complete")
    /\ UNCHANGED <<clock, head, run, proposals, faults>>

\* An ordinary failure leaves no lease.
ProviderFails(q) ==
    /\ At(q, "run")
    /\ RefusedAndFailing(q, 0)
    /\ UNCHANGED <<clock, head, run, proposals, faults>>

\* Mutant: the statements that finish a run do not look at the token.
Holds_AnyToken(q) == run.status = "pending"

Holds(q) == run.status = "pending" /\ run.token = q

\* The completion throws: an attempt that is still awaited is failed.
Throws(q) ==
    IF Live(q) THEN RefusedAndFailing(q, 0) ELSE Refused(q)

\* completeAiRunWithProposals: one transaction for the fence, the anchors'
\* contract with the snapshot, the run and its proposals.
Complete(q) ==
    /\ At(q, "complete")
    /\ IF ~Holds(q) THEN Refused(q) /\ UNCHANGED <<run, proposals>>
       ELSE IF Fenced(run.snapshot) \/ request[q].snapshot # run.snapshot
       THEN Throws(q) /\ UNCHANGED <<run, proposals>>
       ELSE /\ run' = [run EXCEPT !.status = "completed", !.token = None,
                                  !.lease = 0, !.updated = clock, !.output = q]
            /\ proposals' = proposals \cup
                    {[by |-> q, anchor |-> request[q].snapshot]}
            /\ IF Live(q) THEN Go(q, "deliver") ELSE Refused(q)
    /\ UNCHANGED <<clock, head, faults>>

CompleteThrows(q) ==
    /\ At(q, "complete")
    /\ Throws(q)
    /\ UNCHANGED <<clock, head, run, proposals, faults>>

Deliver(q) ==
    /\ At(q, "deliver")
    /\ Settle(q, "ok", q)
    /\ UNCHANGED <<clock, head, run, proposals, faults>>

-----------------------------------------------------------------------------
(* Interruption, failure, recovery.                                        *)

\* Mutant: the failure of an attempt that may have completed is not fenced.
Failed_Unfenced(q) ==
    IF run.token \in {q, None} THEN
        run' = [run EXCEPT !.status = "failed", !.token = None,
                           !.lease = request[q].lease, !.updated = clock]
    ELSE UNCHANGED run

\* failAiRun
Failed(q) ==
    IF Holds(q) THEN
        run' = [run EXCEPT !.status = "failed", !.token = None,
                           !.lease = request[q].lease, !.updated = clock]
    ELSE UNCHANGED run

PersistFailure(q) ==
    /\ ~At(q, "idle")
    /\ request[q].failing
    /\ Failed(q)
    /\ request' = [request EXCEPT ![q].failing = FALSE, ![q].lease = 0]
    /\ UNCHANGED <<clock, head, proposals, faults>>

FailureLost(q) ==
    /\ ~At(q, "idle")
    /\ request[q].failing
    /\ faults < MaxFaults                                   \* bound
    /\ faults' = faults + 1
    /\ request' = [request EXCEPT ![q].failing = FALSE, ![q].lease = 0]
    /\ UNCHANGED <<clock, head, run, proposals>>

\* The deadline, or the client going away.  A claim or a completion that is
\* in the database goes on.
Interrupt(q) ==
    /\ Live(q)
    /\ \/ /\ request[q].phase \in {"lookup", "prepare"}
          /\ Refused(q)
       \/ /\ request[q].phase \in {"insert", "read", "retry", "raced"}
          /\ request' = [request EXCEPT ![q].answer = "error", ![q].start = 0]
       \/ /\ request[q].phase \in {"run", "deliver"}
          /\ RefusedAndFailing(q, clock + Deadline)
       \/ /\ At(q, "complete")
          /\ request' = [request EXCEPT ![q].answer = "error", ![q].start = 0,
                             ![q].failing = TRUE, ![q].lease = clock + Deadline]
    /\ UNCHANGED <<clock, head, run, proposals, faults>>

DeadlineFires(q) ==
    /\ Live(q)
    /\ clock >= request[q].start + Deadline
    /\ Interrupt(q)

ClientLeaves(q) == Interrupt(q)

\* The process dies; its transaction has committed or has not.
Crash(q) ==
    /\ ~At(q, "idle")
    /\ ~At(q, "done") \/ request[q].failing
    /\ faults < MaxFaults                                   \* bound
    /\ faults' = faults + 1
    /\ request' = [request EXCEPT ![q] =
         [Ended(q, "error", None) EXCEPT !.failing = FALSE, !.lease = 0]]
    /\ UNCHANGED <<clock, head, run, proposals>>

Stale == run.status = "pending" /\ run.updated < clock - StaleAfter

\* recoverStaleAiRuns
Recover ==
    /\ Stale
    /\ run' = [run EXCEPT !.status = "failed", !.token = None, !.lease = 0,
                          !.updated = clock]
    /\ UNCHANGED <<clock, head, proposals, request, faults>>

-----------------------------------------------------------------------------
(* The document and the clock.                                             *)

\* Collaboration starts, or another update is appended.
Append ==
    /\ head < MaxHead                                       \* bound
    /\ head' = head + 1
    /\ UNCHANGED <<clock, run, proposals, request, faults>>

\* Timers may fire late, but not by more than the stale window allows for.
Tick ==
    /\ clock < MaxClock                                     \* bound
    /\ \A q \in Requests : Live(q) => clock < request[q].start + StaleAfter
    /\ clock' = clock + 1
    /\ UNCHANGED <<head, run, proposals, request, faults>>

Step(q) ==
    \/ Lookup(q) \/ Prepare(q)
    \/ ClaimInsert(q) \/ ClaimRead(q) \/ ClaimRetry(q) \/ ClaimRaced(q)
    \/ Complete(q) \/ Deliver(q) \/ PersistFailure(q)
    \/ DeadlineFires(q)

Next ==
    \/ \E q \in Requests :
        \/ Step(q)
        \/ Begin(q) \/ Fails(q)
        \/ ProviderAnswers(q) \/ ProviderFails(q) \/ CompleteThrows(q)
        \/ ClientLeaves(q) \/ FailureLost(q) \/ Crash(q)
    \/ Recover \/ Append \/ Tick

Spec == Init /\ [][Next]_vars

\* Queries and transactions come back, timers fire, time passes.  Providers,
\* clients and the scheduler of the recovery command owe nothing.
Fairness ==
    /\ \A q \in Requests : WF_vars(Step(q))
    /\ WF_vars(Tick)

FairSpec == Spec /\ Fairness

-----------------------------------------------------------------------------
(* Properties.                                                             *)

\* An attempt that is awaited owns the run: neither the recovery command nor
\* another request's claim or failure has taken it, so that one operation is
\* never paid for by two live requests at once (claimAiRun, recoverStaleAiRuns).
OneAttempt ==
    \A q \in Requests : Live(q) /\ request[q].phase \in {"run", "complete"} =>
        run.status = "pending" /\ run.token = q

\* There is one result: a run and its proposals appear together, from one
\* attempt, anchored in the snapshot that the operation named; and whoever
\* was answered with a result asked for that operation and was given this one
\* (completeAiRunWithProposals, mapExistingOperation, mapClaimResult).
OneResult ==
    /\ run.status # "absent" => run.snapshot = run.asks.barrier
    /\ run.status = "completed" <=> proposals # {}
    /\ \A p \in proposals : p = [by |-> run.output, anchor |-> run.snapshot]
    /\ \A q \in Requests : ~At(q, "idle") /\ request[q].answer = "ok" =>
        /\ run.status = "completed"
        /\ request[q].result = run.output
        /\ request[q].asks = run.asks

\* A completed run stays as it is: the failure that a timed-out request still
\* has on its way does not undo a completion that overtook it, and nothing
\* adds to the run's proposals (failAiRun, recoverStaleAiRuns).
CompletedForGood ==
    [][run.status = "completed" => run' = run /\ proposals' = proposals]_vars

\* Unless a process died or a failure could not be stored, a claimed run is
\* completed or failed without the recovery command, also when its claim
\* landed after the request had been given up (executeAiOperation).
RunsSettle ==
    run.status = "pending" ~> (run.status # "pending" \/ faults > 0)
=============================================================================
