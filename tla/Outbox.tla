------------------------------- MODULE Outbox -------------------------------
(***************************************************************************)
(* Leased execution of durable effects (cursor/outbox.py,                  *)
(* cursor/agent_outbox.py, the outbox tables of cursor/sqlite_store.py and *)
(* the outbox half of cursor/store.py).                                    *)
(*                                                                         *)
(* A job command commits a new job revision together with an outbox row.   *)
(* Any number of executors (detached workers, the wake daemon's recovery)  *)
(* lease rows, call a provider that is not idempotent, record what they    *)
(* observed, and reduce the observation back into the job.  Executors may  *)
(* die at any step, a lease may run out under a live executor, and other   *)
(* commands may supersede the revision an effect was admitted at.          *)
(*                                                                         *)
(* Every SQLite transaction (BEGIN IMMEDIATE) is one action.  Time is      *)
(* abstract: a lease may run out at any moment, and a retry may be due at  *)
(* any moment.  A lease token is a fresh uuid; here it is the number of    *)
(* the claim (the row's attempts after the claim), which is as unique for  *)
(* the row.  A worker token is the revision at which it was claimed.       *)
(***************************************************************************)
EXTENDS Naturals, FiniteSets

CONSTANTS
    Jobs,           \* managed jobs, each with one provider target
    MaxEffects,     \* outbox rows admitted in a behaviour; the row number is its rowid
    Executors,      \* processes that drain the outbox and reduce its results
    MaxAttempts,    \* OUTBOX_MAX_ATTEMPTS
    ConsumeRetries, \* re-reads of the job by one consumption of a stale result
    MaxRev,         \* bound on the job commands, other than observations, on one job
    MaxCrashes      \* bound on executor deaths

ASSUME OutboxConstants ==
    /\ Jobs # {}
    /\ MaxEffects \in Nat
    /\ MaxAttempts \in Nat \ {0}
    /\ ConsumeRetries \in Nat
    /\ MaxRev \in Nat
    /\ MaxCrashes \in Nat

VARIABLES
    rev,      \* jobs.revision
    op,       \* state of job.prompt_operation
    turn,     \* the effect whose identity the prompt operation carries (0: none)
    worker,   \* job.worker_token (0: None)
    user,     \* job.session_control is user_owned
    intent,   \* job.terminal_intent_status is not None
    outbox,   \* the outbox rows
    exec,     \* program counter and locals of every executor
    events,   \* per effect, the revisions its "observe:" commands were committed at
    calls,    \* provider calls made for an effect (what really happened)
    applied,  \* times an effect's observation changed the job
    crashes

vars == <<rev, op, turn, worker, user, intent, outbox, exec, events, calls, applied, crashes>>
jobVars == <<rev, op, turn, worker, user, intent>>

Effects == 1 .. MaxEffects
Terminal == {"succeeded", "failed", "unknown"}
Unleased == {"pending", "failed-retryable"}
Statuses == {"absent", "running"} \cup Unleased \cup Terminal
InHandler == {"handling", "unmarked", "fenced", "called"}
Pcs == {"idle", "stale", "raised", "releasing", "returned",
        "consuming", "rereading", "applying", "marking"} \cup InHandler
Observations == {"none", "Confirmed", "Unknown", "Failed", "Retry"}

Rows == [status : Statuses, job : Jobs, expected : Nat,
         worker : Nat, attempts : 0 .. MaxAttempts,
         lease : 0 .. MaxAttempts, fence : BOOLEAN, expired : BOOLEAN,
         consumed : BOOLEAN]
Locals == [pc : Pcs, effect : 0 .. MaxEffects, lease : 0 .. MaxAttempts,
           obs : Observations, rev : Nat, tries : 0 .. ConsumeRetries]

NewRow(s, j, r, w) == [status |-> s, job |-> j, expected |-> r, worker |-> w,
                       attempts |-> 0, lease |-> 0, fence |-> FALSE,
                       expired |-> FALSE, consumed |-> FALSE]
NoRow == NewRow("absent", CHOOSE j \in Jobs : TRUE, 0, 0)
Idle == [pc |-> "idle", effect |-> 0, lease |-> 0, obs |-> "none", rev |-> 0, tries |-> 0]

Row(x) == outbox[exec[x].effect]
At(x, p) == exec[x].pc = p
Goto(x, p) == exec' = [exec EXCEPT ![x].pc = p]
Finish(x) == exec' = [exec EXCEPT ![x] = Idle]
Return(x, o) == exec' = [exec EXCEPT ![x].pc = "returned", ![x].obs = o]

(***************************************************************************)
(* The outbox tables.                                                      *)
(***************************************************************************)

\* abandon_stale_outbox_effects: unleased rows whose admitting revision is gone
Stale(e) == /\ outbox[e].status \in Unleased
            /\ outbox[e].lease = 0
            /\ outbox[e].expected # rev[outbox[e].job]

AbandonStale ==
    [e \in Effects |-> IF Stale(e) THEN [outbox[e] EXCEPT !.status = "failed"]
                                   ELSE outbox[e]]

\* claim_due_outbox: unleased, and no running row holds the concurrency key
Due(e) == /\ outbox[e].status \in Unleased
          /\ outbox[e].lease = 0
          /\ ~Stale(e)
          /\ \A r \in Effects : outbox[r].job = outbox[e].job =>
                 ~(outbox[r].status = "running" /\ outbox[r].lease # 0)

\* ORDER BY rowid: an earlier row is passed over only while its retry is not due
Claimable(e) == /\ Due(e)
                /\ \A r \in Effects : r < e /\ Due(r) => outbox[r].status # "pending"

\* complete_outbox_observation: anything but the running lease is refused
Complete(e, lease, status) ==
    IF outbox[e].status = "running" /\ outbox[e].lease = lease
    THEN [outbox EXCEPT ![e].status = status, ![e].lease = 0,
                        ![e].fence = FALSE, ![e].expired = FALSE]
    ELSE outbox

\* mark_outbox_dispatched: the submit fence, guarded by lease and job revision
CanMark(x) == /\ Row(x).lease = exec[x].lease
              /\ Row(x).status = "running"
              /\ rev[Row(x).job] = Row(x).expected

\* outbox_dispatched
Dispatched(x) == Row(x).lease = exec[x].lease /\ Row(x).fence

\* observe_outbox: what an observation is recorded as
ObservedStatus(x) ==
    CASE exec[x].obs = "Retry" /\ Row(x).fence -> "unknown"
      [] exec[x].obs = "Retry" /\ ~Row(x).fence /\ exec[x].lease >= MaxAttempts -> "failed"
      [] exec[x].obs = "Retry" /\ ~Row(x).fence /\ exec[x].lease < MaxAttempts
             -> "failed-retryable"
      [] exec[x].obs = "Unknown" -> "unknown"
      [] exec[x].obs = "Failed" -> "failed"
      [] OTHER -> "succeeded"

\* Mutant: the reaper retries whatever expired, fenced or not.
ReapedStatusIgnoringFence(e) ==
    IF outbox[e].attempts < MaxAttempts THEN "failed-retryable" ELSE "failed"

\* Mutant: the reaper has no retry budget.
ReapedStatusUnbounded(e) == IF outbox[e].fence THEN "unknown" ELSE "failed-retryable"

\* reap_expired_outbox_leases: what an expired lease is recorded as
ReapedStatus(e) ==
    CASE outbox[e].fence -> "unknown"
      [] ~outbox[e].fence /\ outbox[e].attempts < MaxAttempts -> "failed-retryable"
      [] OTHER -> "failed"

\* Mutant: only fenced leases are reaped.
ExpiredAndFenced(e) == outbox[e].status = "running" /\ outbox[e].expired /\ outbox[e].fence

Expired(e) == outbox[e].status = "running" /\ outbox[e].lease # 0 /\ outbox[e].expired

(***************************************************************************)
(* Commands on a job.  Each commits one new revision.                      *)
(***************************************************************************)

Commit(j) == /\ rev[j] < MaxRev
             /\ rev' = [rev EXCEPT ![j] = @ + 1]

Uncertain(j) == op[j] \in {"submitting", "ambiguous"}

\* launch_worker: reserve an unowned job that the user has not taken over.
ClaimWorker(j) ==
    /\ worker[j] = 0 /\ ~user[j] /\ ~intent[j]
    /\ Commit(j)
    /\ worker' = [worker EXCEPT ![j] = rev[j] + 1]
    /\ UNCHANGED <<op, turn, user, intent, outbox, exec, events, calls, applied, crashes>>

\* recover_jobs: a dead worker's claim is dropped, but never under an open fence.
ReleaseDeadWorker(j) ==
    /\ worker[j] # 0
    /\ intent[j] \/ (~user[j] /\ ~Uncertain(j))
    /\ Commit(j)
    /\ worker' = [worker EXCEPT ![j] = 0]
    /\ UNCHANGED <<op, turn, user, intent, outbox, exec, events, calls, applied, crashes>>

\* The owning worker admits the planned prompt as the next outbox row.  The command
\* id is that of the turn: one turn is admitted once (turn[j] = 0 until then).
Admit(j, e) ==
    /\ op[j] = "planned" /\ turn[j] = 0
    /\ worker[j] # 0 /\ ~user[j] /\ ~intent[j]
    /\ outbox[e].status = "absent"
    /\ \A r \in Effects : r < e => outbox[r].status # "absent"
    /\ Commit(j)
    /\ op' = [op EXCEPT ![j] = "submitting"]
    /\ turn' = [turn EXCEPT ![j] = e]
    /\ outbox' = [outbox EXCEPT ![e] = NewRow("pending", j, rev[j] + 1, worker[j])]
    /\ UNCHANGED <<worker, user, intent, exec, events, calls, applied, crashes>>

\* A command that does not concern the prompt (delivery, announcement, summary).
Touch(j) ==
    /\ Commit(j)
    /\ UNCHANGED <<op, turn, worker, user, intent, outbox, exec, events, calls,
                   applied, crashes>>

\* Cancellation, or a worker giving up: a terminal intent is staged.
StageTerminalIntent(j) ==
    /\ ~intent[j]
    /\ Commit(j)
    /\ intent' = [intent EXCEPT ![j] = TRUE]
    /\ \E w \in {worker[j], 0} : worker' = [worker EXCEPT ![j] = w]
    /\ UNCHANGED <<op, turn, user, outbox, exec, events, calls, applied, crashes>>

\* The user takes the session over: the worker goes, an unsettled prompt is ambiguous.
Relinquish(j) ==
    /\ ~user[j] /\ (intent[j] => worker[j] = 0)
    /\ Commit(j)
    /\ user' = [user EXCEPT ![j] = TRUE]
    /\ worker' = [worker EXCEPT ![j] = 0]
    /\ op' = [op EXCEPT ![j] = IF @ = "planned" THEN @ ELSE "ambiguous"]
    /\ UNCHANGED <<turn, intent, outbox, exec, events, calls, applied, crashes>>

\* The user hands the session back, once no prompt is in doubt.
Resume(j) ==
    /\ user[j] /\ ~Uncertain(j)
    /\ Commit(j)
    /\ user' = [user EXCEPT ![j] = FALSE]
    /\ UNCHANGED <<op, turn, worker, intent, outbox, exec, events, calls, applied, crashes>>

\* Recovery finds the open fence's effect unknown: only an operator can tell.
ReconcilePrompt(j) ==
    /\ op[j] = "submitting" /\ ~user[j]
    /\ outbox[turn[j]].status = "unknown"
    /\ Commit(j)
    /\ op' = [op EXCEPT ![j] = "ambiguous"]
    /\ UNCHANGED <<turn, worker, user, intent, outbox, exec, events, calls, applied, crashes>>

\* The operator, who is taken to tell the truth, resolves an ambiguous prompt.
ResolveManual(j) ==
    /\ op[j] = "ambiguous"
    /\ Commit(j)
    /\ op' = [op EXCEPT ![j] = IF calls[turn[j]] > 0 THEN "submitted" ELSE "planned"]
    /\ worker' = [worker EXCEPT ![j] = 0]
    /\ UNCHANGED <<turn, user, intent, outbox, exec, events, calls, applied, crashes>>

\* The turn ends, or a turn found never sent is given up, and the next one is planned.
NextTurn(j) ==
    /\ ~Uncertain(j) /\ turn[j] # 0
    /\ worker[j] # 0 /\ ~user[j] /\ ~intent[j]
    /\ Commit(j)
    /\ op' = [op EXCEPT ![j] = "planned"]
    /\ turn' = [turn EXCEPT ![j] = 0]
    /\ UNCHANGED <<worker, user, intent, outbox, exec, events, calls, applied, crashes>>

JobStep == \E j \in Jobs :
    \/ ClaimWorker(j) \/ ReleaseDeadWorker(j) \/ Touch(j)
    \/ \E e \in Effects : Admit(j, e)
    \/ StageTerminalIntent(j) \/ Relinquish(j) \/ Resume(j)
    \/ ReconcilePrompt(j) \/ ResolveManual(j) \/ NextTurn(j)

(***************************************************************************)
(* drain_outbox: claim, handler, observation.                              *)
(***************************************************************************)

Others == <<events, applied, crashes>>

ClaimOutbox(x, e) ==
    /\ At(x, "idle") /\ Claimable(e)
    /\ outbox' = [AbandonStale EXCEPT ![e].status = "running",
                     ![e].attempts = @ + 1, ![e].lease = outbox[e].attempts + 1]
    /\ exec' = [exec EXCEPT ![x] = [Idle EXCEPT !.pc = "handling", !.effect = e,
                                       !.lease = outbox[e].attempts + 1]]
    /\ UNCHANGED <<jobVars, calls, Others>>

\* The claim finds nothing due, but its transaction abandons the stale rows.
ClaimNothing(x) ==
    /\ At(x, "idle")
    /\ \A e \in Effects : ~Claimable(e)
    /\ \E e \in Effects : Stale(e)
    /\ outbox' = AbandonStale
    /\ UNCHANGED <<jobVars, exec, calls, Others>>

\* The provider or the payload check raises before the fence.
HandlerRaises(x) ==
    /\ exec[x].pc \in {"handling", "fenced", "called"}
    /\ Goto(x, "raised")
    /\ UNCHANGED <<jobVars, outbox, calls, Others>>

\* A handler that asks for a retry or, having omitted the fence, knows nothing.
HandlerDeclines(x) ==
    /\ exec[x].pc \in {"handling", "fenced", "called"}
    /\ \/ Return(x, "Retry")
       \/ Return(x, "Unknown")
    /\ UNCHANGED <<jobVars, outbox, calls, Others>>

MarkDispatched(x) ==
    /\ At(x, "handling") /\ CanMark(x)
    /\ outbox' = [outbox EXCEPT ![exec[x].effect].fence = TRUE]
    /\ Goto(x, "fenced")
    /\ UNCHANGED <<jobVars, calls, Others>>

MarkRefused(x) ==
    /\ At(x, "handling") /\ ~CanMark(x)
    /\ Goto(x, "unmarked")
    /\ UNCHANGED <<jobVars, outbox, calls, Others>>

\* outbox_revision_stale, read in a transaction of its own
ClassifyRefusal(x) ==
    /\ At(x, "unmarked")
    /\ IF rev[Row(x).job] # Row(x).expected THEN Return(x, "Failed")
                                            ELSE Goto(x, "raised")
    /\ UNCHANGED <<jobVars, outbox, calls, Others>>

\* External: the prompt reaches the provider.
CallProvider(x) ==
    /\ At(x, "fenced")
    /\ calls' = [calls EXCEPT ![exec[x].effect] = @ + 1]
    /\ Goto(x, "called")
    /\ UNCHANGED <<jobVars, outbox, Others>>

HandlerConfirms(x) ==
    /\ At(x, "called")
    /\ Return(x, "Confirmed")
    /\ UNCHANGED <<jobVars, outbox, calls, Others>>

\* except Exception: was the fence crossed under this lease?
CheckDispatched(x) ==
    /\ At(x, "raised")
    /\ IF Dispatched(x) THEN Return(x, "Unknown") ELSE Goto(x, "releasing")
    /\ UNCHANGED <<jobVars, outbox, calls, Others>>

ReleaseOutboxLease(x) ==
    /\ At(x, "releasing")
    /\ IF Row(x).lease = exec[x].lease /\ ~Row(x).fence /\ Row(x).status = "running"
       THEN /\ outbox' = Complete(exec[x].effect, exec[x].lease,
                             IF exec[x].lease < MaxAttempts THEN "failed-retryable"
                                                            ELSE "failed")
            /\ Finish(x)
       ELSE /\ Return(x, "Unknown")
            /\ UNCHANGED outbox
    /\ UNCHANGED <<jobVars, calls, Others>>

ObserveOutbox(x) ==
    /\ At(x, "returned")
    /\ outbox' = Complete(exec[x].effect, exec[x].lease, ObservedStatus(x))
    /\ Finish(x)
    /\ UNCHANGED <<jobVars, calls, Others>>

DrainStep(x) ==
    \/ \E e \in Effects : ClaimOutbox(x, e)
    \/ ClaimNothing(x)
    \/ HandlerRaises(x) \/ HandlerDeclines(x)
    \/ MarkDispatched(x) \/ MarkRefused(x) \/ ClassifyRefusal(x)
    \/ CallProvider(x) \/ HandlerConfirms(x)
    \/ CheckDispatched(x) \/ ReleaseOutboxLease(x) \/ ObserveOutbox(x)

(***************************************************************************)
(* Leases: renewal by the holder's thread, expiry, and the reaper.         *)
(***************************************************************************)

Holds(x, e) == exec[x].effect = e /\ exec[x].lease = outbox[e].lease
                                  /\ exec[x].pc \in InHandler

Renew(x) ==
    /\ exec[x].pc \in InHandler
    /\ Row(x).status = "running" /\ Row(x).lease = exec[x].lease /\ Row(x).expired
    /\ outbox' = [outbox EXCEPT ![exec[x].effect].expired = FALSE]
    /\ UNCHANGED <<jobVars, exec, calls, Others>>

LeaseExpires(e) ==
    /\ outbox[e].status = "running" /\ ~outbox[e].expired
    /\ outbox' = [outbox EXCEPT ![e].expired = TRUE]
    /\ UNCHANGED <<jobVars, exec, calls, Others>>

Reap ==
    /\ \E e \in Effects : Expired(e)
    /\ outbox' = [e \in Effects |->
           IF Expired(e) THEN Complete(e, outbox[e].lease, ReapedStatus(e))[e]
                         ELSE outbox[e]]
    /\ UNCHANGED <<jobVars, exec, calls, Others>>

\* The process dies; its locals are gone, what it committed or called is not.
Crash(x) ==
    /\ ~At(x, "idle") /\ crashes < MaxCrashes
    /\ crashes' = crashes + 1
    /\ Finish(x)
    /\ UNCHANGED <<jobVars, outbox, events, calls, applied>>

(***************************************************************************)
(* consume_agent_result: reduce an observation into the job.               *)
(***************************************************************************)

\* Mutant: the reducer does not ask whether the prompt is still submitting.
AcceptsSettled(j, e) == ~intent[j] /\ turn[j] = e /\ outbox[e].worker = worker[j]

\* _reduce_agent_effect accepts a result only for the open fence it belongs to
Accepts(j, e) == /\ ~intent[j]
                 /\ op[j] = "submitting" /\ turn[j] = e
                 /\ outbox[e].worker = worker[j]

Reduced(e) == IF outbox[e].status = "succeeded" THEN "submitted" ELSE "ambiguous"

\* JobStore.apply of "observe:" at revision r, when the job is at r.
ApplyObservation(x, r) ==
    LET e == exec[x].effect  j == outbox[e].job IN
    /\ rev[j] = r
    /\ IF Accepts(j, e)
       THEN /\ rev' = [rev EXCEPT ![j] = @ + 1]
            /\ op' = [op EXCEPT ![j] = Reduced(e)]
            /\ events' = [events EXCEPT ![e] = @ \cup {r}]
            /\ applied' = [applied EXCEPT ![e] = @ + 1]
       ELSE UNCHANGED <<rev, op, events, applied>>
    /\ Goto(x, "marking")

LoadResult(x, e) ==
    /\ At(x, "idle")
    /\ outbox[e].status \in Terminal /\ outbox[e].lease = 0 /\ ~outbox[e].consumed
    /\ exec' = [exec EXCEPT ![x] = [Idle EXCEPT !.pc = "consuming", !.effect = e]]
    /\ UNCHANGED <<jobVars, outbox, calls, Others>>

\* First attempt, at the admitted revision; a committed command id is a no-op.
ConsumeAtAdmitted(x) ==
    LET e == exec[x].effect IN
    /\ At(x, "consuming")
    /\ IF Row(x).expected \in events[e]
       THEN Goto(x, "marking") /\ UNCHANGED <<rev, op, events, applied>>
       ELSE \/ ApplyObservation(x, Row(x).expected)
            \/ /\ rev[Row(x).job] # Row(x).expected
               /\ IF ConsumeRetries > 0 THEN Goto(x, "rereading") ELSE Finish(x)
               /\ UNCHANGED <<rev, op, events, applied>>
    /\ UNCHANGED <<turn, worker, user, intent, outbox, calls, crashes>>

RereadJob(x) ==
    /\ At(x, "rereading")
    /\ exec' = [exec EXCEPT ![x].pc = "applying", ![x].rev = rev[Row(x).job],
                            ![x].tries = @ + 1]
    /\ UNCHANGED <<jobVars, outbox, calls, Others>>

ConsumeAtCurrent(x) ==
    LET e == exec[x].effect IN
    /\ At(x, "applying")
    /\ IF exec[x].rev \in events[e]
       THEN Goto(x, "marking") /\ UNCHANGED <<rev, op, events, applied>>
       ELSE \/ ApplyObservation(x, exec[x].rev)
            \/ /\ rev[Row(x).job] # exec[x].rev
               /\ IF exec[x].tries < ConsumeRetries THEN Goto(x, "rereading") ELSE Finish(x)
               /\ UNCHANGED <<rev, op, events, applied>>
    /\ UNCHANGED <<turn, worker, user, intent, outbox, calls, crashes>>

\* INSERT OR IGNORE INTO outbox_consumptions
MarkConsumed(x) ==
    /\ At(x, "marking")
    /\ outbox' = [outbox EXCEPT ![exec[x].effect].consumed = TRUE]
    /\ Finish(x)
    /\ UNCHANGED <<jobVars, calls, Others>>

ConsumeStep(x) ==
    \/ \E e \in Effects : LoadResult(x, e)
    \/ ConsumeAtAdmitted(x) \/ RereadJob(x) \/ ConsumeAtCurrent(x) \/ MarkConsumed(x)

(***************************************************************************)
(* The specification.                                                      *)
(***************************************************************************)

Init ==
    /\ rev = [j \in Jobs |-> 0]
    /\ op = [j \in Jobs |-> "planned"]
    /\ turn = [j \in Jobs |-> 0]
    /\ worker = [j \in Jobs |-> 0]
    /\ user = [j \in Jobs |-> FALSE]
    /\ intent = [j \in Jobs |-> FALSE]
    /\ outbox = [e \in Effects |-> NoRow]
    /\ exec = [x \in Executors |-> Idle]
    /\ events = [e \in Effects |-> {}]
    /\ calls = [e \in Effects |-> 0]
    /\ applied = [e \in Effects |-> 0]
    /\ crashes = 0

Next ==
    \/ JobStep
    \/ \E x \in Executors : DrainStep(x) \/ ConsumeStep(x) \/ Renew(x) \/ Crash(x)
    \/ \E e \in Effects : LeaseExpires(e)
    \/ Reap

Spec == Init /\ [][Next]_vars

(***************************************************************************)
(* Fairness.  The wake daemon calls recover_jobs periodically, so due rows *)
(* are claimed, expired leases reaped and results consumed; a live process *)
(* takes its next step; the lease of a holder that is gone runs out.       *)
(***************************************************************************)

Progress(x) == DrainStep(x) \/ ConsumeStep(x)

FairSpec ==
    /\ Spec
    /\ \A x \in Executors : WF_vars(Progress(x))
    /\ \A e \in Effects : WF_vars(LeaseExpires(e) /\ \A x \in Executors : ~Holds(x, e))
    /\ WF_vars(Reap)

(***************************************************************************)
(* Properties.                                                             *)
(***************************************************************************)

\* Every variable keeps its type; no row is ever leased more often than the
\* retry budget of observe_outbox, release_outbox_lease and the reaper allows.
TypeOK ==
    /\ rev \in [Jobs -> Nat]
    /\ op \in [Jobs -> {"planned", "submitting", "submitted", "ambiguous"}]
    /\ turn \in [Jobs -> 0 .. MaxEffects]
    /\ worker \in [Jobs -> Nat]
    /\ user \in [Jobs -> BOOLEAN]
    /\ intent \in [Jobs -> BOOLEAN]
    /\ outbox \in [Effects -> Rows]
    /\ exec \in [Executors -> Locals]
    /\ events \in [Effects -> SUBSET Nat]
    /\ calls \in [Effects -> Nat]
    /\ applied \in [Effects -> Nat]
    /\ crashes \in 0 .. MaxCrashes

\* The provider, which is not idempotent, is called at most once for an effect,
\* whatever executors die, leases run out, handlers retry or rows are re-leased.
SubmittedAtMostOnce == \A e \in Effects : calls[e] <= 1

\* A recorded outcome is honest: "failed" is recorded only for an effect that
\* was not and will not be sent, "succeeded" only for one that was.
OutcomeHonest ==
    \A e \in Effects :
        /\ outbox[e].status = "succeeded" => calls[e] > 0
        /\ outbox[e].status \in {"failed", "failed-retryable", "pending"} =>
               /\ calls[e] = 0
               /\ \A x \in Executors : exec[x].effect = e => ~At(x, "fenced")

\* Consumers racing on one result, or repeating one whose consumption mark was
\* lost in a crash, change the job at most once for it.
AppliedAtMostOnce == \A e \in Effects : applied[e] <= 1

\* A result is never marked consumed while the prompt it answers still waits for
\* it under the worker that admitted it: the job is not left submitting for good.
ConsumedNotStranded ==
    \A e \in Effects : outbox[e].consumed => ~Accepts(outbox[e].job, e)

\* Two rows for one provider target never run together.
OneRunningPerTarget ==
    \A e, f \in Effects :
        /\ outbox[e].status = "running" /\ outbox[f].status = "running"
        /\ outbox[e].job = outbox[f].job
        => e = f

\* The submit fence is crossed only while the admission stands: not once the job
\* was cancelled, taken over, requeued to another worker or moved on.
FenceOnlyWhileAdmitted ==
    [][\A e \in Effects : ~outbox[e].fence /\ outbox'[e].fence =>
           Accepts(outbox[e].job, e)]_vars

\* An outcome, once recorded, is final: a late observation of a lost lease, a
\* reaper or another claim never rewrites it.
OutcomeFinal ==
    [][\A e \in Effects : outbox[e].status \in Terminal =>
           outbox'[e].status = outbox[e].status]_vars

(***************************************************************************)
(* Refinement: rows, leases, fences and executors implement the contract.  *)
(***************************************************************************)

ContractOutcome ==
    [e \in Effects |-> IF outbox[e].status \in Terminal THEN outbox[e].status
                       ELSE IF outbox[e].status = "absent" THEN "none" ELSE "open"]

Contract == INSTANCE EffectContract WITH
    outcome <- ContractOutcome,
    sent <- calls,
    consumed <- [e \in Effects |-> outbox[e].consumed]

\* The outbox keeps the contract of a non-repeatable effect (a late call is
\* possible only for an effect already recorded as unknown, never as failed).
ImplementsContract == Contract!Spec

(***************************************************************************)
(* The inductive invariant behind the safety properties.                   *)
(***************************************************************************)

Draining == InHandler \cup {"raised", "releasing", "returned"}
Consuming == {"consuming", "rereading", "applying", "marking"}

\* A row is leased exactly while it runs, to its latest claim, within its budget.
LeaseShape ==
    \A e \in Effects :
        /\ outbox[e].status = "running" <=> outbox[e].lease # 0
        /\ outbox[e].lease # 0 => outbox[e].lease = outbox[e].attempts
        /\ outbox[e].fence => outbox[e].lease # 0
        /\ outbox[e].status \in Unleased => outbox[e].attempts < MaxAttempts

\* What an executor remembers is a claim its row has seen, and no two share one.
ExecShape ==
    /\ \A x \in Executors :
          /\ exec[x].pc \in Draining =>
                 /\ exec[x].effect \in Effects
                 /\ exec[x].lease # 0
                 /\ exec[x].lease <= Row(x).attempts
                 /\ Row(x).status # "absent"
          /\ exec[x].pc \in Consuming =>
                 exec[x].effect \in Effects /\ Row(x).status \in Terminal
          /\ At(x, "consuming") => exec[x].tries = 0
          /\ At(x, "rereading") => exec[x].tries < ConsumeRetries
    /\ \A x, y \in Executors :
          /\ exec[x].pc \in Draining /\ exec[y].pc \in Draining
          /\ exec[x].effect = exec[y].effect /\ exec[x].lease = exec[y].lease
          => x = y

\* Where an executor stands tells whether its lease has crossed the fence.
FenceShape ==
    \A x \in Executors :
        /\ /\ \/ exec[x].pc \in {"handling", "unmarked", "releasing"}
              \/ At(x, "returned") /\ exec[x].obs = "Failed"
           /\ exec[x].lease = Row(x).lease
           => ~Row(x).fence
        /\ exec[x].pc \in {"fenced", "called"} =>
               /\ exec[x].lease = Row(x).attempts
               /\ Row(x).status = "unknown" \/ Row(x).fence
        /\ At(x, "fenced") => calls[exec[x].effect] = 0
        /\ At(x, "called") => calls[exec[x].effect] > 0
        /\ At(x, "returned") => /\ exec[x].obs # "none"
                                /\ exec[x].obs = "Confirmed" => calls[exec[x].effect] > 0

\* A call leaves its row fenced or settled as possibly sent; success needs a call.
CallShape ==
    \A e \in Effects :
        /\ calls[e] > 0 =>
              /\ calls[e] = 1
              /\ outbox[e].fence \/ outbox[e].status \in {"succeeded", "unknown"}
        /\ outbox[e].status = "succeeded" => calls[e] > 0

\* An open fence names its row, and tokens are as old as the revisions they came from.
JobShape(j) ==
    /\ worker[j] <= rev[j]
    /\ turn[j] = 0 => op[j] = "planned"
    /\ turn[j] # 0 => outbox[turn[j]].status # "absent" /\ outbox[turn[j]].job = j

\* While the job stays at the admitted revision, the admission stands.
AdmittedShape(e) == outbox[e].status # "absent" =>
    /\ outbox[e].expected <= rev[outbox[e].job]
    /\ 0 < outbox[e].worker /\ outbox[e].worker < outbox[e].expected
    /\ outbox[e].expected = rev[outbox[e].job] => Accepts(outbox[e].job, e)

AdmissionShape == (\A j \in Jobs : JobShape(j)) /\ (\A e \in Effects : AdmittedShape(e))

\* The job no longer waits for the effect, and never will again.
Settled(e) == outbox[e].status # "absent" /\ ~Accepts(outbox[e].job, e)

\* An observation that was applied, recorded or marked, or is about to be, is settled.
ReductionShape ==
    /\ \A e \in Effects :
          /\ applied[e] > 0 => applied[e] = 1 /\ Settled(e)
          /\ events[e] # {} => Settled(e)
          /\ outbox[e].consumed => Settled(e)
    /\ \A x \in Executors : At(x, "marking") => Settled(exec[x].effect)

\* Everything the safety properties rest on, as one inductive invariant.
SafetyInv == LeaseShape /\ ExecShape /\ FenceShape /\ CallShape
                /\ AdmissionShape /\ ReductionShape

\* Every admitted effect is in the end settled and its result consumed.
EveryEffectConsumed ==
    \A e \in Effects : outbox[e].status # "absent" ~> outbox[e].consumed
=============================================================================
