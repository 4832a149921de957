------------------------------- MODULE Workflow -------------------------------
(***************************************************************************)
(* The tiered workflow of one agent job: the worker's loop over the phases *)
(* (cursor/provisioning.py), the states of review and plan approval        *)
(* (cursor/workflow.py), the questions it asks and their answers           *)
(* (cursor/questions.py, cursor/service.py), the learned preference        *)
(* (user_config.py) and what recovery does with an abandoned worker.       *)
(*                                                                         *)
(* A turn is a prompt with a token of its own; an agent's output carries   *)
(* the token of the prompt it answers.  The planner classifies the request *)
(* and plans, a fresh reviewer reviews the plan, the user (or, for an      *)
(* ordinary reviewed plan, the preference) approves it, and a fresh        *)
(* implementer builds it.                                                  *)
(*                                                                         *)
(* Plans, prompts and questions are numbered in the order they come to be. *)
(* A plan is its number and whether its text names a hard risk; a review   *)
(* is the plan it read, its decision and whether it names a hard risk.     *)
(* Acquiring the participants' panes and sessions is Provision; here a     *)
(* hand-over is one step.                                                  *)
(***************************************************************************)
EXTENDS Naturals, Sequences, FiniteSets

CONSTANTS
    Modes,        \* the plan-approval preferences a run starts with
    OtherIds,     \* how many approvals of other jobs the preferences may hold at first
    OfferAfter,   \* the explicit approvals after which automatic approval is offered
    MaxTurns,     \* bound on the turns begun over a clarification already dispatched
    MaxQuestions, \* bound on the questions agents ask
    MaxFaults     \* bound on crashes of the worker and of the daemon, lost answers, agent
                  \* errors, outputs without the markers asked for, unreadable preferences
                  \* and changes others make to them

ASSUME WorkflowConstants ==
    /\ Modes \subseteq {"ask", "auto"} /\ OtherIds \subseteq 0..OfferAfter
    /\ OfferAfter \in Nat \ {0} /\ MaxTurns \in Nat
    /\ MaxQuestions \in Nat /\ MaxFaults \in Nat

VARIABLES
    job,    \* the durable record of the job
    q,      \* its voice question
    wk,     \* the worker process
    eff,    \* the outbox row of the prompt under way
    adm,    \* the admissions the outbox remembers
    ag,     \* the agent session the job now talks to
    prefs,  \* the plan-approval preferences
    hist,   \* what the user saw and said, and which plans implementers were given
    spent   \* how much of each bound is used up

vars == <<job, q, wk, eff, adm, ag, prefs, hist, spent>>

TierOrder == <<"simple", "medium", "high">>
Tiers == {"simple", "medium", "high"}
Rank(t) == CHOOSE i \in 1..3 : TierOrder[i] = t
Phases == {"classifying", "planning", "reviewing", "revising", "implementing", "finished"}
PlanPhases == {"planning", "revising"}
Terminal == {"completed", "failed", "cancelled"}
Working == {"routing", "running"}
MaxRound == 2

RoleOf(phase) == IF phase = "reviewing" THEN "reviewer"
                 ELSE IF phase = "implementing" THEN "implementer" ELSE "planner"

\* _classified_tier: hard-risk evidence overrides the agent's tier
ClassifiedTier(o) == IF o.hard THEN "high" ELSE o.tier

NoPlan == [n |-> 0, round |-> 0, hard |-> FALSE]
NoReview == [of |-> 0, round |-> 0, decision |-> "none", hard |-> FALSE]
NoGate == <<0, 0>>
ApprovalStates == {"none", "boundary", "awaiting", "approved", "observed", "rejected"}
NoApproval == [state |-> "none", gate |-> NoGate, source |-> "none", plan |-> 0, counted |-> FALSE]
NoQuestion == [id |-> 0, owner |-> "none", token |-> 0, state |-> "none", dispatch |-> 0,
               routine |-> FALSE]
NoOut == [asks |-> "no", mark |-> "none", tier |-> "none", hard |-> FALSE]
NoAgent == [n |-> 0, token |-> 0, phase |-> "none", plan |-> 0, state |-> "idle", out |-> NoOut]
NoEffect == [st |-> "none", by |-> "none", settled |-> FALSE]
Off == [pc |-> "off", outer |-> FALSE, got |-> FALSE, out |-> NoOut, settled |-> FALSE,
        pref |-> "none"]

Init ==
    /\ job = [status |-> "queued", reconcile |-> FALSE, phase |-> "classifying", tier |-> "none",
              round |-> 0, turn |-> 0, token |-> 0, turnPhase |-> "none", cont |-> FALSE,
              prompt |-> "none", full |-> TRUE, seen |-> FALSE, plan |-> NoPlan,
              review |-> NoReview, src |-> "none", ap |-> NoApproval, pending |-> FALSE,
              role |-> "none"]
    /\ q = NoQuestion /\ wk = Off /\ eff = NoEffect /\ adm = {} /\ ag = NoAgent
    /\ \E m \in Modes, k \in OtherIds :
          prefs = [mode |-> m, ids |-> {<<0, i>> : i \in 1..k},
                   offer |-> IF k = OfferAfter THEN <<0, k>> ELSE NoGate, done |-> FALSE]
    /\ hist = [shown |-> <<>>, yes |-> {}, auto |-> {}, built |-> {}, sent |-> 0]
    /\ spent = [questions |-> 0, faults |-> 0]

-----------------------------------------------------------------------------
(* The worker's writes                                                     *)

\* _worker_change: the job is still the worker's.  Inside the workflow a write leaves the
\* snapshot of run_claimed_worker behind (outer), and the error handler that uses it can no
\* longer fail the job.
Owns == job.status \in Working

\* what a terminal job still holds is released: Provision
Open == job.status \notin Terminal
At(pc) == wk.pc = pc /\ Owns

Goes(pc) == wk' = [wk EXCEPT !.pc = pc, !.outer = FALSE]

\* the except clause of run_claimed_worker: _worker_fail with the snapshot's revision
Raise ==
    /\ wk' = Off
    /\ job' = IF wk.outer THEN [job EXCEPT !.status = "failed"] ELSE job

\* begin_worker: a job to be reconciled goes straight to the workflow's loop
Claim ==
    /\ job.status = "queued" /\ wk.pc = "off"
    /\ IF job.reconcile
       THEN /\ job' = [job EXCEPT !.status = "running"]
            /\ wk' = [Off EXCEPT !.pc = "loop", !.outer = TRUE]
       ELSE /\ job' = [job EXCEPT !.status = "routing"]
            /\ wk' = [Off EXCEPT !.pc = "start", !.outer = TRUE]
    /\ UNCHANGED <<q, eff, adm, ag, prefs, hist, spent>>

\* _prompt_turn_identity: a clarification already dispatched keeps its token
Redispatched == job.cont /\ q.state = "dispatching"

\* _begin_prompt_turn
BeginTurn ==
    /\ At("start")
    /\ (q.state = "dispatching" /\ ~job.cont) => (job.turn < MaxTurns)
    /\ IF job.cont /\ ~Redispatched /\ ~(q.state = "answered" /\ q.token = job.token)
       THEN Raise /\ UNCHANGED q
       ELSE LET turn == IF Redispatched THEN job.turn ELSE job.turn + 1
                token == IF Redispatched THEN q.dispatch ELSE turn
            IN /\ job' = [job EXCEPT !.turn = turn, !.token = token, !.turnPhase = job.phase]
               /\ q' = IF q.state # "answered" THEN q
                       ELSE IF job.cont
                       THEN [q EXCEPT !.state = "dispatching", !.dispatch = token]
                       ELSE [q EXCEPT !.state = "resolved"]
               /\ wk' = [wk EXCEPT !.pc = "ready"]
    /\ UNCHANGED <<eff, adm, ag, prefs, hist, spent>>

\* run_claimed_worker: the infrastructure is there, the job runs
MarkRunning ==
    /\ At("ready")
    /\ job' = [job EXCEPT !.status = "running"]
    /\ wk' = [wk EXCEPT !.pc = "loop", !.outer = TRUE]
    /\ UNCHANGED <<q, eff, adm, ag, prefs, hist, spent>>

\* _begin_phase_turn
TurnOf(j) == [j EXCEPT !.turn = j.turn + 1, !.token = j.turn + 1, !.turnPhase = j.phase,
                       !.prompt = "none"]

NextTurn ==
    /\ At("turn")
    /\ job' = TurnOf(job) /\ Goes("loop")
    /\ UNCHANGED <<q, eff, adm, ag, prefs, hist, spent>>

\* _ensure_workflow_participant: another role gets a fresh session, the old one is closed
HandOver ==
    /\ At("loop") /\ ~job.pending /\ job.role # RoleOf(job.phase)
    /\ job' = [job EXCEPT !.role = RoleOf(job.phase), !.seen = FALSE]
    /\ ag' = NoAgent /\ Goes("loop")
    /\ UNCHANGED <<q, eff, adm, prefs, hist, spent>>

Settled == ~job.pending /\ job.role = RoleOf(job.phase)

\* _run_tiered_workflow: a turn begun for another phase is not used for this one
PhaseTurn ==
    /\ At("loop") /\ Settled /\ job.turnPhase # job.phase
    /\ job' = TurnOf(job) /\ Goes("loop")
    /\ UNCHANGED <<q, eff, adm, ag, prefs, hist, spent>>

InTurn == At("loop") /\ Settled /\ job.turnPhase = job.phase

-----------------------------------------------------------------------------
(* One prompt: planned, admitted to the outbox, delivered, answered        *)

\* _execute_phase_prompt: only a clarification to a session that knows the task is a delta
PlanPrompt ==
    /\ InTurn /\ job.prompt = "none"
    /\ job' = [job EXCEPT !.prompt = "planned", !.full = ~(job.cont /\ job.seen),
                          !.cont = @ /\ job.phase # "implementing"]
    /\ Goes("loop")
    /\ UNCHANGED <<q, eff, adm, ag, prefs, hist, spent>>

Key == <<IF job.cont /\ ~job.full THEN "reply" ELSE "task", job.phase, job.token>>

\* store.apply refuses a command it has already applied
Admit ==
    /\ InTurn /\ job.prompt = "planned"
    /\ IF Key \in adm
       THEN Raise /\ UNCHANGED <<eff, adm>>
       ELSE /\ job' = [job EXCEPT !.prompt = "submitting"]
            /\ adm' = adm \cup {Key}
            /\ eff' = [NoEffect EXCEPT !.st = "pending"]
            /\ Goes("sent")
    /\ UNCHANGED <<q, ag, prefs, hist, spent>>

\* the agent is given the prompt: the plan to review, to revise or to build is part of a full one
Given == [n |-> hist.sent + 1, token |-> job.token, phase |-> job.phase,
          plan |-> IF job.full THEN job.plan.n ELSE ag.plan, state |-> "working", out |-> NoOut]

Deliver(by) ==
    /\ Open /\ eff.st = "pending"
    /\ eff' = [eff EXCEPT !.st = "sent", !.by = by]
    /\ ag' = Given
    /\ hist' = [hist EXCEPT !.sent = @ + 1,
                   !.built = IF job.phase = "implementing" THEN @ \cup {job.plan.n} ELSE @]

\* drain_outbox in the worker; a scan may have taken the row before it
Drain ==
    /\ At("sent") /\ Deliver("worker")
    /\ UNCHANGED <<job, q, wk, adm, prefs, spent>>

\* the drain of recover_jobs
ScanDrain ==
    /\ Deliver("scan")
    /\ UNCHANGED <<job, q, wk, adm, prefs, spent>>

\* the worker's drain found nothing: the submission did not settle, the job fails
Missed ==
    /\ At("sent") /\ eff.by = "scan"
    /\ job' = [job EXCEPT !.status = "failed"] /\ wk' = Off
    /\ UNCHANGED <<q, eff, adm, ag, prefs, hist, spent>>

\* what an agent prints when it does what the phase asks for; a tier comes with a reason, which
\* may name a hard risk, as a plan or a review may (told apart only where it can matter)
TierClaims == {<<"simple", FALSE>>, <<"simple", TRUE>>, <<"medium", FALSE>>, <<"high", FALSE>>}
Hard == IF job.tier = "medium" THEN BOOLEAN ELSE {FALSE}

Outputs(phase) ==
    CASE phase = "classifying" ->
             {[NoOut EXCEPT !.mark = "tier", !.tier = t[1], !.hard = t[2]] : t \in TierClaims}
      [] phase \in PlanPhases -> {[NoOut EXCEPT !.mark = "plan", !.hard = h] : h \in Hard}
      [] phase = "reviewing" ->
             {[NoOut EXCEPT !.mark = "approve", !.hard = h] : h \in Hard}
             \cup {[NoOut EXCEPT !.mark = "revise"]}
      [] phase = "implementing" ->
             {[NoOut EXCEPT !.mark = "promote", !.tier = t[1], !.hard = t[2]] : t \in TierClaims}
             \cup {[NoOut EXCEPT !.mark = "summary"]}
      [] OTHER -> {}

Questions(phase) ==
    {[NoOut EXCEPT !.asks = s] : s \in {"routine", "other"}}
    \cup (IF phase \in PlanPhases THEN {[NoOut EXCEPT !.asks = "other", !.mark = "plan"]} ELSE {})

\* the markers are missing, or the promotion raises nothing
Useless(o) ==
    /\ o.asks = "no"
    /\ o.mark = "none" \/ (o.mark = "promote" /\ Rank(ClassifiedTier(o)) <= Rank(job.tier))

\* a plan may be on the screen while the agent still works
AgentOutputs ==
    /\ Open /\ ag.state = "working"
    /\ \E o \in Outputs(ag.phase) \cup Questions(ag.phase) \cup {NoOut} :
          /\ (o.asks # "no") => (spent.questions < MaxQuestions)
          /\ Useless(o) => (spent.faults < MaxFaults)
          /\ \E s \in {"done"} \cup (IF o.mark = "plan" /\ o.asks = "no" THEN {"shown"} ELSE {}) :
                ag' = [ag EXCEPT !.out = o, !.state = s]
          /\ spent' = [questions |-> spent.questions + (IF o.asks = "no" THEN 0 ELSE 1),
                       faults |-> spent.faults + (IF Useless(o) THEN 1 ELSE 0)]
    /\ UNCHANGED <<job, q, wk, eff, adm, prefs, hist>>

AgentSettles ==
    /\ Open /\ ag.state = "shown"
    /\ ag' = [ag EXCEPT !.state = "done"]
    /\ UNCHANGED <<job, q, wk, eff, adm, prefs, hist, spent>>

\* wait_for_stable_completion: settled, or the plan's marker of this turn shown by a working agent
Stable == ag.state = "done" \/ (ag.state = "shown" /\ ag.token = job.token)

\* submit_task: the answer to the submission brings the agent's output
Confirm ==
    /\ Open /\ eff.st = "sent" /\ Stable
    /\ eff' = [eff EXCEPT !.st = "confirmed", !.settled = ag.state = "done"]
    /\ UNCHANGED <<job, q, wk, adm, ag, prefs, hist, spent>>

\* the answer is lost: nobody knows whether the agent accepted the prompt
Lose ==
    /\ Open /\ eff.st = "sent" /\ spent.faults < MaxFaults
    /\ eff' = [eff EXCEPT !.st = "unknown"]
    /\ spent' = [spent EXCEPT !.faults = @ + 1]
    /\ UNCHANGED <<job, q, wk, adm, ag, prefs, hist>>

\* _reduce_agent_effect
Reduced(j) ==
    IF eff.st = "confirmed" THEN [j EXCEPT !.prompt = "submitted", !.seen = TRUE]
    ELSE [j EXCEPT !.prompt = "ambiguous"]

\* an explicit approval is counted once its prompt is known to be accepted
UncountedAny == job.ap.source # "none" /\ ~job.ap.counted
Uncounted == job.ap.source = "explicit" /\ ~job.ap.counted
AfterCount == IF wk.got THEN "observe" ELSE "watch"

\* the worker consumes the result of its own row; without a confirmation the job fails as well
Consume ==
    /\ At("sent") /\ eff.by = "worker" /\ eff.st \in {"confirmed", "unknown"}
    /\ IF eff.st = "confirmed"
       THEN /\ job' = Reduced(job)
            /\ wk' = [Off EXCEPT !.pc = IF Uncounted THEN "count" ELSE "observe",
                                 !.got = TRUE, !.out = ag.out, !.settled = eff.settled]
       ELSE job' = [Reduced(job) EXCEPT !.status = "failed"] /\ wk' = Off
    /\ eff' = NoEffect
    /\ UNCHANGED <<q, adm, ag, prefs, hist, spent>>

\* a worker that finds the prompt submitted waits for the output of the job's own turn
Wait ==
    /\ InTurn /\ job.prompt = "submitted"
    /\ wk' = [wk EXCEPT !.pc = IF Uncounted THEN "count" ELSE "watch"]
    /\ UNCHANGED <<job, q, eff, adm, ag, prefs, hist, spent>>

\* record_explicit_plan_approval: the ledger holds OfferAfter approvals, the last of them is
\* to bring the offer
Recorded(p, id) ==
    IF id \in p.ids THEN p
    ELSE LET ids == IF Cardinality(p.ids) < OfferAfter THEN p.ids \cup {id} ELSE p.ids
         IN [p EXCEPT !.ids = ids,
                      !.offer = IF Cardinality(ids) = OfferAfter /\ ~p.done /\ p.offer = NoGate
                                THEN id ELSE @]

\* _accepted_explicit_plan_approval: the file first, then the job; an error is passed over
CountFile ==
    /\ At("count")
    /\ \/ /\ prefs' = Recorded(prefs, job.ap.gate)
          /\ wk' = [wk EXCEPT !.pc = IF job.ap.gate \in prefs'.ids THEN "mark"
                                     ELSE AfterCount]
          /\ UNCHANGED spent
       \/ /\ spent.faults < MaxFaults
          /\ spent' = [spent EXCEPT !.faults = @ + 1]
          /\ wk' = [wk EXCEPT !.pc = AfterCount]
          /\ UNCHANGED prefs
    /\ UNCHANGED <<job, q, eff, adm, ag, hist>>

CountJob ==
    /\ At("mark")
    /\ job' = [job EXCEPT !.ap.counted = TRUE]
    /\ Goes(AfterCount)
    /\ UNCHANGED <<q, eff, adm, ag, prefs, hist, spent>>

\* markers of another turn's token are not seen
Watch ==
    /\ At("watch") /\ Stable
    /\ wk' = [wk EXCEPT !.pc = "observe", !.out = IF ag.token = job.token THEN ag.out ELSE NoOut,
                        !.settled = ag.state = "done"]
    /\ UNCHANGED <<job, q, eff, adm, ag, prefs, hist, spent>>

WatchFails ==
    /\ At("watch") /\ spent.faults < MaxFaults
    /\ spent' = [spent EXCEPT !.faults = @ + 1]
    /\ job' = [job EXCEPT !.status = "queued", !.reconcile = TRUE] /\ wk' = Off
    /\ UNCHANGED <<q, eff, adm, ag, prefs, hist>>

\* _record_plan_boundary: the gate names the prompt, the plan and the agent's state sequence; a
\* recorded gate is never rewritten.  An implementer's output makes the approval observed.
Observe ==
    /\ At("observe")
    /\ LET gate == <<ag.n, IF wk.settled THEN 2 ELSE 1>>
       IN IF job.phase \in PlanPhases /\ wk.out.mark = "plan"
          THEN IF job.ap.gate \notin {NoGate, gate}
               THEN Raise
               ELSE /\ job' = [job EXCEPT !.ap = [NoApproval EXCEPT !.state = "boundary",
                                                                    !.gate = gate]]
                    /\ Goes("advance")
          ELSE IF job.phase = "implementing" /\ job.ap.state = "approved"
          THEN job' = [job EXCEPT !.ap.state = "observed"] /\ Goes("advance")
          ELSE wk' = [wk EXCEPT !.pc = "advance"] /\ UNCHANGED job
    /\ UNCHANGED <<q, eff, adm, ag, prefs, hist, spent>>

-----------------------------------------------------------------------------
(* The output moves the workflow on (_advance_workflow_output)             *)

Advances(phase) == At("advance") /\ job.phase = phase /\ wk.out.asks = "no"

\* question_adapter.ask: the job waits, the worker ends; the user is shown plan n
AskFor(j, owner, routine, n) ==
    /\ job' = [j EXCEPT !.status = "awaiting", !.reconcile = FALSE, !.prompt = "none"]
    /\ q' = [id |-> Len(hist.shown) + 1, owner |-> owner, token |-> job.token,
             state |-> "pending", dispatch |-> 0, routine |-> routine]
    /\ hist' = [hist EXCEPT !.shown = Append(@, n)]
    /\ wk' = Off

\* _workflow_question
AgentAsks ==
    /\ At("advance") /\ wk.out.asks # "no"
    /\ AskFor(job, "workflow", wk.out.asks = "routine", 0)
    /\ UNCHANGED <<eff, adm, ag, prefs, spent>>

Classify ==
    /\ Advances("classifying") /\ wk.out.mark = "tier"
    /\ LET t == ClassifiedTier(wk.out)
       IN job' = [job EXCEPT !.tier = t, !.phase = IF t = "simple" THEN "implementing" ELSE "planning",
                             !.prompt = "none", !.review.decision = "none", !.src = "none"]
    /\ Goes("turn")
    /\ UNCHANGED <<q, eff, adm, ag, prefs, hist, spent>>

\* publish_artifact: written once, for the round it was made in
PlanArtifact == [n |-> ag.n, round |-> job.round, hard |-> wk.out.hard]

\* publish_plan and the transition to the review
PublishPlan ==
    /\ \E phase \in PlanPhases : Advances(phase)
    /\ wk.out.mark = "plan"
    /\ job' = [job EXCEPT !.plan = PlanArtifact, !.review = NoReview, !.src = "none",
                          !.phase = "reviewing", !.prompt = "none"]
    /\ Goes("turn")
    /\ UNCHANGED <<q, eff, adm, ag, prefs, hist, spent>>

\* publish_review
Reviewed(decision) ==
    [job EXCEPT !.review = [of |-> ag.plan, round |-> job.round, decision |-> decision,
                            hard |-> wk.out.hard],
                !.src = IF decision = "approve" THEN "reviewer" ELSE "none"]

\* _auto_plan_approval_allowed (a hard risk in the request or the reason made the tier high)
AutoAllowed ==
    /\ job.ap.state = "boundary"
    /\ job.tier \in {"simple", "medium"}
    /\ ~job.plan.hard /\ ~wk.out.hard
    /\ prefs.mode = "auto"

\* PlanApproval.approve
Approved(j, source) ==
    [j EXCEPT !.phase = "implementing", !.prompt = "none",
              !.ap = [@ EXCEPT !.state = "approved", !.source = source, !.plan = j.plan.n]]

\* preferences that cannot be read allow nothing
ApproveReview ==
    /\ Advances("reviewing") /\ wk.out.mark = "approve"
    /\ \/ /\ AutoAllowed
          /\ job' = Approved(Reviewed("approve"), "auto")
          /\ hist' = [hist EXCEPT !.auto = IF prefs.mode = "auto" THEN @ \cup {ag.plan} ELSE @]
          /\ Goes("turn")
          /\ UNCHANGED <<q, spent>>
       \/ /\ ~AutoAllowed \/ spent.faults < MaxFaults
          /\ spent' = [spent EXCEPT !.faults = @ + (IF AutoAllowed THEN 1 ELSE 0)]
          /\ AskFor([Reviewed("approve") EXCEPT !.ap.state = "awaiting", !.ap.plan = job.plan.n],
                    "plan_approval", FALSE, job.plan.n)
    /\ UNCHANGED <<eff, adm, ag, prefs>>

\* a review that rejects a medium plan, or the plan of the last round, needs the user: it is
\* published, then the question is asked
ExhaustedLate == job.round > MaxRound
Exhausted == job.round >= MaxRound

ReviseAsks ==
    /\ Advances("reviewing") /\ wk.out.mark = "revise"
    /\ job.tier = "medium" \/ Exhausted
    /\ job' = Reviewed("revise") /\ Goes("ask")
    /\ UNCHANGED <<q, eff, adm, ag, prefs, hist, spent>>

AskReview ==
    /\ At("ask")
    /\ AskFor(job, IF job.tier = "medium" THEN "review" ELSE "exhausted", FALSE, job.plan.n)
    /\ UNCHANGED <<eff, adm, ag, prefs, spent>>

\* ReviewState.revise
ReviseAgain ==
    /\ Advances("reviewing") /\ wk.out.mark = "revise"
    /\ job.tier # "medium" /\ ~Exhausted
    /\ job' = [Reviewed("revise") EXCEPT !.round = @ + 1, !.phase = "revising",
                                         !.prompt = "none", !.ap = NoApproval]
    /\ Goes("turn")
    /\ UNCHANGED <<q, eff, adm, ag, prefs, hist, spent>>

\* WorkflowState.promote
Promotes == wk.out.mark = "promote" /\ Rank(ClassifiedTier(wk.out)) > Rank(job.tier)

\* PlanApproval.validate_transition refuses to forget an accepted approval
Promote ==
    /\ Advances("implementing") /\ Promotes
    /\ IF job.ap.state # "none"
       THEN Raise
       ELSE /\ job' = [job EXCEPT !.tier = ClassifiedTier(wk.out), !.phase = "planning",
                                  !.cont = FALSE, !.round = 0, !.plan = NoPlan,
                                  !.review = NoReview, !.src = "none", !.prompt = "none"]
            /\ Goes("turn")
    /\ UNCHANGED <<q, eff, adm, ag, prefs, hist, spent>>

\* _workflow_block: the markers of the phase are missing, or the promotion raises nothing
Block ==
    /\ \/ \E phase \in {"classifying", "reviewing"} \cup PlanPhases :
             Advances(phase) /\ wk.out.mark = "none"
       \/ Advances("implementing") /\ wk.out.mark = "promote" /\ ~Promotes
    /\ job' = [job EXCEPT !.status = "blocked", !.reconcile = FALSE, !.prompt = "none"]
    /\ wk' = Off
    /\ UNCHANGED <<q, eff, adm, ag, prefs, hist, spent>>

\* complete_from_output: the clarification that was being answered is resolved
QuestionResolved == IF q.state \in {"answered", "dispatching"} THEN [q EXCEPT !.state = "resolved"] ELSE q

\* _worker_complete: the implementer settled without a summary
NoSummary ==
    /\ Advances("implementing") /\ wk.out.mark = "none"
    /\ job' = [job EXCEPT !.status = "blocked", !.reconcile = FALSE, !.cont = FALSE,
                          !.prompt = "none"]
    /\ q' = QuestionResolved /\ wk' = Off
    /\ UNCHANGED <<eff, adm, ag, prefs, hist, spent>>

\* _completion_preferences: what the preferences say of the approval, before the job is finished
Completing == \/ Advances("implementing") /\ wk.out.mark = "summary"
              \/ At("loop") /\ job.pending

PrefsRead ==
    /\ Completing
    /\ \/ /\ prefs' = IF Uncounted THEN Recorded(prefs, job.ap.gate) ELSE prefs
          /\ wk' = [wk EXCEPT !.pc = "finish",
                       !.pref = IF job.ap.source # "explicit" THEN "none"
                                ELSE IF job.ap.gate = prefs'.offer THEN "offer"
                                ELSE IF job.ap.gate \in prefs'.ids THEN "known" ELSE "full"]
          /\ UNCHANGED spent
       \/ /\ job.ap.source = "explicit" /\ spent.faults < MaxFaults
          /\ spent' = [spent EXCEPT !.faults = @ + 1]
          /\ wk' = [wk EXCEPT !.pc = "finish", !.pref = "failed"]
          /\ UNCHANGED prefs
    /\ UNCHANGED <<job, q, eff, adm, ag, hist>>

Finished == [job EXCEPT !.phase = "finished", !.role = "none", !.prompt = "none"]

\* _finish_completed_workflow, or the completion is put off until the preferences can be read
Finish ==
    /\ At("finish")
    /\ LET counted == job.ap.counted \/ wk.pref \in {"known", "offer"}
           done == [Finished EXCEPT !.ap.counted = counted, !.pending = FALSE]
       IN IF wk.pref = "failed"
          THEN /\ job' = [Finished EXCEPT !.status = "queued", !.reconcile = TRUE, !.pending = TRUE]
               /\ q' = QuestionResolved /\ wk' = Off /\ UNCHANGED hist
          ELSE IF counted /\ wk.pref = "offer"
          THEN AskFor(done, "auto_offer", FALSE, 0)
          ELSE /\ job' = [done EXCEPT !.status = "completed"]
               /\ q' = QuestionResolved /\ wk' = Off /\ UNCHANGED hist
    /\ UNCHANGED <<eff, adm, ag, prefs, spent>>

-----------------------------------------------------------------------------
(* The user and other jobs                                                 *)

\* An answer names the question the daemon found open when it routed the words (id), which may
\* since have been closed and another one asked, or none: voice-harness text, end and transcribe
\* pass no question for the answer to a workflow's question.
Unnamed == 0
\* expected_question_id or question.id: an answer that names none is taken for the open question
Meant(id) == IF id = Unnamed THEN q.id ELSE id
\* Mutant: an answer to any question of the job is taken
AddressedAny(id) == id \in {Unnamed} \cup 1..Len(hist.shown)
\* validate_question_identity
Addressed(id) == Meant(id) = q.id
\* resolve_answer: only a routine question takes an automated answer
Accepts(byUser) == q.routine \/ byUser

\* _workflow_queue_answer
Requeued(j, cont) ==
    /\ job' = [j EXCEPT !.status = "queued", !.cont = cont, !.prompt = "none"]
    /\ q' = [q EXCEPT !.state = "answered"]

\* staging the cancellation closes the question
Cancelled ==
    /\ job' = [job EXCEPT !.status = "cancelled",
                          !.ap.state = IF q.owner = "plan_approval" THEN "rejected" ELSE @]
    /\ q' = [q EXCEPT !.state = "cancelled"]

\* reply: the answer of the user (or of an automation); the question meant showed plan shown[...]
Says(id, reply, byUser) ==
    /\ job.status = "awaiting" /\ q.state = "pending" /\ Addressed(id) /\ Accepts(byUser)
    /\ hist' = [hist EXCEPT !.yes = IF reply = "yes" /\ byUser THEN @ \cup {hist.shown[Meant(id)]}
                                      ELSE @]

AnswerWorkflow(id, reply, byUser) ==
    /\ Says(id, reply, byUser) /\ q.owner = "workflow" /\ reply = "other"
    /\ Requeued(job, TRUE)
    /\ UNCHANGED <<wk, eff, adm, ag, prefs, spent>>

AnswerReview(id, reply, byUser) ==
    /\ Says(id, reply, byUser) /\ q.owner = "review" /\ reply = "other"
    /\ Requeued([job EXCEPT !.phase = "revising", !.tier = "high",
                            !.round = IF @ = 0 THEN 1 ELSE @, !.ap = NoApproval], TRUE)
    /\ UNCHANGED <<wk, eff, adm, ag, prefs, spent>>

AnswerExhausted(id, reply, byUser) ==
    /\ Says(id, reply, byUser) /\ q.owner = "exhausted"
    /\ \/ reply = "yes" /\ job.ap.state = "boundary"
          /\ Requeued(Approved([job EXCEPT !.src = "user"], "explicit"), FALSE)
       \/ reply = "no" /\ Cancelled
    /\ UNCHANGED <<wk, eff, adm, ag, prefs, spent>>

AnswerApproval(id, reply, byUser) ==
    /\ Says(id, reply, byUser) /\ q.owner = "plan_approval"
    /\ \/ reply = "yes" /\ job.ap.state = "awaiting" /\ job.src # "none"
          /\ Requeued(Approved(job, "explicit"), FALSE)
       \/ reply = "no" /\ Cancelled
    /\ UNCHANGED <<wk, eff, adm, ag, prefs, spent>>

\* resolve_plan_approval_offer, then the job; a crash between them leaves the question open, and
\* answering it again finds the offer completed
AnswerOffer(id, reply, byUser) ==
    /\ Says(id, reply, byUser) /\ q.owner = "auto_offer" /\ reply \in {"yes", "no"}
    /\ \/ prefs.offer = job.ap.gate
          /\ prefs' = [prefs EXCEPT !.mode = IF reply = "yes" THEN "auto" ELSE "ask",
                                    !.offer = NoGate, !.done = TRUE]
       \/ prefs.offer # job.ap.gate /\ prefs.done /\ UNCHANGED prefs
    /\ \/ /\ job' = [job EXCEPT !.status = "completed"]
          /\ q' = [q EXCEPT !.state = "resolved"] /\ UNCHANGED spent
       \/ /\ spent.faults < MaxFaults
          /\ spent' = [spent EXCEPT !.faults = @ + 1] /\ UNCHANGED <<job, q>>
    /\ UNCHANGED <<wk, eff, adm, ag>>

\* cancel_job: a question that is already resolved cannot be closed, and the job stays
Cancel ==
    /\ Open /\ q.state # "resolved"
    /\ IF q.state = "none" THEN job' = [job EXCEPT !.status = "cancelled"] /\ UNCHANGED q
       ELSE Cancelled
    /\ wk' = Off
    /\ UNCHANGED <<eff, adm, ag, prefs, hist, spent>>

\* another job counts an approval; its offer is answered; the user sets the mode
OtherRecords ==
    prefs' = Recorded(prefs, <<0, 1 + Cardinality({i \in prefs.ids : i[1] = 0})>>)
OtherResolves ==
    /\ prefs.offer[1] = 0 /\ prefs.offer # NoGate
    /\ \E m \in {"ask", "auto"} : prefs' = [prefs EXCEPT !.mode = m, !.offer = NoGate, !.done = TRUE]
SetMode == \E m \in {"ask", "auto"} : m # prefs.mode /\ prefs' = [prefs EXCEPT !.mode = m]

PrefsChange ==
    /\ Open /\ spent.faults < MaxFaults
    /\ OtherRecords \/ OtherResolves \/ SetMode
    /\ spent' = [spent EXCEPT !.faults = @ + 1]
    /\ UNCHANGED <<job, q, wk, eff, adm, ag, hist>>

-----------------------------------------------------------------------------
(* Crashes and recovery                                                    *)

\* a drain dies with its process
CrashWorker ==
    /\ wk.pc # "off" /\ spent.faults < MaxFaults
    /\ wk' = Off
    /\ eff' = IF eff.st = "sent" /\ eff.by = "worker" THEN [eff EXCEPT !.st = "unknown"] ELSE eff
    /\ spent' = [spent EXCEPT !.faults = @ + 1]
    /\ UNCHANGED <<job, q, adm, ag, prefs, hist>>

CrashDaemon ==
    /\ Open /\ eff.st = "sent" /\ eff.by = "scan" /\ spent.faults < MaxFaults
    /\ eff' = [eff EXCEPT !.st = "unknown"]
    /\ spent' = [spent EXCEPT !.faults = @ + 1]
    /\ UNCHANGED <<job, q, wk, adm, ag, prefs, hist>>

AbandonedWorking == wk.pc = "off" /\ job.status \in Working
Abandoned == wk.pc = "off" /\ job.status \in Working \cup {"blocked"}

\* consume_agent_results and _observe_prompt_effect in recover_jobs
ScanPrompt ==
    /\ Abandoned /\ job.prompt = "submitting" /\ eff.st \in {"confirmed", "unknown"}
    /\ job' = Reduced(job) /\ eff' = NoEffect
    /\ UNCHANGED <<q, wk, adm, ag, prefs, hist, spent>>

\* recover_jobs.recover: a dispatched clarification still planned is dispatched again
ScanJob ==
    /\ Abandoned /\ job.prompt \notin {"submitting", "ambiguous"}
    /\ job' = [job EXCEPT !.status = "queued",
                  !.reconcile = job.status = "blocked"
                                \/ (job.status = "running" /\ q.state # "dispatching")]
    /\ UNCHANGED <<q, wk, eff, adm, ag, prefs, hist, spent>>

\* the operator looks whether the agent has the prompt
ManualPrompt ==
    /\ job.prompt = "ambiguous" /\ job.status \in Working
    /\ job' = [job EXCEPT !.prompt = IF ag.token = job.token /\ ag.phase = job.phase
                                     THEN "submitted" ELSE "none"]
    /\ UNCHANGED <<q, wk, eff, adm, ag, prefs, hist, spent>>

-----------------------------------------------------------------------------
WorkerStep ==
    \/ Claim \/ BeginTurn \/ MarkRunning \/ NextTurn \/ HandOver \/ PhaseTurn \/ PlanPrompt \/ Admit
    \/ Drain \/ Missed \/ Consume \/ Wait \/ CountFile \/ CountJob \/ Watch \/ WatchFails \/ Observe
    \/ AgentAsks \/ Classify \/ PublishPlan \/ ApproveReview \/ ReviseAsks \/ AskReview
    \/ ReviseAgain \/ Promote \/ Block \/ NoSummary \/ PrefsRead \/ Finish

ScanStep == ScanPrompt \/ ScanJob

UserStep ==
    \/ \E id \in {Unnamed} \cup 1..Len(hist.shown), reply \in {"yes", "no", "other"}, byUser \in BOOLEAN :
          \/ AnswerWorkflow(id, reply, byUser) \/ AnswerReview(id, reply, byUser)
          \/ AnswerExhausted(id, reply, byUser) \/ AnswerApproval(id, reply, byUser)
          \/ AnswerOffer(id, reply, byUser)
    \/ Cancel \/ ManualPrompt \/ PrefsChange

Next ==
    \/ WorkerStep \/ ScanStep \/ UserStep \/ ScanDrain \/ Confirm \/ Lose
    \/ AgentOutputs \/ AgentSettles \/ CrashWorker \/ CrashDaemon

\* The daemon scans and launches again and again, a worker that lives goes on, and an agent that
\* was prompted answers and settles at some time; users, errors and crashes owe nothing.
Fairness ==
    /\ WF_vars(WorkerStep) /\ WF_vars(ScanStep) /\ WF_vars(ScanDrain)
    /\ WF_vars(Confirm) /\ WF_vars(AgentOutputs) /\ WF_vars(AgentSettles)

Spec == Init /\ [][Next]_vars /\ Fairness

-----------------------------------------------------------------------------
TypeOK ==
    /\ job.status \in {"queued", "awaiting", "blocked"} \cup Working \cup Terminal
    /\ job.phase \in Phases /\ job.turnPhase \in Phases \cup {"none"}
    /\ job.tier \in Tiers \cup {"none"} /\ job.round \in 0..MaxRound
    /\ job.prompt \in {"none", "planned", "submitting", "submitted", "ambiguous"}
    /\ job.turn \in Nat /\ job.token \in 0..job.turn
    /\ (job.tier = "medium") => (job.round <= 1)
    /\ job.ap.state \in ApprovalStates
    /\ (job.ap.state = "none") <=> (job.ap.gate = NoGate)
    /\ (job.src = "reviewer") => (job.review.decision = "approve")
    /\ (job.src = "user") => (job.tier = "high" /\ job.review.decision = "revise" /\ Exhausted)
    /\ (job.src # "none") => (job.plan.round = job.round /\ job.review.round = job.round)
    /\ q.state \in {"none", "pending", "answered", "dispatching", "resolved", "cancelled"}
    /\ (job.status = "awaiting") => (q.state = "pending" /\ wk.pc = "off")
    /\ eff.st \in {"none", "pending", "sent", "unknown", "confirmed"}
    /\ Cardinality(prefs.ids) <= OfferAfter
    /\ (prefs.offer # NoGate) => (prefs.offer \in prefs.ids /\ ~prefs.done)

\* docs/architecture.md "Workflow": an implementer whose job is not simple works on a plan that
\* was reviewed and that the user approved, or that the preference allows to approve: medium,
\* without a hard risk, automatic mode.  Approved means a yes of the user to the question that
\* showed this plan: one that names that question, or one that names none and comes while it is
\* open.  A yes that names an earlier question approves nothing, however late it comes; one that
\* names none (voice-harness text, end, transcribe) approves the plan that is open when it comes,
\* whichever plan its user had in mind.
ImplementedAsApproved ==
    ag.phase = "implementing" /\ job.status \notin Terminal /\ job.phase = "implementing"
    => \/ job.tier = "simple" /\ ag.plan = 0
       \/ /\ job.tier # "simple" /\ ag.plan = job.plan.n /\ job.review.of = ag.plan
          /\ \/ ag.plan \in hist.yes
             \/ /\ ag.plan \in hist.auto /\ job.tier = "medium"
                /\ ~job.plan.hard /\ ~job.review.hard /\ job.review.decision = "approve"

\* architecture.md: only explicit approvals count, and only once Herdr accepted the prompt to
\* implement: whatever this job has in the ledger is a plan the user said yes to (in the sense of
\* ImplementedAsApproved) and an implementer was given.
LedgerHonest == \A id \in prefs.ids : id[1] # 0 => id[1] \in hist.yes \cap hist.built

\* A job does not hang: in the end it is terminal, waits for an answer, or waits for the operator
\* to say whether the agent has its prompt.  The exception is a job whose answered clarification
\* stays marked as being dispatched (nothing ever marks it submitted): recovery may begin turn
\* after turn for it.
Waits == job.status \in Terminal \cup {"awaiting"} \/ job.prompt = "ambiguous"
Proceeds == <>[]Waits \/ []<>(~Waits /\ q.state = "dispatching")

\* agent-harness-contract.md "a settled same-session task may resume event observation without
\* resubmission": an implementer that gave its summary is not told to implement again.
ImplementedOnce ==
    [][ag.phase = "implementing" /\ ag.out.mark = "summary"
       => ~(ag'.n # ag.n /\ ag'.phase = "implementing")]_vars
=============================================================================
