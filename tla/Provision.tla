------------------------------ MODULE Provision ------------------------------
(***************************************************************************)
(* The infrastructure of one agent job: cursor/provisioning.py (the worker *)
(* up to the agent's first prompt and from one participant to the next),   *)
(* cursor/operations.py, the parts of cursor/recovery.py that reconcile an *)
(* operation of unknown outcome and release what a finished job holds, and *)
(* integrations/herdr/workspace.py.                                        *)
(*                                                                         *)
(* A worker acquires, in this order, a repository (a fork, a clone or a    *)
(* pull request's), a worktree, a pane and an agent session in it, later a *)
(* pane and a session for every further participant.  Each request is      *)
(* recorded before it is made; its answer may be an error, may be lost, or *)
(* may come after the request was given up.  Beside the worker run the     *)
(* recovery scans, the releases of what the job holds, and the user, who   *)
(* cancels, takes the session over and settles what recovery cannot.       *)
(*                                                                         *)
(* Every write of the worker carries the revision it last read: after      *)
(* anybody else's write it is refused (wk.fresh).  The error handler uses  *)
(* a snapshot of its own (wk.outer).  A worker whose claim was taken away  *)
(* can write nothing any more and is left out; what it asked for is still  *)
(* on its way in the world.                                                *)
(***************************************************************************)
EXTENDS Naturals, FiniteSets

CONSTANTS
    Sources,      \* a subset of {"fork", "clone", "pull", "issue", "plain", "follow"}
    Roles,        \* the number of participants the workflow goes through
    MaxPlans,     \* bound on the participant panes planned
    FailedMax,    \* FAILED_RECONCILE_MAX_ATTEMPTS
    UncertainMax, \* UNCERTAIN_RECONCILE_MAX_ATTEMPTS
    MaxErrors,    \* bound on requests that fail or whose answer is lost
    MaxCrashes,   \* bound on crashes of the worker and of the daemon
    MaxUser       \* bound on cancellations and changes of session control

ASSUME ProvisionConstants ==
    /\ Sources \subseteq {"fork", "clone", "pull", "issue", "plain", "follow"}
    /\ Roles \in Nat \ {0} /\ MaxPlans \in Nat \ {0}
    /\ FailedMax \in Nat \ {0} /\ UncertainMax \in Nat \ {0}
    /\ MaxErrors \in Nat /\ MaxCrashes \in Nat /\ MaxUser \in Nat

VARIABLES
    job,    \* the durable record
    wk,     \* the worker process
    rl,     \* the processes that release what the job holds
    scan,   \* the recovery scan of the daemon
    world,  \* GitHub, the local clones and Herdr
    asked,  \* how often each thing was asked for
    spent   \* how much of each bound is used up

vars == <<job, wk, rl, scan, world, asked, spent>>

Plans == 1..MaxPlans
Releasers == {"worker", "user", "scan"}
Terminal == {"completed", "failed", "cancelled"}
Working == {"routing", "running", "reconciling"}
Doubtful == {"dispatching", "submitted", "ambiguous", "failed_observing"}
OpStates == {"none", "planned", "exists", "cloned", "failed", "ready", "retained", "quarantined",
             "confirmed_absent", "manual_required"} \cup Doubtful
Kinds == {"fork", "clone", "worktree"}

TypeOK ==
    /\ job \in [source : Sources, status : {"queued", "asking", "blocked"} \cup Working \cup Terminal,
                reconcile : BOOLEAN, confirmed : BOOLEAN, owner : BOOLEAN, user : BOOLEAN,
                intent : {"none"} \cup Terminal, fork : OpStates, clone : OpStates,
                pull : {"none", "provisioning", "ready", "retained", "quarantined"},
                worktree : OpStates, located : BOOLEAN, inspect : BOOLEAN,
                pane : {"none", "planned", "submitting", "created", "failed", "manual_required"},
                planned : 0..MaxPlans, target : 0..MaxPlans, role : 0..Roles, phase : 1..Roles,
                agent : OpStates, op : 0..MaxPlans, session : BOOLEAN,
                prompt : {"none", "submitting", "submitted", "ambiguous", "used", "again"},
                slot : {"none", "agent", "fork", "worktree", "prompt", "pane"},
                tries : 0..UncertainMax, absent : 0..2 * UncertainMax,
                release : {"none", "pending", "owned"}, unverified : BOOLEAN]
    /\ wk.fresh \in BOOLEAN /\ wk.outer \in BOOLEAN /\ wk.path \in {"main", "follow", "role"}
    /\ rl \in [Releasers -> [pc : {"off", "stop", "close", "commit"}, current : BOOLEAN,
                             confirmed : BOOLEAN, unverified : BOOLEAN, stopped : BOOLEAN]]
    /\ scan \in [pc : {"idle", "recover"}, launch : BOOLEAN]
    /\ world.thing \in [Kinds -> {"no", "asked", "yes"}]
    /\ world.pane \in [Plans -> {"no", "asked", "open", "closed"}]
    /\ world.session \in [Plans -> {"no", "asked", "live", "gone"}]

Off == [pc |-> "off", fresh |-> FALSE, outer |-> FALSE, path |-> "main"]
Idle == [pc |-> "off", current |-> FALSE, confirmed |-> FALSE, unverified |-> FALSE,
         stopped |-> FALSE]

\* A follow-up starts in its parent's worktree, recorded as ready; an issue's may be there already
Init ==
    /\ \E s \in Sources :
         job = [source |-> s, status |-> "queued", reconcile |-> FALSE, confirmed |-> FALSE,
                owner |-> FALSE, user |-> FALSE, intent |-> "none", fork |-> "none",
                clone |-> "none", pull |-> "none",
                worktree |-> IF s = "follow" THEN "ready" ELSE "none",
                located |-> s = "follow", inspect |-> FALSE, pane |-> "none", planned |-> 0,
                target |-> 0, role |-> 0, phase |-> 1, agent |-> "none", op |-> 0, session |-> FALSE,
                prompt |-> "none", slot |-> "none", tries |-> 0, absent |-> 0,
                release |-> "none", unverified |-> FALSE]
    /\ wk = Off
    /\ rl = [r \in Releasers |-> Idle]
    /\ scan = [pc |-> "idle", launch |-> TRUE]
    /\ \E there \in BOOLEAN :
         /\ there => job.source \in {"follow", "issue"}
         /\ job.source = "follow" => there
         /\ world = [thing |-> [k \in Kinds |-> IF k = "worktree" /\ there THEN "yes" ELSE "no"],
                     pane |-> [g \in Plans |-> "no"], session |-> [g \in Plans |-> "no"]]
    /\ asked = [k \in Kinds |-> 0]
    /\ spent = [errors |-> 0, crashes |-> 0, user |-> 0]

Errs == spent.errors < MaxErrors /\ spent' = [spent EXCEPT !.errors = @ + 1]
Acts == spent.user < MaxUser /\ spent' = [spent EXCEPT !.user = @ + 1]
Alive == wk.pc # "off"

(***************************************************************************)
(* The record.                                                             *)
(***************************************************************************)

\* stage_terminal_intent: the outcome is fixed, and given only after the release
Staged(j, outcome) ==
    [j EXCEPT !.intent = outcome, !.status = "reconciling", !.release = "pending",
              !.pull = IF j.source = "pull" /\ j.worktree # "none" /\ @ # "quarantined"
                       THEN "retained" ELSE @]

\* An operation only recovery's slot can settle
Manual(j, slot) == [j EXCEPT !.slot = slot]

NoWorker(j) == [j EXCEPT !.owner = FALSE]
Requeued(j, reconcile) == [NoWorker(j) EXCEPT !.status = "queued", !.reconcile = reconcile]

\* has_uncertain_operation
Uncertain(j) == \/ {j.agent, j.fork, j.worktree} \cap Doubtful # {}
                \/ j.clone \in {"submitted", "ambiguous"}
                \/ j.prompt \in {"submitting", "ambiguous"}
                \/ j.pane \in {"submitting", "manual_required"}

\* Mutant: a session of unknown outcome does not keep the release waiting
UncertainForReleaseNoAgent(j) ==
    \/ j.fork \in Doubtful \/ j.worktree \in Doubtful
    \/ j.pane \in {"submitting", "manual_required"}
    \/ (j.intent # "cancelled" /\ j.prompt \in {"submitting", "ambiguous"})

\* _infrastructure_uncertain_for_release: a cancelled job does not wait for its prompt
UncertainForRelease(j) ==
    \/ j.agent \in Doubtful \cup {"manual_required"}
    \/ j.fork \in Doubtful \/ j.worktree \in Doubtful
    \/ j.pane \in {"submitting", "manual_required"}
    \/ (j.intent # "cancelled" /\ j.prompt \in {"submitting", "ambiguous"})

\* validate_transition: how a checkout, a pane and a session may follow one another
CheckoutPlannable(j) == j.worktree \in {"none", "planned"}
PanePlannable(j) == j.pane \in {"none", "planned", "failed"}
SessionReplaceable(j) == j.agent \in {"none", "confirmed_absent"} \/ j.session

\* A write of anybody but the worker: the worker's revision is stale, and a worker that
\* lost its claim writes nothing any more
Rewritten(j) ==
    /\ job' = j
    /\ wk' = IF wk.pc \in {"off", "cleanup"} \/ j = job THEN wk
             ELSE IF ~j.owner THEN Off ELSE [wk EXCEPT !.fresh = FALSE, !.outer = FALSE]

(***************************************************************************)
(* The worker: from its claim to a repository.                             *)
(***************************************************************************)

CanWrite == job.owner /\ wk.fresh /\ job.intent = "none"

\* _worker_change: a refused write ends the worker; outer tells whether the error handler's
\* snapshot is this write's
Writes(j, pc, outer) ==
    IF CanWrite THEN job' = j /\ wk' = [wk EXCEPT !.pc = pc, !.outer = outer]
                ELSE UNCHANGED job /\ wk' = Off

Goes(pc) == wk' = [wk EXCEPT !.pc = pc]
Rest == UNCHANGED <<rl, scan>>
Quiet == UNCHANGED <<rl, scan, world, asked, spent>>

\* launch_worker and begin_worker
Claim ==
    /\ scan.launch
    /\ scan' = [scan EXCEPT !.launch = FALSE]
    /\ IF job.status = "queued" /\ ~Alive /\ job.intent = "none"
       THEN /\ job' = [job EXCEPT !.owner = TRUE,
                                  !.status = IF job.reconcile THEN "reconciling" ELSE "routing"]
            /\ wk' = [pc |-> "start", fresh |-> TRUE, outer |-> TRUE, path |-> "main"]
       ELSE UNCHANGED <<job, wk>>
    /\ UNCHANGED <<rl, world, asked, spent>>

\* Mutant: a worker launched before the user took over goes on
StartAnyway ==
    /\ wk.pc = "start"
    /\ IF job.reconcile THEN UNCHANGED job /\ Goes("phase")
       ELSE IF job.target # 0 THEN Writes(job, "prepare", TRUE)
       ELSE IF job.source = "follow"
            THEN UNCHANGED job /\ wk' = [wk EXCEPT !.pc = "pane", !.path = "follow"]
       ELSE Writes(job, "acquire", TRUE)
    /\ Quiet

\* run_claimed_worker: nothing is done to a session the user controls
Start ==
    /\ wk.pc = "start"
    /\ IF job.user THEN UNCHANGED job /\ wk' = Off
       ELSE IF job.reconcile THEN UNCHANGED job /\ Goes("phase")
       ELSE IF job.target # 0 THEN Writes(job, "prepare", TRUE)
       ELSE IF job.source = "follow"
            THEN IF CanWrite THEN /\ UNCHANGED job
                                  /\ wk' = [wk EXCEPT !.pc = "pane", !.path = "follow"]
                 ELSE UNCHANGED job /\ wk' = Off
       ELSE Writes(job, "acquire", TRUE)
    /\ Quiet

\* A client, a lookup or a local step fails before anything was asked for
StepFails ==
    /\ wk.pc \in {"start", "acquire", "materialize", "worktree", "pane"}
    /\ Errs
    /\ Goes("fail")
    /\ UNCHANGED <<job, rl, scan, world, asked>>

\* _worker_question: asked, the job waits without a worker
Ask ==
    /\ wk.pc = "acquire" /\ ~job.confirmed
    /\ job.source = "fork" \/ (job.source = "clone" /\ job.clone \in {"none", "planned"})
    /\ Writes([NoWorker(job) EXCEPT !.status = "asking",
                                    !.clone = IF job.source = "clone" THEN "planned" ELSE @],
              "off", FALSE)
    /\ Quiet

\* reply_job: the user lets it be made and the worker is launched again, or the job is over
Confirmation(source) ==
    /\ job.status = "asking" /\ job.intent = "none" /\ job.source = source
    /\ \/ /\ Rewritten([job EXCEPT !.status = "queued", !.confirmed = TRUE])
          /\ scan' = [scan EXCEPT !.launch = TRUE]
       \/ Rewritten([job EXCEPT !.status = "completed"]) /\ UNCHANGED scan
    /\ UNCHANGED <<rl, world, asked, spent>>
AnswerFork == Confirmation("fork")
AnswerClone == Confirmation("clone")

\* The repository is found
FindRepository ==
    /\ wk.pc = "acquire"
    /\ job.source = "plain" \/ (job.source = "clone" /\ job.clone = "cloned")
    /\ UNCHANGED job /\ Goes("pane")
    /\ Quiet

\* The pull request's repository is materialized
FindPullRequest ==
    /\ wk.pc = "acquire" /\ job.source = "pull"
    /\ Writes([job EXCEPT !.pull = "provisioning"], "worktree", TRUE)
    /\ Quiet

\* Mutant: whatever is not known to exist is asked for
ForkAskableAgain(j) == j.fork # "exists"

\* An issue is worked on in a worktree of its own
FindIssueRepository ==
    /\ wk.pc = "acquire" /\ job.source = "issue"
    /\ Writes(job, "worktree", TRUE)
    /\ Quiet

\* A fork that was asked for and is not known to exist is never asked for again
ForkAskable(j) == j.fork \in {"none", "planned"}

PlanFork ==
    /\ wk.pc = "acquire" /\ job.source = "fork" /\ job.confirmed
    /\ \/ job.fork = "exists" /\ world.thing["fork"] = "yes" /\ UNCHANGED job /\ Goes("materialize")
       \/ ForkAskable(job) /\ Writes([job EXCEPT !.fork = "planned"], "fork", TRUE)
       \/ job.fork # "exists" /\ ~ForkAskable(job) /\ UNCHANGED job /\ Goes("fail")
    /\ Quiet

\* _mark_fork_dispatching, then the request; or it is refused before it is made
SubmitFork ==
    /\ wk.pc = "fork"
    /\ \/ /\ Writes([job EXCEPT !.fork = "submitted", !.tries = 0, !.absent = 0], "forking", FALSE)
          /\ IF CanWrite THEN /\ world' = [world EXCEPT !.thing["fork"] = "asked"]
                              /\ asked' = [asked EXCEPT !["fork"] = @ + 1]
                         ELSE UNCHANGED <<world, asked>>
          /\ UNCHANGED spent
       \/ /\ Errs /\ UNCHANGED <<world, asked>>
          /\ Writes([job EXCEPT !.fork = "failed"], "fail", FALSE)
    /\ Rest

\* _settle_fork_operation; after an error the fork is looked for before it is settled
ForkAnswered ==
    /\ wk.pc = "forking"
    /\ \/ /\ world.thing["fork"] = "yes" /\ UNCHANGED <<world, spent>>
          /\ Writes([job EXCEPT !.fork = "exists"], "materialize", TRUE)
       \/ /\ Errs /\ UNCHANGED world
          /\ world.thing["fork"] = "yes" /\ Writes([job EXCEPT !.fork = "exists"], "fail", FALSE)
       \/ /\ Errs /\ UNCHANGED world
          /\ world.thing["fork"] = "asked"
          /\ Writes([job EXCEPT !.fork = "ambiguous"], "fail", FALSE)
       \/ /\ Errs /\ world.thing["fork"] = "asked"
          /\ world' = [world EXCEPT !.thing["fork"] = "no"]
          /\ Writes([job EXCEPT !.fork = "failed_observing"], "fail", FALSE)
    /\ Rest /\ UNCHANGED asked

MaterializeFork ==
    /\ wk.pc = "materialize"
    /\ Writes(job, "worktree", TRUE)
    /\ Quiet

\* mark_clone_submitted, then the clone
SubmitClone ==
    /\ wk.pc = "acquire" /\ job.source = "clone" /\ job.clone = "planned" /\ job.confirmed
    /\ Writes([job EXCEPT !.clone = "submitted"], "cloning", TRUE)
    /\ IF CanWrite THEN /\ world' = [world EXCEPT !.thing["clone"] = "asked"]
                        /\ asked' = [asked EXCEPT !["clone"] = @ + 1]
                   ELSE UNCHANGED <<world, asked>>
    /\ Rest /\ UNCHANGED spent

\* It is there; git could not be started; or it went wrong and recovery is to look
CloneAnswered ==
    /\ wk.pc = "cloning"
    /\ \/ /\ world.thing["clone"] = "yes" /\ UNCHANGED <<world, asked, spent>>
          /\ Writes([job EXCEPT !.clone = "cloned", !.reconcile = FALSE], "pane", TRUE)
       \/ /\ Errs /\ world.thing["clone"] = "asked"
          /\ world' = [world EXCEPT !.thing["clone"] = "no"]
          /\ asked' = [asked EXCEPT !["clone"] = @ - 1]
          /\ Writes([Requeued(job, FALSE) EXCEPT !.clone = "planned"], "off", FALSE)
       \/ /\ Errs /\ UNCHANGED <<world, asked>>
          /\ Writes([Requeued(job, TRUE) EXCEPT !.clone = "ambiguous"], "off", FALSE)
    /\ Rest

(***************************************************************************)
(* The worker: worktree, pane and session.                                 *)
(***************************************************************************)

\* ensure_agent: a worktree that is there already is reserved as planned, opened and settled.
ReserveExisting ==
    /\ wk.pc = "worktree" /\ world.thing["worktree"] = "yes"
    /\ IF CheckoutPlannable(job) THEN Writes([job EXCEPT !.worktree = "planned"], "settle", TRUE)
                                 ELSE UNCHANGED job /\ Goes("fail")
    /\ Quiet

\* One that some workspace has open already does not tell its root pane: the settlement would be
\* quarantined, which a planned checkout may not become, and the transition raises
SettleExisting ==
    /\ wk.pc = "settle"
    /\ \E open \in BOOLEAN :
         IF open THEN Writes(job, "fail", TRUE)
                 ELSE Writes([job EXCEPT !.worktree = "ready", !.located = TRUE], "pane", TRUE)
    /\ Quiet

\* planned, dispatching, and the request
CreateWorktree ==
    /\ wk.pc = "worktree" /\ world.thing["worktree"] # "yes"
    /\ IF CheckoutPlannable(job)
       THEN /\ Writes([job EXCEPT !.worktree = "dispatching", !.tries = 0, !.absent = 0], "creating", TRUE)
            /\ IF CanWrite THEN /\ world' = [world EXCEPT !.thing["worktree"] = "asked"]
                                /\ asked' = [asked EXCEPT !["worktree"] = @ + 1]
                           ELSE UNCHANGED <<world, asked>>
       ELSE UNCHANGED <<job, world, asked>> /\ Goes("fail")
    /\ Rest /\ UNCHANGED spent

\* _settle_worker_worktree, _fail_worker_worktree
WorktreeAnswered ==
    /\ wk.pc = "creating"
    /\ \/ /\ world.thing["worktree"] = "yes" /\ UNCHANGED <<world, spent>>
          /\ Writes([job EXCEPT !.worktree = "ready", !.located = TRUE], "pane", TRUE)
       \/ /\ Errs /\ world.thing["worktree"] = "yes" /\ UNCHANGED world
          /\ Writes([job EXCEPT !.worktree = "quarantined", !.inspect = TRUE], "pane", TRUE)
       \/ /\ Errs /\ UNCHANGED world
          /\ Writes([job EXCEPT !.worktree = "ambiguous", !.tries = 0], "fail", TRUE)
       \/ /\ Errs
          /\ world' = [world EXCEPT !.thing["worktree"] = IF @ = "asked" THEN "no" ELSE @]
          /\ Writes([job EXCEPT !.worktree = "failed_observing", !.tries = 0], "fail", TRUE)
    /\ Rest /\ UNCHANGED asked

NextPlan == 1 + Cardinality({g \in Plans : world.pane[g] # "no"})

\* _plan_participant_creation: a name that was only planned is used again
PlansPane(path) ==
    /\ wk.pc = "pane" /\ wk.path = path
    /\ IF ~PanePlannable(job) THEN UNCHANGED job /\ Goes("fail")
       ELSE /\ NextPlan \in Plans
            /\ Writes([job EXCEPT !.pane = "planned", !.planned = NextPlan], "submit",
                      path = "main")
    /\ Quiet

\* ensure_agent, _provision_followup_agent and _ensure_workflow_participant
PlanPane == PlansPane("main")
PlanFollowUpPane == PlansPane("follow")
PlanParticipantPane == PlansPane("role")

\* before_submit, then new_pane
SubmitPane ==
    /\ wk.pc = "submit"
    /\ Writes([job EXCEPT !.pane = "submitting"], "paning", FALSE)
    /\ world' = IF CanWrite THEN [world EXCEPT !.pane[job.planned] = "asked"] ELSE world
    /\ Rest /\ UNCHANGED <<asked, spent>>

\* accepted; after an error a participant and a follow-up fence the pane, and only the
\* participant's error knows the revision the failure is to be written at
PaneAnswered ==
    /\ wk.pc = "paning"
    /\ \/ /\ world.pane[job.planned] = "open" /\ UNCHANGED spent
          /\ Writes([job EXCEPT !.pane = "created"], "reserve", FALSE)
       \/ /\ Errs
          /\ IF wk.path = "main" THEN UNCHANGED job /\ Goes("fail")
             ELSE Writes(Manual([job EXCEPT !.pane = "manual_required"], "pane"), "fail",
                         wk.path = "role")
    /\ Rest /\ UNCHANGED <<world, asked>>

\* _reserve_worker_target
ReserveTarget ==
    /\ wk.pc = "reserve"
    /\ IF SessionReplaceable(job)
       THEN Writes([job EXCEPT !.target = job.planned, !.op = job.planned, !.agent = "dispatching",
                               !.session = FALSE, !.tries = 0, !.absent = 0,
                               !.role = IF wk.path = "role" THEN job.phase ELSE 1],
                   "create", wk.path = "main")
       ELSE UNCHANGED job /\ Goes("fail")
    /\ Quiet

\* start_agent
SessionAsked(w, g) == [w EXCEPT !.session[g] = "asked"]

\* _execute_session_create_effect reads the job again: neither a stale revision nor an
\* outcome staged meanwhile keeps it from asking for the session
CreateSession ==
    /\ wk.pc = "create"
    /\ IF job.agent = "dispatching" /\ job.owner /\ ~job.user
       THEN /\ wk' = [wk EXCEPT !.pc = "starting", !.outer = FALSE]
            /\ world' = SessionAsked(world, job.target)
       ELSE wk' = Off /\ UNCHANGED world
    /\ Rest /\ UNCHANGED <<job, asked, spent>>

\* _reduce_agent_effect: an outcome the job no longer waits for changes nothing
Reduced(j, state, known) ==
    IF j.intent = "none" /\ j.agent = "dispatching"
    THEN [j EXCEPT !.agent = state, !.session = known] ELSE j

SessionAnswered ==
    /\ wk.pc = "starting"
    /\ \/ /\ world.session[job.target] = "live" /\ UNCHANGED <<world, spent>>
          /\ job' = Reduced(job, "ready", TRUE)
       \/ /\ Errs /\ UNCHANGED world
          /\ job' = Reduced(job, "ambiguous", FALSE)
       \/ /\ Errs
          /\ world' = [world EXCEPT !.session[job.target] = IF @ = "asked" THEN "no" ELSE @]
          /\ job' = Reduced(job, "failed_observing", FALSE)
    /\ wk' = IF job'.agent = "ready"
             THEN [wk EXCEPT !.pc = IF wk.path = "role" THEN "phase" ELSE "prepare",
                             !.fresh = TRUE, !.outer = wk.path # "role"]
             ELSE Off
    /\ Rest /\ UNCHANGED asked

\* _prepare_pull_request_checkout; mark_running
Prepare ==
    /\ wk.pc = "prepare"
    /\ \/ /\ UNCHANGED spent
          /\ Writes([job EXCEPT !.status = "running",
                                !.pull = IF job.source = "pull" /\ @ # "retained"
                                         THEN "ready" ELSE @], "phase", TRUE)
       \/ /\ job.source = "pull" /\ job.pull \notin {"ready", "retained"}
          /\ Errs
          /\ Writes([job EXCEPT !.pull = "quarantined"], "fail", FALSE)
    /\ Rest /\ UNCHANGED <<world, asked>>

(***************************************************************************)
(* The worker: phases, participants and the end.                           *)
(***************************************************************************)

\* close_owned_pane
Closed(w, panes) ==
    [w EXCEPT !.session = [g \in Plans |-> IF g \in panes THEN "gone" ELSE @[g]],
              !.pane = [g \in Plans |-> IF g \in panes THEN "closed" ELSE @[g]]]

\* Mutant: the previous participant's session is left alone
CloseParticipantLeft ==
    /\ wk.pc = "phase" /\ job.role # job.phase
    /\ Goes("clear")
    /\ UNCHANGED <<job, world, spent, rl, scan, asked>>

\* _ensure_workflow_participant: the session of the previous participant is closed, if it is
\* still the one recorded, and nothing else is
CloseParticipant ==
    /\ wk.pc = "phase" /\ job.role # job.phase
    /\ IF job.target # 0 /\ ~job.session
       THEN UNCHANGED <<job, world, spent>> /\ Goes("fail")
       ELSE LET g == job.target
                live == g # 0 /\ world.session[g] = "live"
            IN \/ /\ world' = Closed(world, IF live THEN {g} ELSE {})
                  /\ UNCHANGED <<job, spent>> /\ Goes("clear")
               \/ /\ live /\ Errs /\ UNCHANGED <<job, world>> /\ Goes("fail")
    /\ Rest /\ UNCHANGED asked

ClearParticipants ==
    /\ wk.pc = "clear"
    /\ IF CanWrite
       THEN /\ job' = [job EXCEPT !.pane = "none", !.planned = 0, !.role = 0,
                                  !.agent = "confirmed_absent"]
            /\ wk' = [wk EXCEPT !.pc = "pane", !.path = "role", !.outer = FALSE]
       ELSE UNCHANGED job /\ wk' = Off
    /\ Quiet

\* A prompt is recorded before it is sent; one that was sent is only waited for.  A job that
\* was blocked plans the prompt of the same turn again, and its admission is refused.
SubmitPrompt ==
    /\ wk.pc = "phase" /\ job.role = job.phase /\ job.target # 0
    /\ \/ job.prompt = "submitted" /\ UNCHANGED job /\ Goes("working")
       \/ job.prompt = "none" /\ Writes([job EXCEPT !.prompt = "submitting"], "prompting", FALSE)
       \/ job.prompt = "used" /\ Writes([job EXCEPT !.prompt = "again"], "fail", FALSE)
       \/ job.prompt = "again" /\ UNCHANGED job /\ Goes("fail")
    /\ Quiet

PromptAnswered ==
    /\ wk.pc = "prompting"
    /\ LET waits == job.intent = "none" /\ job.owner /\ job.prompt = "submitting"
       IN \/ /\ world.session[job.target] = "live" /\ UNCHANGED spent
             /\ IF waits THEN /\ job' = [job EXCEPT !.prompt = "submitted"]
                              /\ wk' = [wk EXCEPT !.pc = "working", !.fresh = TRUE]
                         ELSE UNCHANGED job /\ wk' = Off
          \/ /\ Errs \/ (world.session[job.target] # "live" /\ UNCHANGED spent)
             /\ IF waits THEN /\ job' = Manual([job EXCEPT !.prompt = "ambiguous"], "prompt")
                              /\ wk' = [wk EXCEPT !.pc = "fail", !.fresh = TRUE, !.outer = TRUE]
                         ELSE UNCHANGED job /\ wk' = Off
    /\ Rest /\ UNCHANGED <<world, asked>>

\* The answer takes the job to its next phase, or blocks it; the last one completes it
AgentAnswers ==
    /\ wk.pc = "working" /\ world.session[job.target] = "live"
    /\ \/ /\ job.phase < Roles
          /\ Writes([job EXCEPT !.prompt = "none", !.phase = @ + 1], "phase", FALSE)
       \/ /\ job.phase = Roles
          /\ Writes([job EXCEPT !.prompt = "none"], "complete", FALSE)
       \/ Writes([NoWorker(job) EXCEPT !.status = "blocked", !.prompt = "used"], "off", FALSE)
    /\ Quiet

AgentLost ==
    /\ wk.pc = "working" /\ world.session[job.target] # "live"
    /\ UNCHANGED job /\ Goes("fail")
    /\ Quiet

NewToken(r, rest) ==
    rl' = [q \in Releasers |-> IF q = r THEN [Idle EXCEPT !.pc = rest, !.current = TRUE,
                                                          !.stopped = rest # "stop"]
                               ELSE [rl[q] EXCEPT !.current = FALSE]]

\* _worker_fail and _worker_complete; the worker then releases what the job holds itself
Conclude(pc, outcome, may) ==
    /\ wk.pc = pc
    /\ IF CanWrite /\ may
       THEN /\ job' = Staged(job, outcome)
            /\ wk' = [wk EXCEPT !.pc = "cleanup"]
            /\ NewToken("worker", "close")
       ELSE UNCHANGED <<job, rl>> /\ wk' = Off
    /\ UNCHANGED <<scan, world, asked, spent>>

WorkerFails == Conclude("fail", "failed", wk.outer)
WorkerCompletes == Conclude("complete", "completed", TRUE)

(***************************************************************************)
(* Recovery.                                                               *)
(***************************************************************************)

\* The operations of one kind, and the record with one of them changed
OpOf(j, k) == CASE k = "agent" -> j.agent [] k = "fork" -> j.fork [] k = "worktree" -> j.worktree
WithOp(j, k, s) == CASE k = "agent" -> [j EXCEPT !.agent = s]
                     [] k = "fork" -> [j EXCEPT !.fork = s]
                     [] k = "worktree" -> [j EXCEPT !.worktree = s]

NoTarget(j) == [j EXCEPT !.target = 0, !.role = 0]

\* Mutant: observation goes on for ever
ObservedOnly(j, k, gone) ==
    [j EXCEPT !.tries = @ + 1, !.absent = @ + IF gone THEN 1 ELSE 0]

\* record_operation_observation: seen absent often enough, what failed is absent; observed
\* often enough without a result, it is the operator's.  A committed fork is never absent.
Observed(j, k, gone) ==
    LET n == j.tries + 1
        m == j.absent + IF gone THEN 1 ELSE 0
        seen == [j EXCEPT !.tries = n, !.absent = m]
    IN IF OpOf(j, k) = "failed_observing" /\ m >= FailedMax /\ k # "fork"
       THEN IF k = "agent" THEN NoTarget(WithOp(seen, k, "confirmed_absent"))
                           ELSE WithOp(seen, k, "confirmed_absent")
       ELSE IF n >= UncertainMax
       THEN Manual(WithOp([seen EXCEPT !.tries = 0], k, "manual_required"), k)
       ELSE seen

\* recover_outbox, consume_agent_results: what a dead worker had sent off
ConsumeOutbox(j) ==
    IF Alive THEN {j}
    ELSE IF j.agent = "dispatching" /\ j.owner /\ world.session[j.target] = "live"
    THEN {Reduced(j, "ready", TRUE), Reduced(j, "ambiguous", FALSE)}
    ELSE IF j.agent = "dispatching" /\ j.owner /\ world.session[j.target] = "asked"
    THEN {Reduced(j, "ambiguous", FALSE)}
    ELSE {j}

\* reconcile_prompt_and_pane_operations: whether a pane was created cannot be observed
FencePromptAndPane(j) ==
    IF j.user THEN j
    ELSE LET p == IF j.prompt = "submitting" /\ ~Alive
                  THEN Manual([j EXCEPT !.prompt = "ambiguous"], "prompt") ELSE j
         IN IF p.pane = "submitting" THEN Manual([p EXCEPT !.pane = "manual_required"], "pane") ELSE p

\* An agent is seen that cannot be told to be the job's own
Visible(j) == [j EXCEPT !.agent = "ambiguous"]

\* reconcile_uncertain_agent: a session never identified is the operator's, unless the job's
\* outcome is fixed; then it is looked for
ReconcileAgent(j) ==
    IF j.user \/ j.agent \notin Doubtful \/ j.session THEN j
    ELSE IF j.intent = "none"
    THEN IF j.slot = "none" THEN Manual([j EXCEPT !.agent = "manual_required"], "agent") ELSE j
    ELSE IF j.target # 0 /\ world.session[j.target] = "live" THEN Visible(j)
    ELSE Observed(j, "agent", j.target # 0)

ReconcileClone(j) ==
    IF j.clone \in {"submitted", "ambiguous"} /\ world.thing["clone"] = "yes"
    THEN [j EXCEPT !.clone = "cloned", !.reconcile = FALSE] ELSE j

ReconcileFork(j) ==
    IF j.fork \notin Doubtful THEN j
    ELSE IF world.thing["fork"] = "yes" THEN [j EXCEPT !.fork = "exists"]
    ELSE Observed(j, "fork", TRUE)

\* A worktree that is there without its workspace and root pane is quarantined
ReconcileWorktree(j) ==
    IF j.worktree \notin Doubtful THEN {j}
    ELSE IF world.thing["worktree"] = "yes"
    THEN {[j EXCEPT !.worktree = "retained", !.located = TRUE],
          [j EXCEPT !.worktree = "quarantined", !.inspect = TRUE]}
    ELSE {Observed(j, "worktree", TRUE)}

ReconcileOperations(j) ==
    IF Uncertain(j) THEN ReconcileWorktree(ReconcileFork(ReconcileClone(ReconcileAgent(j)))) ELSE {j}

StopsWorker(j) == j.intent = "cancelled" /\ j.release # "none" /\ j.owner /\ Alive

\* recover_jobs, up to the decision what becomes of the job
ScanOperations ==
    /\ scan.pc = "idle"
    /\ scan' = [scan EXCEPT !.pc = "recover"]
    /\ \E c \in ConsumeOutbox(job) : \E j \in ReconcileOperations(FencePromptAndPane(c)) :
         IF StopsWorker(j) THEN job' = j /\ wk' = Off ELSE Rewritten(j)
    /\ rl' = IF wk'.pc = "off" THEN [rl EXCEPT !["worker"] = Idle] ELSE rl
    /\ UNCHANGED <<world, asked, spent>>

Stays(j) == \/ j.user \/ Uncertain(j) \/ j.slot # "none"
            \/ j.worktree \in {"quarantined", "manual_required"} \/ j.pull = "quarantined"

\* Mutant: a release whose owner died is not taken over
TakesReleasePending(j) == j.release = "pending" /\ ~Alive /\ ~UncertainForRelease(j)

TakesRelease(j) == /\ j.release # "none" /\ ~Alive /\ ~UncertainForRelease(j)
                   /\ j.release = "owned" => rl["scan"].pc = "off"

\* recover: whether the job is released, left, queued again or failed
Recover ==
    /\ scan.pc = "recover"
    /\ LET Leave == UNCHANGED <<job, rl>> /\ scan' = [scan EXCEPT !.pc = "idle"]
           Launch(j) == job' = j /\ UNCHANGED rl /\ scan' = [pc |-> "idle", launch |-> TRUE]
           Release(j) == /\ job' = j /\ NewToken("scan", "close")
                         /\ scan' = [scan EXCEPT !.pc = "idle"]
       IN \/ /\ job.intent # "none" /\ UNCHANGED spent
             /\ IF TakesRelease(job) THEN Release([NoWorker(job) EXCEPT !.release = "owned"])
                ELSE IF ~Alive /\ job.owner
                THEN job' = NoWorker(job) /\ UNCHANGED rl /\ scan' = [scan EXCEPT !.pc = "idle"]
                ELSE Leave
          \/ /\ job.intent = "none" /\ UNCHANGED spent
             /\ IF Stays(job) \/ Alive THEN Leave
                ELSE CASE job.status = "blocked" -> IF job.target # 0 THEN Launch(Requeued(job, TRUE))
                                                                     ELSE Leave
                       [] job.status = "queued" -> Launch(NoWorker(job))
                       [] job.status = "routing" -> Launch(Requeued(job, FALSE))
                       [] job.status \in {"running", "reconciling"} ->
                            IF job.target # 0 THEN Launch(Requeued(job, TRUE))
                            ELSE IF job.prompt = "none" THEN Launch(Requeued(job, FALSE))
                            ELSE /\ job' = [NoWorker(job) EXCEPT !.status = "failed"]
                                 /\ UNCHANGED rl /\ scan' = [scan EXCEPT !.pc = "idle"]
                       [] OTHER -> Leave
          \/ /\ job.intent = "none" /\ ~Alive /\ ~Stays(job)
             /\ job.status \in {"queued", "blocked"} \cup Working
             /\ Errs /\ Release(NoWorker(Staged(job, "failed")))
    /\ UNCHANGED <<wk, world, asked>>

(***************************************************************************)
(* The release of what a job with a fixed outcome holds.                   *)
(***************************************************************************)

\* The panes it looks at: a pane nobody knows of yet is left to the operator
Targets(j) ==
    ({j.target, j.planned} \ {0})
      \ (IF j.pane \in {"failed", "submitting", "manual_required"} /\ j.planned # j.target
         THEN {j.planned} ELSE {})

\* Whether the record proves that the agent in pane g, if there is one, is the job's own and
\* not in the checkout's root pane
Verifiable(j, g) ==
    LET made == j.planned = g /\ j.pane = "created"
    IN IF j.session
       THEN IF g = j.op THEN j.located \/ (j.worktree = "none" /\ made) ELSE j.located /\ made
       ELSE j.located /\ (made \/ (g = j.target /\ ~(j.pane = "created" /\ j.planned # g)))

\* cancel_target_and_release, up to its write; a failure leaves one pane unconfirmed
CloseTargets(r) ==
    /\ rl[r].pc = "close"
    /\ IF ~rl[r].current \/ (job.intent = "none")
       THEN rl' = [rl EXCEPT ![r] = Idle] /\ UNCHANGED <<world, spent>>
       ELSE LET ours == {g \in Targets(job) : Verifiable(job, g)}
                live == {g \in ours : world.session[g] = "live"}
                hidden == job.pane \in {"submitting", "manual_required"}
                Ends(kept) ==
                    /\ world' = Closed(world, live \ kept)
                    /\ rl' = [rl EXCEPT ![r].pc = "commit",
                              ![r].confirmed = kept = {} /\ ours = Targets(job),
                              ![r].unverified = kept # {} \/ ours # Targets(job) \/ hidden]
            IN \/ Ends({}) /\ UNCHANGED spent
               \/ \E g \in live : Ends({g}) /\ Errs
    /\ UNCHANGED <<job, wk, scan, asked>>

\* settle_cleanup: the outcome is given
Released(j) ==
    [NoTarget(NoWorker(j)) EXCEPT !.status = j.intent, !.intent = "none", !.release = "none",
        !.agent = IF j.op # 0 \/ @ # "none" THEN "confirmed_absent" ELSE @,
        !.prompt = "none", !.unverified = FALSE]

\* Its write, on the record as it is then
CommitRelease(r) ==
    /\ rl[r].pc = "commit"
    /\ IF ~rl[r].current \/ job.intent = "none" THEN UNCHANGED <<job, wk>> /\ rl' = [rl EXCEPT ![r] = Idle]
       ELSE IF rl[r].confirmed /\ rl[r].stopped /\ ~UncertainForRelease(job)
       THEN /\ Rewritten(Released(job))
            /\ rl' = [q \in Releasers |-> IF q = r THEN Idle ELSE [rl[q] EXCEPT !.current = FALSE]]
       ELSE /\ Rewritten(IF job.release = "owned"
                         THEN [job EXCEPT !.release = "pending", !.unverified = rl[r].unverified]
                         ELSE IF rl[r].unverified THEN [job EXCEPT !.unverified = TRUE] ELSE job)
            /\ rl' = [rl EXCEPT ![r] = Idle]
    /\ UNCHANGED <<scan, world, asked, spent>>

\* The worker process ends after its own release
WorkerExits ==
    /\ wk.pc = "cleanup" /\ rl["worker"].pc = "off"
    /\ wk' = Off
    /\ UNCHANGED <<job, rl, scan, world, asked, spent>>

(***************************************************************************)
(* The user.                                                               *)
(***************************************************************************)

\* cancel_job: refused while a fork that was asked for is not settled
Cancel ==
    /\ Acts
    /\ job.status \notin Terminal /\ job.intent = "none"
    /\ job.fork \notin {"submitted", "ambiguous", "failed_observing"}
    /\ Rewritten(Staged(job, "cancelled"))
    /\ NewToken("user", "stop")
    /\ UNCHANGED <<scan, world, asked>>

\* stop_worker; it may not stop
StopWorker ==
    /\ rl["user"].pc = "stop"
    /\ \/ /\ wk' = Off /\ UNCHANGED spent
          /\ rl' = [rl EXCEPT !["user"].pc = "close", !["user"].stopped = TRUE, !["worker"] = Idle]
       \/ /\ Alive /\ Errs /\ UNCHANGED wk
          /\ rl' = [rl EXCEPT !["user"].pc = "close"]
    /\ UNCHANGED <<job, scan, world, asked>>

\* relinquish_session_control: the worker is stopped, the session is the user's
Relinquish ==
    /\ Acts
    /\ job.status \notin Terminal /\ ~job.user
    /\ job.intent # "none" => ~job.owner
    /\ LET p == [NoWorker(job) EXCEPT !.user = TRUE,
                    !.status = IF job.owner THEN "queued" ELSE @,
                    !.prompt = IF @ \in {"submitting", "submitted"} THEN "ambiguous" ELSE @]
           q == IF p.prompt = "ambiguous" /\ p.slot = "none" THEN Manual(p, "prompt") ELSE p
       IN job' = IF q.agent \in {"dispatching", "ambiguous", "failed_observing"} /\ q.slot = "none"
                 THEN Manual([q EXCEPT !.agent = "manual_required"], "agent") ELSE q
    /\ wk' = IF job.owner \/ wk.pc # "cleanup" THEN Off ELSE wk
    /\ rl' = IF job.owner THEN [rl EXCEPT !["worker"] = Idle] ELSE rl
    /\ UNCHANGED <<scan, world, asked>>

\* resume_session_control: nothing of the harness may be mistaken for what the user did
Resume ==
    /\ job.user /\ job.status \notin Terminal
    /\ job.slot = "none" /\ job.prompt \notin {"submitting", "ambiguous"}
    /\ job.agent \notin {"dispatching", "ambiguous", "failed_observing", "manual_required"}
    /\ job.target # 0 => job.session /\ world.session[job.target] = "live"
    /\ Rewritten([job EXCEPT !.user = FALSE])
    /\ UNCHANGED <<rl, scan, world, asked, spent>>

\* What the operator, having looked, says of the operation in the slot: nothing while it
\* may still happen
Settled(j) ==
    CASE j.slot = "agent" ->
           IF world.session[j.op] \in {"no", "gone"}
           THEN {[NoTarget(j) EXCEPT !.agent = "confirmed_absent"]}
           ELSE IF world.session[j.op] = "live" /\ j.target # 0 /\ j.session
           THEN {[j EXCEPT !.agent = "retained"]} ELSE {}
      [] j.slot = "fork" ->
           IF world.thing["fork"] = "yes" THEN {[j EXCEPT !.fork = "retained"]}
           ELSE IF world.thing["fork"] = "no" THEN {[j EXCEPT !.fork = "confirmed_absent"]} ELSE {}
      [] j.slot = "worktree" ->
           IF world.thing["worktree"] = "yes"
           THEN {[j EXCEPT !.worktree = "retained", !.located = TRUE]}
           ELSE IF world.thing["worktree"] = "no"
           THEN {[j EXCEPT !.worktree = "confirmed_absent"]} ELSE {}
      [] j.slot = "pane" ->
           IF world.pane[j.planned] = "open" THEN {[j EXCEPT !.pane = "created"]}
           ELSE IF world.pane[j.planned] \in {"no", "closed"}
           THEN {[j EXCEPT !.pane = "none", !.planned = 0]} ELSE {}
      [] j.slot = "prompt" -> {[j EXCEPT !.prompt = "submitted"], [j EXCEPT !.prompt = "used"]}
      [] OTHER -> {}

\* resolve_manual_operation
Resolve ==
    /\ job.slot # "none"
    /\ job.slot = "prompt" => job.prompt = "ambiguous"
    /\ job.slot = "pane" => job.pane = "manual_required"
    /\ job.slot \in {"agent", "fork", "worktree"} => OpOf(job, job.slot) = "manual_required"
    /\ \E s \in Settled(job) :
         LET j == [NoWorker(s) EXCEPT !.slot = "none",
                     !.release = IF @ = "owned" THEN "pending" ELSE @]
         IN Rewritten(IF /\ job.slot = "prompt" /\ j.user
                         /\ j.agent \in {"dispatching", "ambiguous", "failed_observing"}
                      THEN Manual([j EXCEPT !.agent = "manual_required"], "agent") ELSE j)
    /\ UNCHANGED <<rl, scan, world, asked, spent>>

\* acknowledge_worktree_quarantine
AcknowledgeQuarantine ==
    /\ job.worktree = "quarantined" /\ job.inspect
    /\ Rewritten([job EXCEPT !.worktree = IF job.located THEN "retained" ELSE "ambiguous",
                             !.inspect = FALSE])
    /\ UNCHANGED <<rl, scan, world, asked, spent>>

(***************************************************************************)
(* The world, and crashes.                                                 *)
(***************************************************************************)

WaitsFor(k) == wk.pc = (CASE k = "fork" -> "forking" [] k = "clone" -> "cloning"
                          [] k = "worktree" -> "creating")

\* A request arrives, also after it was given up; one nobody waits for may be lost
ThingLands ==
    \E k \in Kinds, v \in {"yes", "no"} :
      /\ world.thing[k] = "asked"
      /\ v = "no" => ~WaitsFor(k)
      /\ world' = [world EXCEPT !.thing[k] = v]
      /\ UNCHANGED <<job, wk, rl, scan, asked, spent>>

PaneLands ==
    \E g \in Plans, v \in {"open", "no"} :
      /\ world.pane[g] = "asked"
      /\ v = "no" => wk.pc # "paning"
      /\ world' = [world EXCEPT !.pane[g] = v]
      /\ UNCHANGED <<job, wk, rl, scan, asked, spent>>

SessionLands ==
    \E g \in Plans, v \in {"live", "gone"} :
      /\ world.session[g] = "asked"
      /\ v = "gone" => wk.pc # "starting"
      /\ v = "live" => world.pane[g] = "open"
      /\ world' = [world EXCEPT !.session[g] = v]
      /\ UNCHANGED <<job, wk, rl, scan, asked, spent>>

\* A session ends by itself, or the operator who is to settle it ends it
SessionEnds ==
    \E g \in Plans :
      /\ world.session[g] = "live"
      /\ world' = [world EXCEPT !.session[g] = "gone"]
      /\ \/ job.slot = "agent" /\ job.op = g /\ UNCHANGED spent
         \/ Errs
      /\ UNCHANGED <<job, wk, rl, scan, asked>>

Crashes == spent.crashes < MaxCrashes /\ spent' = [spent EXCEPT !.crashes = @ + 1]

WorkerCrashes ==
    /\ Alive /\ Crashes
    /\ wk' = Off /\ rl' = [rl EXCEPT !["worker"] = Idle]
    /\ UNCHANGED <<job, scan, world, asked>>

DaemonCrashes ==
    /\ Crashes
    /\ scan' = [pc |-> "idle", launch |-> FALSE]
    /\ rl' = [rl EXCEPT !["scan"] = Idle]
    /\ UNCHANGED <<job, wk, world, asked>>

WorkerStep ==
    \/ Start \/ StepFails \/ Ask \/ FindRepository \/ FindPullRequest
    \/ FindIssueRepository \/ PlanFork \/ SubmitFork \/ ForkAnswered
    \/ MaterializeFork \/ SubmitClone \/ CloneAnswered \/ ReserveExisting \/ SettleExisting
    \/ CreateWorktree \/ WorktreeAnswered \/ PlanPane \/ PlanFollowUpPane
    \/ PlanParticipantPane \/ SubmitPane \/ PaneAnswered
    \/ ReserveTarget \/ CreateSession \/ SessionAnswered \/ Prepare \/ CloseParticipant
    \/ ClearParticipants \/ SubmitPrompt \/ PromptAnswered \/ AgentAnswers \/ AgentLost
    \/ WorkerFails \/ WorkerCompletes \/ WorkerExits

Lands == ThingLands \/ PaneLands \/ SessionLands

User == AnswerFork \/ AnswerClone \/ Cancel \/ Relinquish \/ Resume \/ Resolve \/ AcknowledgeQuarantine

Next ==
    \/ Claim \/ WorkerStep \/ ScanOperations \/ Recover \/ StopWorker
    \/ \E r \in Releasers : CloseTargets(r) \/ CommitRelease(r)
    \/ User \/ Lands \/ SessionEnds \/ WorkerCrashes \/ DaemonCrashes

Fairness ==
    /\ WF_vars(Claim) /\ WF_vars(WorkerStep) /\ WF_vars(ScanOperations) /\ WF_vars(Recover)
    /\ WF_vars(StopWorker) /\ WF_vars(Lands)
    /\ \A r \in Releasers : WF_vars(CloseTargets(r)) /\ WF_vars(CommitRelease(r))

Spec == Init /\ [][Next]_vars /\ Fairness

(***************************************************************************)
(* Properties.                                                             *)
(***************************************************************************)

\* A fork, a clone and a worktree are asked for at most once, whoever crashes and whatever is
\* lost: a repeated request would make a second fork or fail on the first one's checkout
\* (_mark_fork_dispatching, mark_clone_submitted, _reserve_worker_worktree; a clone that
\* verifiably never started is not counted)
AskedOnce == \A k \in Kinds : asked[k] <= 1

\* No two sessions of one job are ever alive or on their way: not from one participant to the
\* next, not after a crash, not when a session's creation is answered late
\* (_ensure_workflow_participant, _execute_session_create_effect)
SingleAgent == Cardinality({g \in Plans : world.session[g] \in {"asked", "live"}}) <= 1

\* An outcome is given only when no agent of the job works any more and none can still start,
\* whoever released it and whatever the operator settled meanwhile (cancel_target_and_release)
ReleasedIsClosed ==
    job.status \in Terminal => \A g \in Plans : world.session[g] \notin {"asked", "live"}

\* While the user controls the session, and did not end the job, the harness asks for no pane
\* and no session and closes no pane (relinquish_session_control, recover_jobs)
UserSessionUntouched ==
    [][job.user /\ job'.user /\ job.intent = "none" =>
         \A g \in Plans :
           /\ world'.pane[g] # world.pane[g] => world.pane[g] = "asked"
           /\ world'.session[g] = "asked" => world.session[g] = "asked"]_vars

\* A session that began to work after the job's outcome was fixed, and that nobody identified:
\* reconcile_uncertain_agent finds it and neither closes nor counts it
LateAgent == /\ job.agent \in Doubtful /\ ~job.session
             /\ job.target # 0 /\ world.session[job.target] = "live"

\* A clone that was recorded as submitted and is not there: reconcile_uncertain_clone waits on
LostClone == job.clone \in {"submitted", "ambiguous"} /\ world.thing["clone"] = "no"

\* What the record shows the user: an outcome, a question, or something to be settled by hand
Told == \/ job.status \in Terminal \cup {"asking", "blocked"}
        \/ job.slot # "none" \/ job.unverified \/ job.inspect

\* A job a worker took on ends, and a fixed outcome is given, or the record says what it waits
\* for, although every releaser may die and every answer be late.  The code leaves out: a late
\* agent; while the outcome is open, a lost clone and a pull request whose checkout failed (its
\* quarantine makes the worker's own failure stale, _worker_fail).  The last disjunct is the
\* bound on plans.  (recover_jobs, _worker_fail)
Concludes ==
    job.status = "routing" \/ job.intent # "none" ~>
        \/ Told \/ LateAgent
        \/ /\ job.intent = "none"
           /\ job.user \/ LostClone \/ job.pull = "quarantined" \/ NextPlan \notin Plans

\* "abandoned jobs are recovered at daemon startup and during normal polling"
\* (docs/architecture.md:30): where no request fails, no job fails
RecoveredNotFailed == job.intent # "failed"

=============================================================================
