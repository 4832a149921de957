---------------------------- MODULE ProvisionProofs ----------------------------
(***************************************************************************)
(* Provision for any number of participants, plans, errors and crashes.    *)
(***************************************************************************)
EXTENDS Provision, FiniteSetTheorems, TLAPS

\* Where the worker has no session yet, and where it has all it needs for one.
Early == {"acquire", "fork", "forking", "materialize", "worktree", "settle", "creating",
          "cloning", "pane", "submit", "paning", "reserve"}
Late == {"pane", "submit", "paning", "reserve", "create", "starting", "prepare", "phase",
         "clear", "prompting", "working", "complete"}
Checked == {"fork", "pull", "issue"}

Busy(w, g) == w.session[g] \in {"asked", "live"}
Quiescent(j) == j.agent \in {"none", "confirmed_absent"}
Unsure(j) == j.pane \in {"submitting", "manual_required"}
Open(j, w) == j.worktree \in Doubtful /\ w.thing["worktree"] # "yes"
Acquired(j, w) == /\ ~Open(j, w)
                  /\ j.source = "fork" => j.fork = "exists"
                  /\ j.source \in Checked => ~CheckoutPlannable(j)

\* What may still be asked for was not asked for.
AskTells(j, a) ==
    /\ ForkAskable(j) => a["fork"] = 0
    /\ j.clone \in {"none", "planned"} => a["clone"] = 0
    /\ CheckoutPlannable(j) => a["worktree"] = 0

\* A session that lives or may still come is the one of the operation, which knows of it.
AgentTells(j, w) ==
    /\ \A g \in Plans : Busy(w, g) => g = j.op /\ ~Quiescent(j)
    /\ j.session => /\ j.agent \in {"ready", "confirmed_absent"} /\ j.op # 0
                    /\ w.session[j.op] \in {"live", "gone"}
    /\ j.agent \in {"ready", "retained"} => j.session
    /\ j.agent = "failed_observing" => w.session[j.op] # "asked"
    /\ j.agent = "none" => j.op = 0
    /\ j.target \in {0, j.op}
    /\ j.target = 0 => Quiescent(j)

\* Panes are planned one after the other, and only the planned one can be on its way.
PaneTells(j, w) ==
    /\ \A g, h \in Plans : h < g /\ w.pane[g] # "no" => w.pane[h] \in {"open", "closed"}
    /\ \A g \in Plans : w.pane[g] = "asked" => g = j.planned /\ Unsure(j)
    /\ j.pane = "planned" =>
         /\ j.planned # 0 /\ w.pane[j.planned] = "no"
         /\ \A h \in Plans : h < j.planned => w.pane[h] \in {"open", "closed"}
    /\ j.pane = "created" => j.planned # 0 /\ w.pane[j.planned] \in {"open", "closed"}
    /\ Unsure(j) => j.planned # 0
    /\ j.op # 0 => w.pane[j.op] \in {"open", "closed"}
    /\ \A g \in Plans : w.session[g] # "no" => g <= j.op

\* What the job's source needs comes in order, and before any session.
SourceTells(j, w) ==
    /\ j.source # "fork" => j.fork = "none"
    /\ j.worktree # "none" /\ j.source = "fork" => j.fork = "exists"
    /\ j.source \notin Checked => j.worktree \in {"none", "ready"}
    /\ j.worktree = "quarantined" => w.thing["worktree"] = "yes"
    /\ j.reconcile \/ j.agent # "none" => Acquired(j, w)

\* Only one operation at a time is observed, and it is given up in time.
TriesTell(j, w) ==
    /\ j.absent <= UncertainMax
    /\ j.fork \in Doubtful \/ j.agent \in Doubtful \/ Open(j, w) =>
         j.tries < UncertainMax /\ j.absent <= j.tries

\* A job that is over, or asks, has no worker and no session.
StatusTells(j) ==
    /\ j.status \in Terminal => ~j.owner /\ Quiescent(j)
    /\ j.status = "asking" => ~j.owner /\ Quiescent(j) /\ ~Unsure(j)

RecordTells(j, w, a) ==
    /\ AskTells(j, a) /\ AgentTells(j, w) /\ PaneTells(j, w)
    /\ SourceTells(j, w) /\ TriesTell(j, w) /\ StatusTells(j)

\* Where the worker stands agrees with the record, whatever others wrote meanwhile.
WorkerTells ==
    /\ wk.pc \in Early => Quiescent(job)
    /\ wk.pc \in Late => Acquired(job, world)
    /\ wk.pc \notin {"off", "paning", "fail", "cleanup"} => ~Unsure(job)
    /\ wk.pc = "clear" => \A g \in Plans : ~Busy(world, g)
    /\ wk.pc = "submit" => job.pane = "planned"
    /\ wk.pc = "paning" => Unsure(job)
    /\ wk.pc = "reserve" => job.pane = "created"
    /\ wk.pc \in {"submit", "paning", "reserve"} => job.planned > job.op
    /\ wk.pc \in {"create", "starting"} =>
         job.agent \in {"dispatching", "ambiguous", "manual_required"}
    /\ wk.pc \in {"fork", "forking", "materialize"} => job.source = "fork"
    /\ wk.pc = "fork" => job.fork = "planned"
    /\ wk.pc = "forking" /\ wk.fresh => job.fork = "submitted"
    /\ wk.pc = "materialize" => job.fork = "exists"
    /\ wk.pc = "cloning" => asked["clone"] = 1 /\ job.source = "clone"
    /\ wk.pc \in {"worktree", "settle", "creating"} =>
         job.source \in Checked /\ (job.source = "fork" => job.fork = "exists")
    /\ wk.pc = "settle" => world.thing["worktree"] = "yes"
    /\ wk.pc = "creating" /\ wk.fresh =>
         job.worktree = "dispatching" /\ job.tries = 0 /\ job.absent = 0
    /\ job.user => wk.pc \in {"off", "start", "fail", "cleanup"}
    /\ scan.launch => wk.pc = "off" /\ ~Unsure(job)
    /\ job.status = "asking" => wk.pc = "off"

\* A current release holds a fixed outcome, and what it confirmed is closed.
ReleaseTells ==
    \A r \in Releasers :
      rl[r].current =>
        /\ job.intent # "none"
        /\ rl[r].pc = "commit" /\ rl[r].confirmed /\ job.agent = "ready" => ~Busy(world, job.op)

Statuses == {"queued", "asking", "blocked"} \cup Working \cup Terminal
Intents == {"none"} \cup Terminal
Agents == {"none", "ready", "confirmed_absent", "manual_required"} \cup Doubtful
Pulls == {"none", "provisioning", "ready", "retained", "quarantined"}
PaneStates == {"none", "planned", "submitting", "created", "failed", "manual_required"}
Prompts == {"none", "submitting", "submitted", "ambiguous", "used", "again"}
Slots == {"none", "agent", "fork", "worktree", "prompt", "pane"}
Holds == {"none", "pending", "owned"}
PlanNos == 0..MaxPlans
RoleNos == 0..Roles
PhaseNos == 1..Roles
Tries == 0..UncertainMax
Absents == 0..2 * UncertainMax
Jobs == [source : Sources, status : Statuses,
         reconcile : BOOLEAN, confirmed : BOOLEAN, owner : BOOLEAN, user : BOOLEAN,
         intent : Intents, fork : OpStates, clone : OpStates, pull : Pulls,
         worktree : OpStates, located : BOOLEAN, inspect : BOOLEAN, pane : PaneStates,
         planned : PlanNos, target : PlanNos, role : RoleNos, phase : PhaseNos,
         agent : Agents, op : PlanNos, session : BOOLEAN, prompt : Prompts, slot : Slots,
         tries : Tries, absent : Absents, release : Holds, unverified : BOOLEAN]
Places == {"off", "start", "fail", "cleanup"} \cup Early \cup Late
Workers == [pc : Places, fresh : BOOLEAN, outer : BOOLEAN, path : {"main", "follow", "role"}]
Releases == [pc : {"off", "stop", "close", "commit"}, current : BOOLEAN,
             confirmed : BOOLEAN, unverified : BOOLEAN, stopped : BOOLEAN]
Scans == [pc : {"idle", "recover"}, launch : BOOLEAN]
Worlds == [thing : [Kinds -> {"no", "asked", "yes"}],
           pane : [Plans -> {"no", "asked", "open", "closed"}],
           session : [Plans -> {"no", "asked", "live", "gone"}]]

Types == /\ job \in Jobs /\ wk \in Workers /\ rl \in [Releasers -> Releases] /\ scan \in Scans
         /\ world \in Worlds /\ asked \in [Kinds -> 0..1]

Inv == Types /\ RecordTells(job, world, asked) /\ WorkerTells /\ ReleaseTells

\* The columns the record's part of the invariant is about.
SameOps(j, k) == /\ k.source = j.source /\ k.fork = j.fork /\ k.clone = j.clone
                 /\ k.worktree = j.worktree /\ (k.reconcile <=> j.reconcile)
                 /\ k.tries = j.tries /\ k.absent = j.absent
SameAgent(j, k) == /\ k.agent = j.agent /\ k.op = j.op /\ k.target = j.target
                   /\ (k.session <=> j.session)
SamePane(j, k) == k.pane = j.pane /\ k.planned = j.planned
SameLife(j, k) == /\ k.status = j.status /\ k.intent = j.intent
                  /\ (k.owner <=> j.owner) /\ (k.user <=> j.user)
SameCore(j, k) == SameOps(j, k) /\ SameAgent(j, k) /\ SamePane(j, k)

-----------------------------------------------------------------------------

\* Types is the type invariant with the worker's and the world's records spelled out.
LEMMA TypesTell == Types => TypeOK
    BY DEF Types, TypeOK, Jobs, Workers, Releases, Scans, Worlds, Statuses, Intents, Pulls, Agents, OpStates,
           PaneStates, Prompts, Slots, Holds, PlanNos, RoleNos, PhaseNos, Tries, Absents

\* The names the code writes into the record.
LEMMA Named ==
    /\ {"queued", "asking", "blocked", "routing", "running", "reconciling", "completed",
        "failed", "cancelled"} \subseteq Statuses
    /\ {"none", "completed", "failed", "cancelled"} \subseteq Intents /\ Terminal \subseteq Intents
    /\ Terminal \subseteq Statuses /\ "none" \in Intents
    /\ {"none", "planned", "exists", "cloned", "failed", "ready", "retained", "quarantined",
        "confirmed_absent", "manual_required", "dispatching", "submitted", "ambiguous",
        "failed_observing"} \subseteq OpStates
    /\ {"none", "ready", "confirmed_absent", "manual_required", "dispatching", "submitted",
        "ambiguous", "failed_observing"} \subseteq Agents
    /\ {"none", "provisioning", "ready", "retained", "quarantined"} \subseteq Pulls
    /\ {"none", "planned", "submitting", "created", "failed", "manual_required"} \subseteq PaneStates
    /\ {"none", "submitting", "submitted", "ambiguous", "used", "again"} \subseteq Prompts
    /\ {"none", "agent", "fork", "worktree", "prompt", "pane"} \subseteq Slots
    /\ {"none", "pending", "owned"} \subseteq Holds
    BY DEF Statuses, Working, Terminal, Intents, OpStates, Agents, Doubtful, Pulls, PaneStates, Prompts,
           Slots, Holds

\* The columns of a record have their types.
LEMMA JobFields ==
    ASSUME NEW j \in Jobs
    PROVE  /\ j.planned \in 0..MaxPlans /\ j.op \in 0..MaxPlans /\ j.target \in 0..MaxPlans
           /\ j.tries \in 0..UncertainMax /\ j.absent \in 0..2 * UncertainMax
           /\ j.fork \in OpStates /\ j.clone \in OpStates /\ j.worktree \in OpStates
           /\ j.agent \in Agents /\ j.phase \in 1..Roles /\ j.role \in 0..Roles
           /\ j.source \in Sources /\ j.session \in BOOLEAN /\ j.reconcile \in BOOLEAN
           /\ j.owner \in BOOLEAN /\ j.user \in BOOLEAN
           /\ j.status \in Statuses /\ j.intent \in Intents /\ j.pane \in PaneStates
           /\ j.pull \in Pulls /\ j.release \in Holds
    BY DEF Jobs, PlanNos, RoleNos, PhaseNos, Tries, Absents

\* Unchanged columns leave the record's part of the invariant alone.
LEMMA CoreKept ==
    ASSUME NEW j \in Jobs, NEW k \in Jobs, NEW w, NEW a, SameCore(j, k), RecordTells(j, w, a),
           StatusTells(k)
    PROVE  RecordTells(k, w, a)
<1>1. AskTells(k, a)
    BY DEF RecordTells, SameCore, SameOps, AskTells, ForkAskable, CheckoutPlannable
<1>2. AgentTells(k, w)
    BY DEF RecordTells, SameCore, SameAgent, AgentTells, Quiescent
<1>3. PaneTells(k, w)
    BY DEF RecordTells, SameCore, SameAgent, SamePane, PaneTells, Unsure
<1>4. SourceTells(k, w) /\ TriesTell(k, w)
    BY DEF RecordTells, SameCore, SameOps, SameAgent, SourceTells, TriesTell, Open, Acquired,
           CheckoutPlannable
<1> QED
    BY <1>1, <1>2, <1>3, <1>4 DEF RecordTells

\* The invariant of the next state, from its parts.
LEMMA InvNext ==
    ASSUME job' \in Jobs, wk' \in Workers, rl' \in [Releasers -> Releases], scan' \in Scans,
           world' \in Worlds, asked' \in [Kinds -> 0..1], RecordTells(job', world', asked'),
           WorkerTells', ReleaseTells'
    PROVE  Inv'
    BY DEF Inv, Types

\* What the invariant says of the variables' types.
LEMMA Typed ==
    ASSUME Inv
    PROVE  /\ job \in Jobs /\ wk \in Workers /\ rl \in [Releasers -> Releases] /\ scan \in Scans
           /\ world \in Worlds /\ asked \in [Kinds -> 0..1]
           /\ RecordTells(job, world, asked) /\ WorkerTells /\ ReleaseTells
    BY DEF Inv, Types

\* A step that leaves the world and the record's core alone.
LEMMA CoreStep ==
    ASSUME Inv, job' \in Jobs, wk' \in Workers, rl' \in [Releasers -> Releases], scan' \in Scans,
           UNCHANGED <<world, asked>>, SameCore(job, job'), StatusTells(job'),
           WorkerTells', ReleaseTells'
    PROVE  Inv'
<1>1. PICK j, k, w, a : j = job /\ k = job' /\ w = world /\ a = asked
    OBVIOUS
<1>2. RecordTells(k, w, a)
    BY <1>1, CoreKept, Typed
<1> QED
    BY <1>1, <1>2, InvNext, Typed

-----------------------------------------------------------------------------

\* A worker that is gone.
LEMMA OffTyped == Off \in Workers /\ Off.pc = "off" /\ ~Off.fresh
    BY DEF Off, Workers, Places

\* A worker that moves to another place.
LEMMA GoFields ==
    ASSUME NEW k \in Workers, NEW pc \in Places
    PROVE  /\ [k EXCEPT !.pc = pc] \in Workers /\ [k EXCEPT !.pc = pc].pc = pc
           /\ ([k EXCEPT !.pc = pc].fresh <=> k.fresh) /\ [k EXCEPT !.pc = pc].path = k.path
    BY DEF Workers

\* A worker whose write went through.
LEMMA WroteFields ==
    ASSUME NEW k \in Workers, NEW pc \in Places, NEW outer \in BOOLEAN
    PROVE  /\ [k EXCEPT !.pc = pc, !.outer = outer] \in Workers
           /\ [k EXCEPT !.pc = pc, !.outer = outer].pc = pc
           /\ ([k EXCEPT !.pc = pc, !.outer = outer].fresh <=> k.fresh)
           /\ [k EXCEPT !.pc = pc, !.outer = outer].path = k.path
    BY DEF Workers

\* A worker somebody else's write made stale.
LEMMA StaleFields ==
    ASSUME NEW k \in Workers
    PROVE  /\ [k EXCEPT !.fresh = FALSE, !.outer = FALSE] \in Workers
           /\ [k EXCEPT !.fresh = FALSE, !.outer = FALSE].pc = k.pc
           /\ ~[k EXCEPT !.fresh = FALSE, !.outer = FALSE].fresh
    BY DEF Workers

\* A release that is over, and one whose token was taken away.
LEMMA ReleaseFields ==
    /\ Idle \in Releases /\ Idle.pc = "off" /\ ~Idle.current
    /\ \A x \in Releases : /\ [x EXCEPT !.current = FALSE] \in Releases
                           /\ ~[x EXCEPT !.current = FALSE].current
    BY DEF Idle, Releases

\* Releases that go on while the outcome stays fixed and no session is confirmed anew.
LEMMA ReleaseKept ==
    ASSUME Inv, UNCHANGED rl, job'.intent # "none" \/ job'.intent = job.intent,
           \/ job.intent = "none"
           \/ /\ job'.op = job.op /\ (job'.agent = "ready" => job.agent = "ready")
              /\ Busy(world', job.op) => Busy(world, job.op)
    PROVE  ReleaseTells'
    BY DEF Inv, ReleaseTells, Busy

\* The same when the worker's own release ends.
LEMMA WorkerReleaseEnds ==
    ASSUME Inv, rl' = [rl EXCEPT !["worker"] = Idle],
           job'.intent # "none" \/ job'.intent = job.intent,
           \/ job.intent = "none"
           \/ /\ job'.op = job.op /\ (job'.agent = "ready" => job.agent = "ready")
              /\ Busy(world', job.op) => Busy(world, job.op)
    PROVE  ReleaseTells' /\ rl' \in [Releasers -> Releases]
<1>1. rl \in [Releasers -> Releases]
    BY Typed
<1>2. \A r \in Releasers : rl'[r] = IF r = "worker" THEN Idle ELSE rl[r]
    BY <1>1
<1>3. rl' \in [Releasers -> Releases]
    BY <1>1, ReleaseFields
<1> QED
    BY <1>2, <1>3, ReleaseFields DEF Inv, ReleaseTells, Busy

\* A worker that ends or fails.
LEMMA WorkerEnds ==
    ASSUME Inv, SameCore(job, job'), wk'.pc \in {"off", "fail", "cleanup"},
           scan'.launch => scan.launch /\ wk'.pc = "off",
           job'.status = "asking" => wk'.pc = "off"
    PROVE  WorkerTells'
    BY DEF WorkerTells, Early, Late, Inv, SameCore, SamePane, Unsure

\* A worker that ends without a word.
LEMMA Gone ==
    ASSUME Inv, UNCHANGED <<job, scan, world, asked>>, wk' = Off,
           rl' = rl \/ rl' = [rl EXCEPT !["worker"] = Idle]
    PROVE  Inv'
<1>1. SameCore(job, job')
    BY DEF SameCore, SameOps, SameAgent, SamePane
<1>2. WorkerTells'
    BY <1>1, OffTyped, WorkerEnds
<1>3. ReleaseTells' /\ rl' \in [Releasers -> Releases]
    BY ReleaseKept, WorkerReleaseEnds, Typed
<1> QED
    BY <1>1, <1>2, <1>3, CoreStep, Typed, OffTyped DEF RecordTells

\* A worker that fails: what it has is released by its own failure, or by recovery.
LEMMA Fails ==
    ASSUME Inv, UNCHANGED <<job, rl, scan, world, asked>>, wk.pc # "off",
           NEW l \in {"fail"}, wk' = [wk EXCEPT !.pc = l]
    PROVE  Inv'
<1>0. PICK k : k = wk
    OBVIOUS
<1>1. SameCore(job, job')
    BY DEF SameCore, SameOps, SameAgent, SamePane
<1>2. wk' \in Workers /\ wk'.pc = "fail"
    BY <1>0, GoFields, Typed DEF Places
<1>3. ~scan.launch /\ job.status # "asking"
    BY DEF Inv, WorkerTells
<1>4. WorkerTells'
    BY <1>1, <1>2, <1>3, WorkerEnds
<1> QED
    BY <1>1, <1>2, <1>4, CoreStep, Typed, ReleaseKept DEF RecordTells

-----------------------------------------------------------------------------

\* A worker that goes on without asking for anything.
LEMMA WorkerMoves ==
    ASSUME Inv, job' \in Jobs, wk' \in Workers, UNCHANGED <<rl, scan, world, asked>>,
           SameCore(job, job'), job'.intent = job.intent, ~job'.user,
           wk.pc \notin {"off", "paning", "fail", "cleanup"},
           wk'.pc \in {"acquire", "materialize", "worktree", "pane", "prepare", "phase",
                       "prompting", "working", "complete"},
           \/ job'.status = job.status /\ (job'.owner => job.owner)
           \/ job'.status \notin Terminal \cup {"asking"},
           wk'.pc \in Early => Quiescent(job),
           wk'.pc \in Late => Acquired(job, world),
           wk'.pc = "materialize" => job.source = "fork" /\ job.fork = "exists",
           wk'.pc = "worktree" =>
             job.source \in Checked /\ (job.source = "fork" => job.fork = "exists")
    PROVE  Inv'
<1>1. StatusTells(job')
    BY DEF Inv, RecordTells, StatusTells, SameCore, SameAgent, SamePane, Quiescent, Unsure
<1>2. ReleaseTells'
    BY ReleaseKept DEF SameCore, SameAgent, Busy
<1>3. /\ Quiescent(job') <=> Quiescent(job)
      /\ Acquired(job', world') <=> Acquired(job, world)
      /\ Unsure(job') <=> Unsure(job)
    BY DEF SameCore, SameOps, SameAgent, SamePane, Quiescent, Acquired, Open, Unsure,
           CheckoutPlannable
<1>4. ~Unsure(job) /\ ~scan.launch /\ job.status # "asking"
    BY DEF Inv, WorkerTells
<1>5. job'.source = job.source /\ job'.fork = job.fork
    BY DEF SameCore, SameOps
<1>6. WorkerTells'
    BY <1>3, <1>4, <1>5 DEF WorkerTells
<1> QED
    BY <1>1, <1>2, <1>6, CoreStep, Typed

\* An unchanged record.
LEMMA SameRecord == ASSUME UNCHANGED job PROVE SameCore(job, job')
    BY DEF SameCore, SameOps, SameAgent, SamePane

\* The constants.
LEMMA Constants ==
    /\ Sources \subseteq {"fork", "clone", "pull", "issue", "plain", "follow"}
    /\ Roles \in Nat /\ Roles >= 1 /\ MaxPlans \in Nat /\ MaxPlans >= 1
    /\ FailedMax \in Nat /\ FailedMax >= 1 /\ UncertainMax \in Nat /\ UncertainMax >= 1
    BY ProvisionConstants

\* A recorded source without a checkout of its own is acquired with its repository.
LEMMA SourceAcquired ==
    ASSUME Inv, job.source \notin Checked
    PROVE  Acquired(job, world)
<1>1. job.worktree \in {"none", "ready"} /\ job.source # "fork"
    BY DEF Inv, RecordTells, SourceTells, Checked
<1> QED
    BY <1>1 DEF Acquired, Open, Doubtful

\* A job with a target has had everything it needs.
LEMMA TargetAcquired ==
    ASSUME Inv, job.target # 0 \/ job.reconcile
    PROVE  Acquired(job, world)
<1>1. job.target # 0 => job.agent # "none"
    BY DEF Inv, RecordTells, AgentTells
<1> QED
    BY <1>1 DEF Inv, RecordTells, SourceTells

\* begin_worker.
LEMMA ClaimKeeps == ASSUME Inv, Claim PROVE Inv'
<1>1. scan' \in Scans /\ ~scan'.launch
    BY Typed DEF Claim, Scans
<1>2. wk.pc = "off" /\ ~Unsure(job)
    BY DEF Claim, Inv, WorkerTells
<1>3. CASE UNCHANGED <<job, wk>>
    <2>1. WorkerTells'
        BY <1>1, <1>2, <1>3 DEF WorkerTells, Early, Late
    <2> QED
        BY <1>1, <1>3, <2>1, CoreStep, Typed, ReleaseKept, SameRecord DEF RecordTells, Claim
<1>4. CASE /\ job.status = "queued" /\ job.intent = "none"
           /\ job' = [job EXCEPT !.owner = TRUE,
                                 !.status = IF job.reconcile THEN "reconciling" ELSE "routing"]
           /\ wk' = [pc |-> "start", fresh |-> TRUE, outer |-> TRUE, path |-> "main"]
    <2>0. job \in Jobs
        BY Typed
    <2>1. job' \in Jobs
        <3>1. PICK j, s : j = job /\ s = IF job.reconcile THEN "reconciling" ELSE "routing"
            OBVIOUS
        <3>2. job' = [j EXCEPT !.owner = TRUE, !.status = s] /\ j \in Jobs
            BY <1>4, <2>0, <3>1
        <3>3. s \in Statuses
            BY <3>1, Named
        <3> QED
            BY <3>2, <3>3 DEF Jobs
    <2>2. SameCore(job, job') /\ job'.status \in {"reconciling", "routing"}
          /\ job'.intent = job.intent /\ (job'.user <=> job.user)
        BY <1>4, <2>0 DEF Jobs, SameCore, SameOps, SameAgent, SamePane
    <2>3. wk' \in Workers /\ wk'.pc = "start"
        BY <1>4 DEF Workers, Places
    <2>4. StatusTells(job')
        BY <2>2 DEF StatusTells, Terminal
    <2>5. WorkerTells'
        BY <1>1, <1>2, <2>2, <2>3 DEF WorkerTells, Early, Late, SameCore, SamePane, Unsure
    <2>6. ReleaseTells'
        BY <2>2, ReleaseKept DEF Claim, SameCore, SameAgent, Busy
    <2> QED
        BY <1>1, <2>1, <2>2, <2>3, <2>4, <2>5, <2>6, CoreStep, Typed DEF Claim
<1> QED
    BY <1>3, <1>4 DEF Claim

\* run_claimed_worker.
LEMMA StartKeeps == ASSUME Inv, Start PROVE Inv'
<1>0. PICK k : k = wk
    OBVIOUS
<1>1. CASE UNCHANGED job /\ wk' = Off
    BY <1>1, Gone DEF Start, Quiet
<1>2. job.target = 0 => Quiescent(job)
    BY DEF Inv, RecordTells, AgentTells
<1>3. CASE ~job.user /\ UNCHANGED job /\ job.reconcile /\ Goes("phase")
    <2>1. wk' \in Workers /\ wk'.pc = "phase"
        BY <1>0, <1>3, GoFields, Typed DEF Goes, Places, Late
    <2> QED
        BY <1>3, <2>1, WorkerMoves, SameRecord, TargetAcquired, Typed
        DEF Start, Quiet, Early, Late
<1>4. CASE ~job.user /\ job' = job /\ job.target # 0 /\ wk' = [wk EXCEPT !.pc = "prepare", !.outer = TRUE]
    <2>1. wk' \in Workers /\ wk'.pc = "prepare"
        BY <1>0, <1>4, WroteFields, Typed DEF Places, Late
    <2> QED
        BY <1>4, <2>1, WorkerMoves, SameRecord, TargetAcquired, Typed
        DEF Start, Quiet, Early, Late
<1>5. CASE /\ ~job.user /\ job' = job /\ job.target = 0 /\ job.source = "follow"
           /\ wk' = [wk EXCEPT !.pc = "pane", !.path = "follow"]
    <2>1. wk' \in Workers /\ wk'.pc = "pane"
        BY <1>5, Typed DEF Workers, Places, Late
    <2> QED
        BY <1>2, <1>5, <2>1, WorkerMoves, SameRecord, SourceAcquired, Typed
        DEF Start, Quiet, Early, Late, Checked
<1>6. CASE /\ ~job.user /\ job' = job /\ job.target = 0
           /\ wk' = [wk EXCEPT !.pc = "acquire", !.outer = TRUE]
    <2>1. wk' \in Workers /\ wk'.pc = "acquire"
        BY <1>0, <1>6, WroteFields, Typed DEF Places, Early
    <2> QED
        BY <1>2, <1>6, <2>1, WorkerMoves, SameRecord, Typed
        DEF Start, Quiet, Early, Late
<1> QED
    BY <1>1, <1>3, <1>4, <1>5, <1>6 DEF Start, Writes

\* A step that fails before anything was asked for.
LEMMA StepFailsKeeps == ASSUME Inv, StepFails PROVE Inv'
    BY Fails DEF StepFails, Goes

\* Where the worker stands it is not the user's.
LEMMA NotUsers ==
    ASSUME Inv, wk.pc \notin {"off", "start", "fail", "cleanup"}
    PROVE  ~job.user
    BY DEF Inv, WorkerTells

\* The repository is there.
LEMMA FindRepositoryKeeps == ASSUME Inv, FindRepository PROVE Inv'
<1>0. PICK k : k = wk
    OBVIOUS
<1>1. wk' \in Workers /\ wk'.pc = "pane"
    BY <1>0, GoFields, Typed DEF FindRepository, Goes, Places, Late
<1>2. Quiescent(job)
    BY DEF FindRepository, Inv, WorkerTells, Early
<1> QED
    BY <1>1, <1>2, WorkerMoves, SameRecord, SourceAcquired, Typed, NotUsers
    DEF FindRepository, Quiet, Checked

\* The pull request's repository is there.
LEMMA FindPullRequestKeeps == ASSUME Inv, FindPullRequest PROVE Inv'
<1>0. PICK k : k = wk
    OBVIOUS
<1>1. CASE UNCHANGED job /\ wk' = Off
    BY <1>1, Gone DEF FindPullRequest, Quiet
<1>2. CASE /\ job' = [job EXCEPT !.pull = "provisioning"]
           /\ wk' = [wk EXCEPT !.pc = "worktree", !.outer = TRUE]
    <2>0. job \in Jobs
        BY Typed
    <2>1. job' \in Jobs
        BY <1>2, <2>0, Named DEF Jobs
    <2>2. /\ SameCore(job, job') /\ job'.status = job.status /\ job'.intent = job.intent
          /\ (job'.user <=> job.user) /\ (job'.owner <=> job.owner)
        BY <1>2, <2>0 DEF Jobs, SameCore, SameOps, SameAgent, SamePane
    <2>3. wk' \in Workers /\ wk'.pc = "worktree"
        BY <1>0, <1>2, WroteFields, Typed DEF Places, Early
    <2>4. Quiescent(job)
        BY DEF FindPullRequest, Inv, WorkerTells, Early
    <2> QED
        BY <2>1, <2>2, <2>3, <2>4, WorkerMoves, NotUsers
        DEF FindPullRequest, Quiet, Checked, Late
<1> QED
    BY <1>1, <1>2 DEF FindPullRequest, Writes

\* The issue's repository is there.
LEMMA FindIssueRepositoryKeeps == ASSUME Inv, FindIssueRepository PROVE Inv'
<1>0. PICK k : k = wk
    OBVIOUS
<1>1. CASE UNCHANGED job /\ wk' = Off
    BY <1>1, Gone DEF FindIssueRepository, Quiet
<1>2. CASE job' = job /\ wk' = [wk EXCEPT !.pc = "worktree", !.outer = TRUE]
    <2>3. wk' \in Workers /\ wk'.pc = "worktree"
        BY <1>0, <1>2, WroteFields, Typed DEF Places, Early
    <2>4. Quiescent(job)
        BY DEF FindIssueRepository, Inv, WorkerTells, Early
    <2> QED
        BY <1>2, <2>3, <2>4, WorkerMoves, NotUsers, SameRecord, Typed
        DEF FindIssueRepository, Quiet, Checked, Late
<1> QED
    BY <1>1, <1>2 DEF FindIssueRepository, Writes

\* The fork is there and cloned.
LEMMA MaterializeForkKeeps == ASSUME Inv, MaterializeFork PROVE Inv'
<1>0. PICK k : k = wk
    OBVIOUS
<1>1. CASE UNCHANGED job /\ wk' = Off
    BY <1>1, Gone DEF MaterializeFork, Quiet
<1>2. CASE job' = job /\ wk' = [wk EXCEPT !.pc = "worktree", !.outer = TRUE]
    <2>3. wk' \in Workers /\ wk'.pc = "worktree"
        BY <1>0, <1>2, WroteFields, Typed DEF Places, Early
    <2>4. Quiescent(job) /\ job.source = "fork" /\ job.fork = "exists"
        BY DEF MaterializeFork, Inv, WorkerTells, Early
    <2> QED
        BY <1>2, <2>3, <2>4, WorkerMoves, NotUsers, SameRecord, Typed
        DEF MaterializeFork, Quiet, Checked, Late
<1> QED
    BY <1>1, <1>2 DEF MaterializeFork, Writes

-----------------------------------------------------------------------------

\* A worker that stops or fails with a last word.
LEMMA WorkerStops ==
    ASSUME Inv, job' \in Jobs, wk' \in Workers, UNCHANGED <<rl, scan, world, asked>>,
           SameCore(job, job'), job'.intent = job.intent, wk.pc # "off",
           wk'.pc \in {"off", "fail"},
           \/ job'.status = job.status /\ (job'.owner => job.owner)
           \/ job'.status \notin Terminal \cup {"asking"}
    PROVE  Inv'
<1>1. StatusTells(job')
    BY DEF Inv, RecordTells, StatusTells, SameCore, SameAgent, SamePane, Quiescent, Unsure
<1>2. ReleaseTells'
    BY ReleaseKept DEF SameCore, SameAgent, Busy
<1>3. ~scan.launch /\ job.status # "asking"
    BY DEF Inv, WorkerTells
<1>4. WorkerTells'
    BY <1>3, WorkerEnds
<1> QED
    BY <1>1, <1>2, <1>4, CoreStep, Typed

\* The pull request's checkout is prepared, or is quarantined.
LEMMA PrepareKeeps == ASSUME Inv, Prepare PROVE Inv'
<1>0. PICK j, k : j = job /\ k = wk
    OBVIOUS
<1>1. j \in Jobs /\ k \in Workers
    BY <1>0, Typed
<1>2. CASE UNCHANGED job /\ wk' = Off
    BY <1>2, Gone DEF Prepare, Rest
<1>3. CASE /\ job' = [job EXCEPT !.status = "running",
                                 !.pull = IF job.source = "pull" /\ @ # "retained"
                                          THEN "ready" ELSE @]
           /\ wk' = [wk EXCEPT !.pc = "phase", !.outer = TRUE]
    <2>1. PICK s : s = IF j.source = "pull" /\ j.pull # "retained" THEN "ready" ELSE j.pull
        OBVIOUS
    <2>2. s \in Pulls
        BY <1>1, <2>1, JobFields, Named
    <2>3. job' = [j EXCEPT !.status = "running", !.pull = s]
        BY <1>0, <1>3, <2>1
    <2>4. job' \in Jobs
        BY <1>1, <2>2, <2>3, Named DEF Jobs
    <2>5. /\ SameCore(job, job') /\ job'.status = "running" /\ job'.intent = job.intent
          /\ (job'.user <=> job.user)
        BY <1>0, <1>1, <2>3 DEF Jobs, SameCore, SameOps, SameAgent, SamePane
    <2>6. wk' \in Workers /\ wk'.pc = "phase"
        BY <1>0, <1>1, <1>3, WroteFields DEF Places, Late
    <2>7. Acquired(job, world)
        BY DEF Prepare, Inv, WorkerTells, Late
    <2> QED
        BY <2>4, <2>5, <2>6, <2>7, WorkerMoves, NotUsers DEF Prepare, Rest, Early, Terminal
<1>4. CASE job' = [job EXCEPT !.pull = "quarantined"] /\ wk' = [wk EXCEPT !.pc = "fail", !.outer = FALSE]
    <2>1. job' = [j EXCEPT !.pull = "quarantined"]
        BY <1>0, <1>4
    <2>2. job' \in Jobs
        BY <1>1, <2>1, Named DEF Jobs
    <2>3. /\ SameCore(job, job') /\ job'.status = job.status /\ job'.intent = job.intent
          /\ (job'.owner <=> job.owner)
        BY <1>0, <1>1, <2>1 DEF Jobs, SameCore, SameOps, SameAgent, SamePane
    <2>4. wk' \in Workers /\ wk'.pc = "fail"
        BY <1>0, <1>1, <1>4, WroteFields DEF Places
    <2> QED
        BY <2>2, <2>3, <2>4, WorkerStops DEF Prepare, Rest
<1> QED
    BY <1>2, <1>3, <1>4 DEF Prepare, Writes

\* A record with another prompt.
LEMMA PromptFields ==
    ASSUME NEW j \in Jobs,
           NEW p \in Prompts
    PROVE  /\ [j EXCEPT !.prompt = p] \in Jobs /\ SameCore(j, [j EXCEPT !.prompt = p])
           /\ [j EXCEPT !.prompt = p].status = j.status
           /\ [j EXCEPT !.prompt = p].intent = j.intent
           /\ ([j EXCEPT !.prompt = p].owner <=> j.owner)
           /\ ([j EXCEPT !.prompt = p].user <=> j.user)
    BY DEF Jobs, SameCore, SameOps, SameAgent, SamePane

\* A record with an operation in recovery's slot.
LEMMA ManualFields ==
    ASSUME NEW j \in Jobs, NEW s \in Slots
    PROVE  /\ Manual(j, s) \in Jobs /\ SameCore(j, Manual(j, s))
           /\ Manual(j, s).status = j.status /\ Manual(j, s).intent = j.intent
           /\ (Manual(j, s).owner <=> j.owner) /\ (Manual(j, s).user <=> j.user)
           /\ Manual(j, s).prompt = j.prompt /\ Manual(j, s).slot = s
    BY DEF Manual, Jobs, SameCore, SameOps, SameAgent, SamePane

\* The core is kept along two changes if it is kept by each.
LEMMA CoreTransitive ==
    ASSUME NEW i, NEW j, NEW k, SameCore(i, j), SameCore(j, k)
    PROVE  SameCore(i, k)
    BY DEF SameCore, SameOps, SameAgent, SamePane

\* A prompt is recorded, or only waited for.
LEMMA SubmitPromptKeeps == ASSUME Inv, SubmitPrompt PROVE Inv'
<1>0. PICK j, k : j = job /\ k = wk
    OBVIOUS
<1>1. j \in Jobs /\ k \in Workers
    BY <1>0, Typed
<1>2. CASE UNCHANGED job /\ wk' = Off
    BY <1>2, Gone DEF SubmitPrompt, Quiet
<1>3. CASE UNCHANGED job /\ Goes("fail")
    BY <1>3, Fails DEF SubmitPrompt, Quiet, Goes
<1>4. Acquired(job, world) /\ ~job.user
    BY NotUsers DEF SubmitPrompt, Inv, WorkerTells, Late
<1>5. CASE UNCHANGED job /\ Goes("working")
    <2>1. wk' \in Workers /\ wk'.pc = "working"
        BY <1>0, <1>1, <1>5, GoFields DEF Goes, Places, Late
    <2> QED
        BY <1>4, <1>5, <2>1, WorkerMoves, SameRecord, Typed DEF SubmitPrompt, Quiet, Early
<1>6. CASE job' = [job EXCEPT !.prompt = "submitting"] /\ wk' = [wk EXCEPT !.pc = "prompting", !.outer = FALSE]
    <2>1. wk' \in Workers /\ wk'.pc = "prompting"
        BY <1>0, <1>1, <1>6, WroteFields DEF Places, Late
    <2>2. /\ job' \in Jobs /\ SameCore(job, job') /\ job'.status = job.status
          /\ job'.intent = job.intent /\ (job'.owner <=> job.owner) /\ (job'.user <=> job.user)
        BY <1>0, <1>1, <1>6, PromptFields, Named
    <2> QED
        BY <1>4, <2>1, <2>2, WorkerMoves DEF SubmitPrompt, Quiet, Early
<1>7. CASE job' = [job EXCEPT !.prompt = "again"] /\ wk' = [wk EXCEPT !.pc = "fail", !.outer = FALSE]
    <2>1. wk' \in Workers /\ wk'.pc = "fail"
        BY <1>0, <1>1, <1>7, WroteFields DEF Places
    <2>2. /\ job' \in Jobs /\ SameCore(job, job') /\ job'.status = job.status
          /\ job'.intent = job.intent /\ (job'.owner <=> job.owner) /\ (job'.user <=> job.user)
        BY <1>0, <1>1, <1>7, PromptFields, Named
    <2> QED
        BY <2>1, <2>2, WorkerStops DEF SubmitPrompt, Quiet
<1> QED
    BY <1>2, <1>3, <1>5, <1>6, <1>7 DEF SubmitPrompt, Writes

\* The prompt was taken, or nobody knows.
LEMMA PromptAnsweredKeeps == ASSUME Inv, PromptAnswered PROVE Inv'
<1>0. PICK j, k : j = job /\ k = wk
    OBVIOUS
<1>1. j \in Jobs /\ k \in Workers
    BY <1>0, Typed
<1>2. CASE UNCHANGED job /\ wk' = Off
    BY <1>2, Gone DEF PromptAnswered, Rest
<1>3. CASE job' = [job EXCEPT !.prompt = "submitted"] /\ wk' = [wk EXCEPT !.pc = "working", !.fresh = TRUE]
    <2>1. wk' \in Workers /\ wk'.pc = "working"
        BY <1>0, <1>1, <1>3 DEF Workers, Places, Late
    <2>2. /\ job' \in Jobs /\ SameCore(job, job') /\ job'.status = job.status
          /\ job'.intent = job.intent /\ (job'.owner <=> job.owner) /\ (job'.user <=> job.user)
        BY <1>0, <1>1, <1>3, PromptFields, Named
    <2>3. Acquired(job, world) /\ ~job.user
        BY NotUsers DEF PromptAnswered, Inv, WorkerTells, Late
    <2> QED
        BY <2>1, <2>2, <2>3, WorkerMoves DEF PromptAnswered, Rest, Early
<1>4. CASE /\ job' = Manual([job EXCEPT !.prompt = "ambiguous"], "prompt")
           /\ wk' = [wk EXCEPT !.pc = "fail", !.fresh = TRUE, !.outer = TRUE]
    <2>1. wk' \in Workers /\ wk'.pc = "fail"
        BY <1>0, <1>1, <1>4 DEF Workers, Places
    <2>2. PICK i : i = [j EXCEPT !.prompt = "ambiguous"]
        OBVIOUS
    <2>3. /\ i \in Jobs /\ SameCore(j, i) /\ i.status = j.status
          /\ i.intent = j.intent /\ (i.owner <=> j.owner)
        BY <1>1, <2>2, PromptFields, Named
    <2>4. job' = Manual(i, "prompt")
        BY <1>0, <1>4, <2>2
    <2>5. /\ job' \in Jobs /\ SameCore(i, job') /\ job'.status = i.status
          /\ job'.intent = i.intent /\ (job'.owner <=> i.owner)
        BY <2>3, <2>4, ManualFields, Named
    <2>6. SameCore(job, job')
        BY <1>0, <2>3, <2>5 DEF SameCore, SameOps, SameAgent, SamePane
    <2> QED
        BY <1>0, <2>1, <2>3, <2>5, <2>6, WorkerStops DEF PromptAnswered, Rest
<1> QED
    BY <1>2, <1>3, <1>4 DEF PromptAnswered

\* The agent's answer ends a phase, the work, or blocks the job.
LEMMA AgentAnswersKeeps == ASSUME Inv, AgentAnswers PROVE Inv'
<1>0. PICK j, k : j = job /\ k = wk
    OBVIOUS
<1>1. j \in Jobs /\ k \in Workers
    BY <1>0, Typed
<1>2. CASE UNCHANGED job /\ wk' = Off
    BY <1>2, Gone DEF AgentAnswers, Quiet
<1>3. Acquired(job, world) /\ ~job.user
    BY NotUsers DEF AgentAnswers, Inv, WorkerTells, Late
<1>4. CASE /\ job.phase < Roles /\ job' = [job EXCEPT !.prompt = "none", !.phase = @ + 1]
           /\ wk' = [wk EXCEPT !.pc = "phase", !.outer = FALSE]
    <2>1. wk' \in Workers /\ wk'.pc = "phase"
        BY <1>0, <1>1, <1>4, WroteFields DEF Places, Late
    <2>2. PICK n : n = j.phase + 1
        OBVIOUS
    <2>3. j.phase \in 1..Roles
        BY <1>1, JobFields
    <2>4. n \in PhaseNos
        BY <1>0, <1>4, <2>2, <2>3, Constants DEF PhaseNos
    <2>5. job' = [j EXCEPT !.prompt = "none", !.phase = n]
        BY <1>0, <1>4, <2>2
    <2>6. job' \in Jobs
        BY <1>1, <2>4, <2>5, Named DEF Jobs
    <2>7. /\ SameCore(job, job') /\ job'.status = job.status /\ job'.intent = job.intent
          /\ (job'.owner <=> job.owner) /\ (job'.user <=> job.user)
        BY <1>0, <1>1, <2>5 DEF Jobs, SameCore, SameOps, SameAgent, SamePane
    <2> QED
        BY <1>3, <2>1, <2>6, <2>7, WorkerMoves DEF AgentAnswers, Quiet, Early
<1>5. CASE job' = [job EXCEPT !.prompt = "none"] /\ wk' = [wk EXCEPT !.pc = "complete", !.outer = FALSE]
    <2>1. wk' \in Workers /\ wk'.pc = "complete"
        BY <1>0, <1>1, <1>5, WroteFields DEF Places, Late
    <2>2. /\ job' \in Jobs /\ SameCore(job, job') /\ job'.status = job.status
          /\ job'.intent = job.intent /\ (job'.owner <=> job.owner) /\ (job'.user <=> job.user)
        BY <1>0, <1>1, <1>5, PromptFields, Named
    <2> QED
        BY <1>3, <2>1, <2>2, WorkerMoves DEF AgentAnswers, Quiet, Early
<1>6. CASE /\ job' = [NoWorker(job) EXCEPT !.status = "blocked", !.prompt = "used"]
           /\ wk' = [wk EXCEPT !.pc = "off", !.outer = FALSE]
    <2>1. wk' \in Workers /\ wk'.pc = "off"
        BY <1>0, <1>1, <1>6, WroteFields DEF Places
    <2>2. job' = [[j EXCEPT !.owner = FALSE] EXCEPT !.status = "blocked", !.prompt = "used"]
        BY <1>0, <1>6 DEF NoWorker
    <2>3. job' \in Jobs
        BY <1>1, <2>2, Named DEF Jobs
    <2>4. SameCore(job, job') /\ job'.status = "blocked" /\ job'.intent = job.intent
        BY <1>0, <1>1, <2>2 DEF Jobs, SameCore, SameOps, SameAgent, SamePane
    <2> QED
        BY <2>1, <2>3, <2>4, WorkerStops DEF AgentAnswers, Quiet, Terminal
<1> QED
    BY <1>2, <1>4, <1>5, <1>6 DEF AgentAnswers, Writes

\* The session is lost.
LEMMA AgentLostKeeps == ASSUME Inv, AgentLost PROVE Inv'
    BY Fails DEF AgentLost, Quiet, Goes

\* A record with a fixed outcome.
LEMMA StagedFields ==
    ASSUME NEW j \in Jobs, NEW o \in Terminal
    PROVE  /\ Staged(j, o) \in Jobs /\ SameCore(j, Staged(j, o))
           /\ Staged(j, o).status = "reconciling" /\ Staged(j, o).intent = o
           /\ (Staged(j, o).owner <=> j.owner) /\ (Staged(j, o).user <=> j.user)
<1>1. PICK s : s = IF j.source = "pull" /\ j.worktree # "none" /\ j.pull # "quarantined"
                   THEN "retained" ELSE j.pull
    OBVIOUS
<1>2. s \in Pulls
    BY <1>1, JobFields, Named
<1>3. Staged(j, o) = [j EXCEPT !.intent = o, !.status = "reconciling", !.release = "pending",
                                !.pull = s]
    BY <1>1 DEF Staged
<1>4. Staged(j, o) \in Jobs
    BY ZenonT(30), <1>2, <1>3, Named DEF Jobs
<1> QED
    BY <1>3, <1>4 DEF Jobs, SameCore, SameOps, SameAgent, SamePane

\* A new release takes the token from every other.
LEMMA NewTokenFields ==
    ASSUME Inv, NEW r \in Releasers, NEW s \in {"close", "stop"}, NewToken(r, s)
    PROVE  /\ rl' \in [Releasers -> Releases]
           /\ \A q \in Releasers : rl'[q].current => rl'[q].pc # "commit"
<1>1. PICK x : x = [Idle EXCEPT !.pc = s, !.current = TRUE, !.stopped = s # "stop"]
    OBVIOUS
<1>2. x \in Releases /\ x.pc # "commit"
    BY <1>1 DEF Idle, Releases
<1>3. rl \in [Releasers -> Releases]
    BY Typed
<1>4. rl' = [q \in Releasers |-> IF q = r THEN x ELSE [rl[q] EXCEPT !.current = FALSE]]
    BY <1>1 DEF NewToken
<1>5. \A q \in Releasers : [rl[q] EXCEPT !.current = FALSE] \in Releases
                           /\ ~[rl[q] EXCEPT !.current = FALSE].current
    BY <1>3, ReleaseFields
<1> QED
    BY <1>2, <1>4, <1>5

\* The worker fixes an outcome and begins to release.
LEMMA ConcludeKeeps ==
    ASSUME Inv, NEW p \in {"fail", "complete"}, NEW o \in Terminal, NEW m, Conclude(p, o, m)
    PROVE  Inv'
<1>0. PICK j, k : j = job /\ k = wk
    OBVIOUS
<1>1. j \in Jobs /\ k \in Workers
    BY <1>0, Typed
<1>2. CASE UNCHANGED <<job, rl>> /\ wk' = Off
    BY <1>2, Gone DEF Conclude
<1>3. CASE job' = Staged(job, o) /\ wk' = [wk EXCEPT !.pc = "cleanup"] /\ NewToken("worker", "close")
    <2>1. wk' \in Workers /\ wk'.pc = "cleanup"
        BY <1>0, <1>1, <1>3, GoFields DEF Places
    <2>2. /\ job' \in Jobs /\ SameCore(job, job') /\ job'.status = "reconciling"
          /\ job'.intent = o
        BY <1>0, <1>1, <1>3, StagedFields
    <2>3. /\ rl' \in [Releasers -> Releases]
          /\ \A q \in Releasers : rl'[q].current => rl'[q].pc # "commit"
        BY <1>3, NewTokenFields DEF Releasers
    <2>4. ReleaseTells'
        BY <2>2, <2>3 DEF ReleaseTells, Terminal
    <2>5. ~scan.launch
        BY DEF Inv, WorkerTells, Conclude
    <2>6. WorkerTells'
        BY <2>1, <2>2, <2>5, WorkerEnds DEF Conclude
    <2>7. StatusTells(job')
        BY <2>2 DEF StatusTells, Terminal
    <2> QED
        BY <2>1, <2>2, <2>3, <2>4, <2>6, <2>7, CoreStep, Typed DEF Conclude
<1> QED
    BY <1>2, <1>3 DEF Conclude

\* _worker_fail and _worker_complete.
LEMMA WorkerConcludes == ASSUME Inv, WorkerFails \/ WorkerCompletes PROVE Inv'
    BY ConcludeKeeps DEF WorkerFails, WorkerCompletes, Terminal

\* The worker ends after its release.
LEMMA WorkerExitsKeeps == ASSUME Inv, WorkerExits PROVE Inv'
    BY Gone DEF WorkerExits

\* The worker dies.
LEMMA WorkerCrashesKeeps == ASSUME Inv, WorkerCrashes PROVE Inv'
    BY Gone DEF WorkerCrashes

\* A step of the releases alone: no token is given and nothing is confirmed.
LEMMA ReleasesStep ==
    ASSUME Inv, rl' \in [Releasers -> Releases], scan' \in Scans, scan'.launch => scan.launch,
           UNCHANGED <<job, world, asked>>, wk' = wk \/ wk' = Off,
           \A q \in Releasers : rl'[q].current =>
             rl[q].current /\ (rl'[q].pc = "commit" => rl[q].pc = "commit"
                                                       /\ (rl'[q].confirmed => rl[q].confirmed))
    PROVE  Inv'
<1>1. ReleaseTells'
    BY DEF Inv, ReleaseTells
<1>2. WorkerTells'
    BY SameRecord, OffTyped, WorkerEnds DEF Inv, WorkerTells
<1> QED
    BY <1>1, <1>2, SameRecord, CoreStep, Typed, OffTyped DEF RecordTells

\* stop_worker.
LEMMA StopWorkerKeeps == ASSUME Inv, StopWorker PROVE Inv'
<1>1. rl \in [Releasers -> Releases] /\ "user" \in Releasers /\ "worker" \in Releasers
    BY Typed DEF Releasers
<1>2. PICK x : x = [rl["user"] EXCEPT !.pc = "close", !.stopped = TRUE]
    OBVIOUS
<1>3. PICK y : y = [rl["user"] EXCEPT !.pc = "close"]
    OBVIOUS
<1>4. rl["user"] \in Releases
    BY <1>1
<1>5. /\ x \in Releases /\ y \in Releases /\ x.pc = "close" /\ y.pc = "close"
      /\ (x.current <=> rl["user"].current) /\ (y.current <=> rl["user"].current)
    BY <1>2, <1>3, <1>4 DEF Releases
<1>6. \/ \A q \in Releasers : rl'[q] = IF q = "worker" THEN Idle
                                       ELSE IF q = "user" THEN x ELSE rl[q]
      \/ \A q \in Releasers : rl'[q] = IF q = "user" THEN y ELSE rl[q]
    BY <1>1, <1>2, <1>3 DEF StopWorker
<1>7. rl' \in [Releasers -> Releases]
    <2>1. rl' = [q \in Releasers |-> rl'[q]]
        BY <1>1 DEF StopWorker
    <2> QED
        BY <1>1, <1>5, <1>6, <2>1, ReleaseFields
<1>8. \A q \in Releasers : rl'[q].current =>
             rl[q].current /\ (rl'[q].pc = "commit" => rl[q].pc = "commit"
                                                       /\ (rl'[q].confirmed => rl[q].confirmed))
    BY <1>5, <1>6, ReleaseFields
<1> QED
    BY <1>7, <1>8, ReleasesStep, Typed DEF StopWorker

\* The daemon dies.
LEMMA DaemonCrashesKeeps == ASSUME Inv, DaemonCrashes PROVE Inv'
<1>1. rl \in [Releasers -> Releases] /\ "scan" \in Releasers
    BY Typed DEF Releasers
<1>2. \A q \in Releasers : rl'[q] = IF q = "scan" THEN Idle ELSE rl[q]
    BY <1>1 DEF DaemonCrashes
<1>3. rl' \in [Releasers -> Releases]
    BY <1>1, ReleaseFields DEF DaemonCrashes
<1>4. scan' \in Scans /\ ~scan'.launch
    BY DEF DaemonCrashes, Scans
<1> QED
    BY <1>2, <1>3, <1>4, ReleaseFields, ReleasesStep, Typed DEF DaemonCrashes

-----------------------------------------------------------------------------

\* The three kinds of things.
LEMMA KindsAre == "fork" \in Kinds /\ "clone" \in Kinds /\ "worktree" \in Kinds
    BY DEF Kinds

\* Panes and sessions are untouched by what becomes of repositories and checkouts.
LEMMA PanesAndSessionsKept ==
    ASSUME NEW j, NEW k, NEW w, NEW v, SameAgent(j, k), SamePane(j, k),
           v.pane = w.pane, v.session = w.session, AgentTells(j, w), PaneTells(j, w)
    PROVE  AgentTells(k, v) /\ PaneTells(k, v)
<1>1. AgentTells(k, v)
    BY DEF SameAgent, AgentTells, Busy, Quiescent
<1>2. PaneTells(k, v)
    BY DEF SameAgent, SamePane, PaneTells, Unsure
<1> QED
    BY <1>1, <1>2

\* A step about the repository or the checkout.
LEMMA OpsStep ==
    ASSUME Inv, job' \in Jobs, wk' \in Workers, UNCHANGED rl, scan' \in Scans,
           world' \in Worlds, asked' \in [Kinds -> 0..1],
           SameAgent(job, job'), SamePane(job, job'), job'.intent = job.intent,
           world'.pane = world.pane, world'.session = world.session,
           AskTells(job', asked'), SourceTells(job', world'), TriesTell(job', world'),
           StatusTells(job'), WorkerTells'
    PROVE  Inv'
<1>1. PICK j, k, w, v : j = job /\ k = job' /\ w = world /\ v = world'
    OBVIOUS
<1>2. AgentTells(k, v) /\ PaneTells(k, v)
    BY <1>1, PanesAndSessionsKept, Typed DEF RecordTells
<1>3. ReleaseTells'
    BY ReleaseKept DEF SameAgent, Busy
<1> QED
    BY <1>1, <1>2, <1>3, InvNext, Typed DEF RecordTells

\* What is not asked about keeps its status.
LEMMA StatusKept ==
    ASSUME NEW j, NEW k, StatusTells(j), SameAgent(j, k), SamePane(j, k),
           \/ k.status = j.status /\ (k.owner => j.owner)
           \/ k.status \notin Terminal \cup {"asking"}
    PROVE  StatusTells(k)
    BY DEF StatusTells, SameAgent, SamePane, Quiescent, Unsure

\* The worker stops with another word about the repository or the checkout.
LEMMA OpsEnd ==
    ASSUME Inv, SamePane(job, job'), wk'.pc \in {"off", "fail"}, UNCHANGED scan, wk.pc # "off",
           job'.status = "asking" => wk'.pc = "off"
    PROVE  WorkerTells'
<1>1. ~scan.launch
    BY DEF Inv, WorkerTells
<1> QED
    BY <1>1 DEF WorkerTells, Early, Late

\* The worker asks before it makes a fork or a clone.
LEMMA AskKeeps == ASSUME Inv, Ask PROVE Inv'
<1>0. PICK j, k, w : j = job /\ k = wk /\ w = world
    OBVIOUS
<1>1. j \in Jobs /\ k \in Workers /\ RecordTells(j, w, asked)
    BY <1>0, Typed
<1>2. CASE UNCHANGED job /\ wk' = Off
    BY <1>2, Gone DEF Ask, Quiet
<1>3. CASE /\ job' = [NoWorker(job) EXCEPT !.status = "asking",
                          !.clone = IF job.source = "clone" THEN "planned" ELSE @]
           /\ wk' = [wk EXCEPT !.pc = "off", !.outer = FALSE]
    <2>1. PICK s : s = IF j.source = "clone" THEN "planned" ELSE j.clone
        OBVIOUS
    <2>2. s \in OpStates
        BY <1>1, <2>1, JobFields, Named
    <2>3. job' = [[j EXCEPT !.owner = FALSE] EXCEPT !.status = "asking", !.clone = s]
        BY <1>0, <1>3, <2>1 DEF NoWorker
    <2>4. job' \in Jobs
        BY <1>1, <2>2, <2>3, Named DEF Jobs
    <2>5. /\ SameAgent(job, job') /\ SamePane(job, job') /\ job'.intent = job.intent
          /\ job'.status = "asking" /\ ~job'.owner /\ job'.clone = s
          /\ job'.source = job.source /\ job'.fork = job.fork
          /\ job'.worktree = job.worktree /\ (job'.reconcile <=> job.reconcile)
          /\ job'.tries = job.tries /\ job'.absent = job.absent
        BY <1>0, <1>1, <2>3 DEF Jobs, SameAgent, SamePane
    <2>6. wk' \in Workers /\ wk'.pc = "off"
        BY <1>0, <1>1, <1>3, WroteFields DEF Places
    <2>7. AskTells(job', asked')
        BY <1>0, <1>1, <2>1, <2>5 DEF Ask, Quiet, RecordTells, AskTells, ForkAskable, CheckoutPlannable
    <2>8. SourceTells(job', world') /\ TriesTell(job', world')
        BY <1>0, <1>1, <2>5 DEF Ask, Quiet, RecordTells, SourceTells, TriesTell, SameAgent,
           Acquired, Open, CheckoutPlannable
    <2>9. StatusTells(job')
        BY <2>5 DEF Ask, Inv, WorkerTells, Early, StatusTells, SameAgent, SamePane, Quiescent,
           Unsure, Terminal
    <2>10. WorkerTells'
        BY <2>5, <2>6, OpsEnd DEF Ask, Quiet
    <2> QED
        BY <2>4, <2>5, <2>6, <2>7, <2>8, <2>9, <2>10, OpsStep, Typed DEF Ask, Quiet
<1> QED
    BY <1>2, <1>3 DEF Ask, Writes

\* A record with another fork, clone or checkout.
LEMMA ForkFields ==
    ASSUME NEW j \in Jobs, NEW s \in OpStates
    PROVE  LET k == [j EXCEPT !.fork = s]
           IN  /\ k \in Jobs /\ SameAgent(j, k) /\ SamePane(j, k) /\ SameLife(j, k)
               /\ k.source = j.source /\ k.fork = s /\ k.clone = j.clone
               /\ k.worktree = j.worktree /\ (k.reconcile <=> j.reconcile)
               /\ k.tries = j.tries /\ k.absent = j.absent
    BY DEF Jobs, SameAgent, SamePane, SameLife

\* A worker with an unsettled fork has nothing else.
LEMMA ForkFirst ==
    ASSUME Inv, job.source = "fork", job.fork # "exists"
    PROVE  job.worktree = "none" /\ job.agent = "none" /\ ~job.reconcile /\ ~Open(job, world)
<1>1. job.worktree = "none" /\ ~Acquired(job, world)
    BY DEF Inv, RecordTells, SourceTells, Acquired
<1> QED
    BY <1>1 DEF Inv, RecordTells, SourceTells, Open, Doubtful

\* The record's part for a fork that changes while nothing else is there.
LEMMA ForkChanges ==
    ASSUME Inv, job.source = "fork", job.fork # "exists", job'.source = "fork",
           job'.worktree = job.worktree, job'.agent = job.agent, (job'.reconcile <=> job.reconcile),
           job'.clone = job.clone, job'.fork # "none", job'.fork = "planned" => ForkAskable(job),
           asked'["clone"] = asked["clone"], asked'["worktree"] = asked["worktree"],
           ForkAskable(job) /\ ForkAskable(job') => asked'["fork"] = asked["fork"],
           job'.absent \in Nat, job'.tries \in Nat,
           job'.absent <= UncertainMax,
           job'.fork \in Doubtful => job'.tries < UncertainMax /\ job'.absent <= job'.tries
    PROVE  AskTells(job', asked') /\ SourceTells(job', world') /\ TriesTell(job', world')
<1>1. job.worktree = "none" /\ job.agent = "none" /\ ~job.reconcile
    BY ForkFirst
<1>2. AskTells(job', asked')
    BY <1>1 DEF Inv, RecordTells, AskTells, ForkAskable, CheckoutPlannable
<1>3. SourceTells(job', world')
    BY <1>1 DEF SourceTells, Checked
<1>4. TriesTell(job', world')
    BY <1>1 DEF TriesTell, Open, Doubtful
<1> QED
    BY <1>2, <1>3, <1>4

\* A fork is planned, found or given up.
LEMMA PlanForkKeeps == ASSUME Inv, PlanFork PROVE Inv'
<1>0. PICK j, k, w : j = job /\ k = wk /\ w = world
    OBVIOUS
<1>1. j \in Jobs /\ k \in Workers /\ RecordTells(j, w, asked)
    BY <1>0, Typed
<1>2. CASE UNCHANGED job /\ wk' = Off
    BY <1>2, Gone DEF PlanFork, Quiet
<1>3. CASE UNCHANGED job /\ Goes("fail")
    BY <1>3, Fails DEF PlanFork, Quiet, Goes
<1>4. Quiescent(job) /\ ~Unsure(job) /\ ~job.user /\ ~scan.launch /\ job.status # "asking"
    BY NotUsers DEF PlanFork, Inv, WorkerTells, Early
<1>5. CASE job.fork = "exists" /\ UNCHANGED job /\ Goes("materialize")
    <2>1. wk' \in Workers /\ wk'.pc = "materialize"
        BY <1>0, <1>1, <1>5, GoFields DEF Goes, Places, Early
    <2> QED
        BY <1>4, <1>5, <2>1, WorkerMoves, SameRecord, Typed DEF PlanFork, Quiet, Late
<1>6. CASE /\ ForkAskable(job) /\ job' = [job EXCEPT !.fork = "planned"]
           /\ wk' = [wk EXCEPT !.pc = "fork", !.outer = TRUE]
    <2>1. wk' \in Workers /\ wk'.pc = "fork"
        BY <1>0, <1>1, <1>6, WroteFields DEF Places, Early
    <2>2. /\ job' \in Jobs /\ SameAgent(job, job') /\ SamePane(job, job')
          /\ SameLife(job, job')
          /\ job'.source = job.source /\ job'.fork = "planned" /\ job'.clone = job.clone
          /\ job'.worktree = job.worktree /\ (job'.reconcile <=> job.reconcile)
          /\ job'.tries = job.tries /\ job'.absent = job.absent
        BY <1>0, <1>1, <1>6, ForkFields, Named
    <2>3. j.tries \in 0..UncertainMax /\ j.absent \in 0..2 * UncertainMax
        BY <1>1, JobFields
    <2>4. job.absent <= UncertainMax
        BY DEF Inv, RecordTells, TriesTell
    <2>5. AskTells(job', asked') /\ SourceTells(job', world') /\ TriesTell(job', world')
        BY <1>0, <1>6, <2>2, <2>3, <2>4, ForkChanges, Constants
        DEF PlanFork, Quiet, ForkAskable, SameAgent, Doubtful
    <2>6. StatusTells(job')
        BY <1>0, <1>1, <2>2, StatusKept DEF RecordTells, SameLife
    <2>7. WorkerTells'
        BY <1>4, <2>1, <2>2 DEF PlanFork, Quiet, WorkerTells, Late, SameAgent, SamePane, SameLife,
           Quiescent, Unsure
    <2> QED
        BY <2>1, <2>2, <2>5, <2>6, <2>7, OpsStep, Typed DEF PlanFork, Quiet, SameLife
<1> QED
    BY <1>2, <1>3, <1>5, <1>6 DEF PlanFork, Writes

\* How often a thing was asked for, when one count changes.
LEMMA AskedFields ==
    ASSUME NEW a \in [Kinds -> 0..1], NEW k \in Kinds, NEW n \in 0..1
    PROVE  /\ [a EXCEPT ![k] = n] \in [Kinds -> 0..1]
           /\ \A i \in Kinds : [a EXCEPT ![k] = n][i] = IF i = k THEN n ELSE a[i]
    OBVIOUS

\* A worker that is refused while its request fails or lands.
LEMMA OpsGone ==
    ASSUME Inv, UNCHANGED <<job, rl, scan>>, wk' = Off, world' \in Worlds,
           world'.pane = world.pane, world'.session = world.session,
           (world'.thing["worktree"] = "yes") <=> (world.thing["worktree"] = "yes"),
           asked' \in [Kinds -> 0..1], \A i \in Kinds : asked'[i] = asked[i] \/ asked'[i] = 0
    PROVE  Inv'
<1>1. SameAgent(job, job') /\ SamePane(job, job') /\ SameCore(job, job')
    BY DEF SameAgent, SamePane, SameCore, SameOps
<1>2. AskTells(job', asked')
    BY KindsAre DEF Inv, RecordTells, AskTells
<1>3. SourceTells(job', world') /\ TriesTell(job', world')
    BY DEF Inv, RecordTells, SourceTells, TriesTell, Open, Acquired
<1>4. WorkerTells'
    BY <1>1, OffTyped, WorkerEnds
<1> QED
    BY <1>1, <1>2, <1>3, <1>4, OpsStep, Typed, OffTyped DEF RecordTells

\* The fork is recorded as asked for, and asked for.
LEMMA SubmitForkKeeps == ASSUME Inv, SubmitFork PROVE Inv'
<1>0. PICK j, k, w, a : j = job /\ k = wk /\ w = world /\ a = asked
    OBVIOUS
<1>1. /\ j \in Jobs /\ k \in Workers /\ w \in Worlds /\ a \in [Kinds -> 0..1]
      /\ RecordTells(j, w, a)
    BY <1>0, Typed
<1>2. CASE ~CanWrite
    BY <1>2, Gone DEF SubmitFork, Rest, Writes
<1>3. /\ Quiescent(job) /\ ~Unsure(job) /\ ~job.user /\ ~scan.launch /\ job.status # "asking"
      /\ job.source = "fork" /\ job.fork = "planned"
    BY NotUsers DEF SubmitFork, Inv, WorkerTells, Early
<1>4. CASE /\ CanWrite /\ UNCHANGED <<world, asked>>
           /\ job' = [job EXCEPT !.fork = "failed"]
           /\ wk' = [wk EXCEPT !.pc = "fail", !.outer = FALSE]
    <2>1. wk' \in Workers /\ wk'.pc = "fail"
        BY <1>0, <1>1, <1>4, WroteFields DEF Places
    <2>2. /\ job' \in Jobs /\ SameAgent(job, job') /\ SamePane(job, job')
          /\ SameLife(job, job')
          /\ job'.source = job.source /\ job'.fork = "failed" /\ job'.clone = job.clone
          /\ job'.worktree = job.worktree /\ (job'.reconcile <=> job.reconcile)
          /\ job'.tries = job.tries /\ job'.absent = job.absent
        BY <1>0, <1>1, <1>4, ForkFields, Named
    <2>3. j.tries \in 0..UncertainMax /\ j.absent \in 0..2 * UncertainMax
        BY <1>1, JobFields
    <2>4. job.absent <= UncertainMax
        BY DEF Inv, RecordTells, TriesTell
    <2>5. AskTells(job', asked') /\ SourceTells(job', world') /\ TriesTell(job', world')
        BY <1>0, <1>3, <1>4, <2>2, <2>3, <2>4, ForkChanges, Constants
        DEF ForkAskable, SameAgent, Doubtful
    <2>6. StatusTells(job')
        BY <1>0, <1>1, <2>2, StatusKept DEF RecordTells, SameLife
    <2>7. WorkerTells'
        BY <1>3, <2>1, <2>2, OpsEnd DEF SubmitFork, Rest, SameLife
    <2> QED
        BY <1>4, <2>1, <2>2, <2>5, <2>6, <2>7, OpsStep, Typed DEF SubmitFork, Rest, SameLife
<1>5. CASE /\ CanWrite
           /\ job' = [job EXCEPT !.fork = "submitted", !.tries = 0, !.absent = 0]
           /\ wk' = [wk EXCEPT !.pc = "forking", !.outer = FALSE]
           /\ world' = [world EXCEPT !.thing["fork"] = "asked"]
           /\ asked' = [asked EXCEPT !["fork"] = @ + 1]
    <2>1. wk' \in Workers /\ wk'.pc = "forking"
        BY <1>0, <1>1, <1>5, WroteFields DEF Places, Early
    <2>2. job' = [j EXCEPT !.fork = "submitted", !.tries = 0, !.absent = 0]
        BY <1>0, <1>5
    <2>3. 0 \in Tries /\ 0 \in Absents
        BY Constants DEF Tries, Absents
    <2>4. job' \in Jobs
        BY <1>1, <2>2, <2>3, Named DEF Jobs
    <2>5. /\ SameAgent(job, job') /\ SamePane(job, job') /\ SameLife(job, job')
          /\ job'.source = job.source /\ job'.fork = "submitted" /\ job'.clone = job.clone
          /\ job'.worktree = job.worktree /\ (job'.reconcile <=> job.reconcile)
          /\ job'.tries = 0 /\ job'.absent = 0
        BY <1>0, <1>1, <2>2 DEF Jobs, SameAgent, SamePane, SameLife
    <2>6. a["fork"] = 0
        BY <1>0, <1>1, <1>3 DEF RecordTells, AskTells, ForkAskable
    <2>7. asked' = [a EXCEPT !["fork"] = 1]
        BY <1>0, <1>5, <2>6
    <2>8. asked' \in [Kinds -> 0..1] /\ asked'["clone"] = asked["clone"] /\ asked'["worktree"] = asked["worktree"]
        BY <1>0, <1>1, <2>7, KindsAre, AskedFields
    <2>9. /\ world' \in Worlds /\ world'.pane = world.pane /\ world'.session = world.session
          /\ world'.thing["worktree"] = world.thing["worktree"]
        BY <1>0, <1>1, <1>5, KindsAre DEF Worlds
    <2>10. AskTells(job', asked') /\ SourceTells(job', world') /\ TriesTell(job', world')
        BY <1>3, <2>5, <2>8, ForkChanges, Constants DEF ForkAskable, SameAgent
    <2>11. StatusTells(job')
        BY <1>0, <1>1, <2>5, StatusKept DEF RecordTells, SameLife
    <2>12. WorkerTells'
        BY <1>3, <2>1, <2>5 DEF SubmitFork, Rest, WorkerTells, Late, SameAgent, SamePane, SameLife,
           Quiescent, Unsure
    <2> QED
        BY <2>1, <2>4, <2>5, <2>8, <2>9, <2>10, <2>11, <2>12, OpsStep, Typed
        DEF SubmitFork, Rest, SameLife
<1> QED
    BY <1>2, <1>4, <1>5 DEF SubmitFork, Writes

\* What the worker heard of its fork is recorded while nothing else is there.
LEMMA ForkSettles ==
    ASSUME Inv, CanWrite, wk.pc = "forking", UNCHANGED <<rl, scan, asked>>,
           NEW s \in {"exists", "ambiguous", "failed_observing"},
           NEW l \in {"materialize", "fail"}, l = "materialize" => s = "exists",
           NEW o \in BOOLEAN, job' = [job EXCEPT !.fork = s],
           wk' = [wk EXCEPT !.pc = l, !.outer = o],
           world' \in Worlds, world'.pane = world.pane, world'.session = world.session
    PROVE  Inv'
<1>0. PICK j, k, w, a : j = job /\ k = wk /\ w = world /\ a = asked
    OBVIOUS
<1>1. /\ j \in Jobs /\ k \in Workers /\ w \in Worlds /\ a \in [Kinds -> 0..1]
      /\ RecordTells(j, w, a)
    BY <1>0, Typed
<1>3. /\ Quiescent(job) /\ ~Unsure(job) /\ ~job.user /\ ~scan.launch /\ job.status # "asking"
      /\ job.source = "fork" /\ job.fork = "submitted"
    BY NotUsers DEF CanWrite, Inv, WorkerTells, Early
<1>2. l \in Places
    BY DEF Places, Early
<1>4. wk' \in Workers /\ wk'.pc = l
    BY <1>0, <1>1, <1>2 DEF Workers
<1>5. /\ job' \in Jobs /\ SameAgent(job, job') /\ SamePane(job, job') /\ SameLife(job, job')
      /\ job'.source = job.source /\ job'.fork = s /\ job'.clone = job.clone
      /\ job'.worktree = job.worktree /\ (job'.reconcile <=> job.reconcile)
      /\ job'.tries = job.tries /\ job'.absent = job.absent
    BY <1>0, <1>1, ForkFields, Named
<1>6. j.tries \in 0..UncertainMax /\ j.absent \in 0..2 * UncertainMax
    BY <1>1, JobFields
<1>7. job.tries < UncertainMax /\ job.absent <= job.tries
    BY <1>3 DEF Inv, RecordTells, TriesTell, Doubtful
<1>8. AskTells(job', asked') /\ SourceTells(job', world') /\ TriesTell(job', world')
    BY <1>0, <1>3, <1>5, <1>6, <1>7, ForkChanges, Constants DEF ForkAskable, SameAgent, Doubtful
<1>9. StatusTells(job')
    BY <1>0, <1>1, <1>5, StatusKept DEF RecordTells, SameLife
<1>10. WorkerTells'
    BY <1>3, <1>4, <1>5 DEF WorkerTells, Early, Late, SameAgent, SamePane, SameLife,
       Quiescent, Unsure
<1> QED
    BY <1>4, <1>5, <1>8, <1>9, <1>10, OpsStep, Typed DEF SameLife

\* The fork is there, in doubt, or failed and is looked for.
LEMMA ForkAnsweredKeeps == ASSUME Inv, ForkAnswered PROVE Inv'
<1>0. PICK w, v : w = world /\ v = "no"
    OBVIOUS
<1>1. w \in Worlds
    BY <1>0, Typed
<1>2. world' \in Worlds /\ world'.pane = world.pane /\ world'.session = world.session
      /\ world'.thing["worktree"] = world.thing["worktree"]
    <2>1. CASE UNCHANGED world
        BY <2>1, Typed
    <2>2. CASE world' = [world EXCEPT !.thing["fork"] = "no"]
        BY <2>2, <1>0, <1>1, KindsAre DEF Worlds
    <2> QED
        BY <2>1, <2>2 DEF ForkAnswered
<1>3. CASE ~CanWrite
    BY <1>2, <1>3, OpsGone, Typed DEF ForkAnswered, Rest, Writes
<1>4. CASE CanWrite
    BY <1>2, <1>4, ForkSettles DEF ForkAnswered, Rest, Writes
<1> QED
    BY <1>3, <1>4

\* The record's part for a clone that changes.
LEMMA CloneChanges ==
    ASSUME Inv, job.source = "clone", job'.source = "clone", job'.fork = job.fork,
           job'.worktree = job.worktree, job'.agent = job.agent,
           job'.tries = job.tries, job'.absent = job.absent,
           job'.clone \in {"none", "planned"} => asked'["clone"] = 0,
           asked'["fork"] = asked["fork"], asked'["worktree"] = asked["worktree"],
           world'.thing["worktree"] = world.thing["worktree"]
    PROVE  AskTells(job', asked') /\ SourceTells(job', world') /\ TriesTell(job', world')
<1>1. job.worktree \in {"none", "ready"} /\ job.fork = "none"
    BY DEF Inv, RecordTells, SourceTells, Checked
<1>2. AskTells(job', asked')
    BY DEF Inv, RecordTells, AskTells, ForkAskable, CheckoutPlannable
<1>3. SourceTells(job', world')
    BY <1>1 DEF SourceTells, Acquired, Open, Checked, Doubtful
<1>4. TriesTell(job', world')
    BY <1>1 DEF Inv, RecordTells, TriesTell, Open, Doubtful
<1> QED
    BY <1>2, <1>3, <1>4

\* The clone is recorded as submitted, and begins.
LEMMA SubmitCloneKeeps == ASSUME Inv, SubmitClone PROVE Inv'
<1>0. PICK j, k, w, a : j = job /\ k = wk /\ w = world /\ a = asked
    OBVIOUS
<1>1. /\ j \in Jobs /\ k \in Workers /\ w \in Worlds /\ a \in [Kinds -> 0..1]
      /\ RecordTells(j, w, a)
    BY <1>0, Typed
<1>2. CASE ~CanWrite
    BY <1>2, Gone DEF SubmitClone, Rest, Writes
<1>3. /\ Quiescent(job) /\ ~Unsure(job) /\ ~job.user /\ ~scan.launch /\ job.status # "asking"
    BY NotUsers DEF SubmitClone, Inv, WorkerTells, Early
<1>5. CASE CanWrite
    <2>0. /\ job' = [j EXCEPT !.clone = "submitted"]
          /\ wk' = [wk EXCEPT !.pc = "cloning", !.outer = TRUE]
          /\ world' = [w EXCEPT !.thing["clone"] = "asked"]
        BY <1>0, <1>5 DEF SubmitClone, Writes
    <2>1. wk' \in Workers /\ wk'.pc = "cloning"
        BY <1>0, <1>1, <2>0, WroteFields DEF Places, Early
    <2>4. job' \in Jobs
        BY <1>1, <2>0, Named DEF Jobs
    <2>5. /\ SameAgent(job, job') /\ SamePane(job, job') /\ SameLife(job, job')
          /\ job'.source = job.source /\ job'.fork = job.fork /\ job'.clone = "submitted"
          /\ job'.worktree = job.worktree /\ (job'.reconcile <=> job.reconcile)
          /\ job'.tries = job.tries /\ job'.absent = job.absent
        BY <1>0, <1>1, <2>0 DEF Jobs, SameAgent, SamePane, SameLife
    <2>6. a["clone"] = 0
        BY <1>0, <1>1 DEF SubmitClone, RecordTells, AskTells
    <2>7. asked' = [a EXCEPT !["clone"] = 1]
        BY <1>0, <1>5, <2>6 DEF SubmitClone
    <2>8. /\ asked' \in [Kinds -> 0..1] /\ asked'["clone"] = 1
          /\ asked'["fork"] = asked["fork"] /\ asked'["worktree"] = asked["worktree"]
        BY <1>0, <1>1, <2>7, KindsAre, AskedFields
    <2>9. /\ world' \in Worlds /\ world'.pane = world.pane /\ world'.session = world.session
          /\ world'.thing["worktree"] = world.thing["worktree"]
        BY <1>0, <1>1, <2>0, KindsAre DEF Worlds
    <2>10. AskTells(job', asked') /\ SourceTells(job', world') /\ TriesTell(job', world')
        BY <2>5, <2>8, <2>9, CloneChanges DEF SameAgent, SubmitClone
    <2>11. StatusTells(job')
        BY <1>0, <1>1, <2>5, StatusKept DEF RecordTells, SameLife
    <2>12. WorkerTells'
        BY <1>3, <2>1, <2>5, <2>8 DEF SubmitClone, Rest, WorkerTells, Late, SameAgent, SamePane,
           SameLife, Quiescent, Unsure
    <2> QED
        BY <2>1, <2>4, <2>5, <2>8, <2>9, <2>10, <2>11, <2>12, OpsStep, Typed
        DEF SubmitClone, Rest, SameLife
<1> QED
    BY <1>2, <1>5

\* The clone is there, never started, or is left to recovery.
LEMMA CloneAnsweredKeeps == ASSUME Inv, CloneAnswered PROVE Inv'
<1>0. PICK j, k, w, a : j = job /\ k = wk /\ w = world /\ a = asked
    OBVIOUS
<1>1. /\ j \in Jobs /\ k \in Workers /\ w \in Worlds /\ a \in [Kinds -> 0..1]
      /\ RecordTells(j, w, a)
    BY <1>0, Typed
<1>2. /\ Quiescent(job) /\ ~Unsure(job) /\ ~job.user /\ ~scan.launch /\ job.status # "asking"
      /\ a["clone"] = 1 /\ job.source = "clone"
    BY <1>0, NotUsers DEF CloneAnswered, Inv, WorkerTells, Early
<1>3. /\ asked' \in [Kinds -> 0..1] /\ (asked'["clone"] = asked["clone"] \/ asked'["clone"] = 0)
      /\ asked'["fork"] = asked["fork"] /\ asked'["worktree"] = asked["worktree"]
    <2>1. CASE UNCHANGED asked
        BY <1>0, <1>1, <2>1
    <2>2. CASE asked' = [asked EXCEPT !["clone"] = @ - 1]
        <3>0. a["clone"] - 1 = 0
            BY <1>2
        <3>1. asked' = [a EXCEPT !["clone"] = 0]
            BY <1>0, <2>2, <3>0
        <3> QED
            BY <1>0, <1>1, <3>1, KindsAre, AskedFields
    <2> QED
        BY <2>1, <2>2 DEF CloneAnswered
<1>4. /\ world' \in Worlds /\ world'.pane = world.pane /\ world'.session = world.session
      /\ world'.thing["worktree"] = world.thing["worktree"]
    <2>1. CASE UNCHANGED world
        BY <2>1, Typed
    <2>2. CASE world' = [world EXCEPT !.thing["clone"] = "no"]
        BY <2>2, <1>0, <1>1, KindsAre DEF Worlds
    <2> QED
        BY <2>1, <2>2 DEF CloneAnswered
<1>5. CASE ~CanWrite
    <2>1. \A i \in Kinds : asked'[i] = asked[i] \/ asked'[i] = 0
        BY <1>3 DEF Kinds
    <2> QED
        BY <1>3, <1>4, <1>5, <2>1, OpsGone DEF CloneAnswered, Rest, Writes
<1>6. ASSUME job' \in Jobs, SameAgent(job, job'), SamePane(job, job'), job'.intent = job.intent,
             job'.source = job.source, job'.fork = job.fork, job'.worktree = job.worktree,
             job'.tries = job.tries, job'.absent = job.absent,
             job'.clone \in {"none", "planned"} => asked'["clone"] = 0,
             StatusTells(job'), job'.status # "asking", ~job'.user,
             wk' \in Workers, wk'.pc \in {"off", "pane"}
      PROVE  Inv'
    <2>1. AskTells(job', asked') /\ SourceTells(job', world') /\ TriesTell(job', world')
        BY <1>2, <1>3, <1>4, <1>6, CloneChanges DEF SameAgent
    <2>2. Acquired(job', world')
        BY <1>2, <1>6, <2>1 DEF SourceTells, Acquired, Open, Checked, Doubtful
    <2>3. WorkerTells'
        BY <1>2, <1>6, <2>2 DEF CloneAnswered, Rest, WorkerTells, Early, Late, SameAgent, SamePane,
           Quiescent, Unsure
    <2> QED
        BY <1>3, <1>4, <1>6, <2>1, <2>3, OpsStep, Typed DEF CloneAnswered, Rest
<1>7. CASE /\ job' = [job EXCEPT !.clone = "cloned", !.reconcile = FALSE]
           /\ wk' = [wk EXCEPT !.pc = "pane", !.outer = TRUE]
    <2>1. job' = [j EXCEPT !.clone = "cloned", !.reconcile = FALSE]
        BY <1>0, <1>7
    <2>2. job' \in Jobs
        BY <1>1, <2>1, Named DEF Jobs
    <2>3. /\ SameAgent(job, job') /\ SamePane(job, job') /\ SameLife(job, job')
          /\ job'.source = job.source /\ job'.fork = job.fork /\ job'.clone = "cloned"
          /\ job'.worktree = job.worktree
          /\ job'.tries = job.tries /\ job'.absent = job.absent
        BY <1>0, <1>1, <2>1 DEF Jobs, SameAgent, SamePane, SameLife
    <2>4. wk' \in Workers /\ wk'.pc = "pane"
        BY <1>0, <1>1, <1>7, WroteFields DEF Places, Late
    <2>5. StatusTells(job')
        BY <1>0, <1>1, <2>3, StatusKept DEF RecordTells, SameLife
    <2> QED
        BY <1>2, <1>6, <2>2, <2>3, <2>4, <2>5 DEF SameLife
<1>8. CASE /\ job' = [Requeued(job, FALSE) EXCEPT !.clone = "planned"] /\ asked' = [asked EXCEPT !["clone"] = @ - 1]
           /\ wk' = [wk EXCEPT !.pc = "off", !.outer = FALSE]
    <2>1. job' = [[[j EXCEPT !.owner = FALSE] EXCEPT !.status = "queued", !.reconcile = FALSE]
                    EXCEPT !.clone = "planned"]
        BY <1>0, <1>8 DEF Requeued, NoWorker
    <2>2. job' \in Jobs
        BY <1>1, <2>1, Named DEF Jobs
    <2>3. /\ SameAgent(job, job') /\ SamePane(job, job') /\ job'.status = "queued"
          /\ job'.intent = job.intent /\ (job'.user <=> job.user)
          /\ job'.source = job.source /\ job'.fork = job.fork /\ job'.clone = "planned"
          /\ job'.worktree = job.worktree
          /\ job'.tries = job.tries /\ job'.absent = job.absent
        BY <1>0, <1>1, <2>1 DEF Jobs, SameAgent, SamePane
    <2>4. wk' \in Workers /\ wk'.pc = "off"
        BY <1>0, <1>1, <1>8, WroteFields DEF Places
    <2>5. StatusTells(job')
        BY <1>0, <1>1, <2>3, StatusKept DEF RecordTells, Terminal
    <2>6. asked'["clone"] = 0
        BY <1>0, <1>1, <1>2, <1>8, KindsAre
    <2> QED
        BY <1>2, <1>6, <2>2, <2>3, <2>4, <2>5, <2>6
<1>9. CASE /\ job' = [Requeued(job, TRUE) EXCEPT !.clone = "ambiguous"]
           /\ wk' = [wk EXCEPT !.pc = "off", !.outer = FALSE]
    <2>1. job' = [[[j EXCEPT !.owner = FALSE] EXCEPT !.status = "queued", !.reconcile = TRUE]
                    EXCEPT !.clone = "ambiguous"]
        BY <1>0, <1>9 DEF Requeued, NoWorker
    <2>2. job' \in Jobs
        BY <1>1, <2>1, Named DEF Jobs
    <2>3. /\ SameAgent(job, job') /\ SamePane(job, job') /\ job'.status = "queued"
          /\ job'.intent = job.intent /\ (job'.user <=> job.user)
          /\ job'.source = job.source /\ job'.fork = job.fork /\ job'.clone = "ambiguous"
          /\ job'.worktree = job.worktree
          /\ job'.tries = job.tries /\ job'.absent = job.absent
        BY <1>0, <1>1, <2>1 DEF Jobs, SameAgent, SamePane
    <2>4. wk' \in Workers /\ wk'.pc = "off"
        BY <1>0, <1>1, <1>9, WroteFields DEF Places
    <2>5. StatusTells(job')
        BY <1>0, <1>1, <2>3, StatusKept DEF RecordTells, Terminal
    <2> QED
        BY <1>2, <1>6, <2>2, <2>3, <2>4, <2>5
<1> QED
    BY <1>5, <1>7, <1>8, <1>9 DEF CloneAnswered, Writes

-----------------------------------------------------------------------------

\* A worker before or at its checkout has nothing in doubt but the checkout.
LEMMA AtCheckout ==
    ASSUME Inv, wk.pc \in {"worktree", "settle", "creating"}
    PROVE  /\ Quiescent(job) /\ ~Unsure(job) /\ ~job.user /\ ~scan.launch /\ job.status # "asking"
           /\ job.source \in Checked /\ (job.source = "fork" => job.fork = "exists")
           /\ job.fork \in {"none", "exists"} /\ job.fork \notin Doubtful
           /\ job.agent \notin Doubtful
<1>1. /\ Quiescent(job) /\ ~Unsure(job) /\ ~job.user /\ ~scan.launch /\ job.status # "asking"
      /\ job.source \in Checked /\ (job.source = "fork" => job.fork = "exists")
    BY NotUsers DEF Inv, WorkerTells, Early
<1>2. job.fork \in {"none", "exists"}
    BY <1>1 DEF Inv, RecordTells, SourceTells
<1> QED
    BY <1>1, <1>2 DEF Quiescent, Doubtful

\* The record's part for a checkout that changes.
LEMMA CheckoutChanges ==
    ASSUME Inv, wk.pc \in {"worktree", "settle", "creating"},
           job'.source = job.source, job'.fork = job.fork, job'.clone = job.clone,
           job'.agent = job.agent, (job'.reconcile <=> job.reconcile), job'.worktree # "none",
           job'.worktree = "quarantined" => world'.thing["worktree"] = "yes",
           job'.worktree = "planned" => CheckoutPlannable(job) /\ asked'["worktree"] = asked["worktree"],
           \/ job.agent = "none" /\ ~job.reconcile
           \/ ~Open(job', world') /\ ~CheckoutPlannable(job'),
           asked'["fork"] = asked["fork"], asked'["clone"] = asked["clone"],
           job'.absent <= UncertainMax,
           Open(job', world') => job'.tries < UncertainMax /\ job'.absent <= job'.tries
    PROVE  AskTells(job', asked') /\ SourceTells(job', world') /\ TriesTell(job', world')
<1>1. AskTells(job', asked')
    BY DEF Inv, RecordTells, AskTells, ForkAskable, CheckoutPlannable
<1>2. SourceTells(job', world')
    <2>1. job'.source # "fork" => job'.fork = "none"
        BY DEF Inv, RecordTells, SourceTells
    <2>2. job.reconcile \/ job.agent # "none" => ~Open(job', world') /\ ~CheckoutPlannable(job')
        OBVIOUS
    <2> QED
        BY <2>1, <2>2, AtCheckout DEF SourceTells, Acquired
<1>3. TriesTell(job', world')
    BY AtCheckout DEF TriesTell
<1> QED
    BY <1>1, <1>2, <1>3

\* A step about the checkout.
LEMMA CheckoutStep ==
    ASSUME Inv, wk.pc \in {"worktree", "settle", "creating"}, UNCHANGED <<rl, scan>>,
           job' \in Jobs, wk' \in Workers, world' \in Worlds, asked' \in [Kinds -> 0..1],
           SameAgent(job, job'), SamePane(job, job'), SameLife(job, job'),
           job'.source = job.source, job'.fork = job.fork, job'.clone = job.clone,
           (job'.reconcile <=> job.reconcile), job'.worktree # "none",
           job'.worktree = "quarantined" => world'.thing["worktree"] = "yes",
           job'.worktree = "planned" => CheckoutPlannable(job) /\ asked'["worktree"] = asked["worktree"],
           \/ job.agent = "none" /\ ~job.reconcile
           \/ ~Open(job', world') /\ ~CheckoutPlannable(job'),
           asked'["fork"] = asked["fork"], asked'["clone"] = asked["clone"],
           world'.pane = world.pane, world'.session = world.session,
           job'.absent <= UncertainMax,
           Open(job', world') => job'.tries < UncertainMax /\ job'.absent <= job'.tries,
           wk'.pc \in {"settle", "creating", "pane", "fail"},
           wk'.pc = "settle" => world'.thing["worktree"] = "yes",
           wk'.pc = "creating" => /\ job'.worktree = "dispatching" /\ job'.tries = 0
                                  /\ job'.absent = 0,
           wk'.pc = "pane" => ~Open(job', world') /\ ~CheckoutPlannable(job')
    PROVE  Inv'
<1>1. AskTells(job', asked') /\ SourceTells(job', world') /\ TriesTell(job', world')
    BY CheckoutChanges DEF SameAgent
<1>2. PICK j, k : j = job /\ k = job'
    OBVIOUS
<1>3. StatusTells(job')
    BY <1>2, StatusKept, Typed DEF RecordTells, SameLife
<1>4. WorkerTells'
    BY AtCheckout DEF WorkerTells, Early, Late, SameAgent, SamePane, SameLife, Quiescent, Unsure,
       Acquired
<1> QED
    BY <1>1, <1>3, <1>4, OpsStep, Typed DEF SameLife

\* A checkout that may still be asked for comes before everything else.
LEMMA CheckoutFirst ==
    ASSUME Inv, job.source \in Checked, CheckoutPlannable(job) \/ Open(job, world)
    PROVE  job.agent = "none" /\ ~job.reconcile
    BY DEF Inv, RecordTells, SourceTells, Acquired

\* A worktree that is there is reserved.
LEMMA ReserveExistingKeeps == ASSUME Inv, ReserveExisting PROVE Inv'
<1>0. PICK j, k : j = job /\ k = wk
    OBVIOUS
<1>1. j \in Jobs /\ k \in Workers
    BY <1>0, Typed
<1>2. CASE UNCHANGED job /\ wk' = Off
    BY <1>2, Gone DEF ReserveExisting, Quiet
<1>3. CASE UNCHANGED job /\ Goes("fail")
    BY <1>3, Fails DEF ReserveExisting, Quiet, Goes
<1>4. CASE /\ CheckoutPlannable(job) /\ job' = [job EXCEPT !.worktree = "planned"]
           /\ wk' = [wk EXCEPT !.pc = "settle", !.outer = TRUE]
    <2>1. job' = [j EXCEPT !.worktree = "planned"]
        BY <1>0, <1>4
    <2>2. job' \in Jobs
        BY <1>1, <2>1, Named DEF Jobs
    <2>3. /\ SameAgent(job, job') /\ SamePane(job, job') /\ SameLife(job, job')
          /\ job'.source = job.source /\ job'.fork = job.fork /\ job'.clone = job.clone
          /\ job'.worktree = "planned" /\ (job'.reconcile <=> job.reconcile)
          /\ job'.tries = job.tries /\ job'.absent = job.absent
        BY <1>0, <1>1, <2>1 DEF Jobs, SameAgent, SamePane, SameLife
    <2>4. wk' \in Workers /\ wk'.pc = "settle"
        BY <1>0, <1>1, <1>4, WroteFields DEF Places, Early
    <2>5. job.agent = "none" /\ ~job.reconcile /\ job.absent <= UncertainMax
        BY <1>4, AtCheckout, CheckoutFirst DEF ReserveExisting, Inv, RecordTells, TriesTell
    <2>6. ~Open(job', world')
        BY <2>3 DEF Open, Doubtful
    <2> QED
        BY <1>4, <2>2, <2>3, <2>4, <2>5, <2>6, CheckoutStep, Typed DEF ReserveExisting, Quiet
<1> QED
    BY <1>2, <1>3, <1>4 DEF ReserveExisting, Writes

\* A checkout that was found is there for good.
LEMMA CheckoutFound ==
    ASSUME Inv, wk.pc \in {"settle", "creating"}, UNCHANGED <<rl, scan, world, asked>>,
           world.thing["worktree"] = "yes", NEW s \in {"quarantined", "ready"},
           job' \in Jobs, SameAgent(job, job'), SamePane(job, job'), SameLife(job, job'),
           job'.source = job.source, job'.fork = job.fork, job'.clone = job.clone,
           job'.worktree = s, (job'.reconcile <=> job.reconcile),
           job'.tries = job.tries, job'.absent = job.absent,
           wk' = [wk EXCEPT !.pc = "pane", !.outer = TRUE]
    PROVE  Inv'
<1>0. PICK k : k = wk
    OBVIOUS
<1>1. k \in Workers
    BY <1>0, Typed
<1>2. wk' \in Workers /\ wk'.pc = "pane"
    BY <1>0, <1>1, WroteFields DEF Places, Late
<1>3. ~Open(job', world') /\ ~CheckoutPlannable(job')
    BY DEF Open, CheckoutPlannable
<1>4. job.absent <= UncertainMax
    BY DEF Inv, RecordTells, TriesTell
<1> QED
    BY <1>2, <1>3, <1>4, CheckoutStep, Typed

\* A worktree that was there is settled, or the worker fails over it.
LEMMA SettleExistingKeeps == ASSUME Inv, SettleExisting PROVE Inv'
<1>0. PICK j : j = job
    OBVIOUS
<1>1. j \in Jobs
    BY <1>0, Typed
<1>2. CASE UNCHANGED job /\ wk' = Off
    BY <1>2, Gone DEF SettleExisting, Quiet
<1>3. world.thing["worktree"] = "yes"
    BY DEF SettleExisting, Inv, WorkerTells
<1>4. CASE UNCHANGED job /\ wk' = [wk EXCEPT !.pc = "fail", !.outer = TRUE]
    <2>1. wk' \in Workers /\ wk'.pc = "fail"
        BY <1>4, WroteFields, Typed DEF Places
    <2>2. ~scan.launch /\ job.status # "asking"
        BY DEF SettleExisting, Inv, WorkerTells
    <2>3. WorkerTells'
        BY <1>4, <2>1, <2>2, SameRecord, WorkerEnds DEF SettleExisting, Quiet
    <2> QED
        BY <1>4, <2>1, <2>3, SameRecord, CoreStep, Typed, ReleaseKept
        DEF SettleExisting, Quiet, RecordTells
<1>5. CASE /\ job' = [job EXCEPT !.worktree = "ready", !.located = TRUE]
           /\ wk' = [wk EXCEPT !.pc = "pane", !.outer = TRUE]
    <2>0. job' \in Jobs
        BY <1>0, <1>1, <1>5, Named DEF Jobs
    <2>1. /\ SameAgent(j, job') /\ SamePane(j, job') /\ SameLife(j, job')
          /\ job'.source = j.source /\ job'.fork = j.fork /\ job'.clone = j.clone
          /\ job'.worktree = "ready" /\ (job'.reconcile <=> j.reconcile)
          /\ job'.tries = j.tries /\ job'.absent = j.absent
        BY <1>0, <1>1, <1>5 DEF Jobs, SameAgent, SamePane, SameLife
    <2> QED
        BY <1>0, <1>3, <1>5, <2>0, <2>1, CheckoutFound DEF SettleExisting, Quiet
<1> QED
    BY <1>2, <1>4, <1>5 DEF SettleExisting, Writes

\* A worktree is recorded as dispatched, and asked for.
LEMMA CreateWorktreeKeeps == ASSUME Inv, CreateWorktree PROVE Inv'
<1>0. PICK j, k, w, a : j = job /\ k = wk /\ w = world /\ a = asked
    OBVIOUS
<1>1. /\ j \in Jobs /\ k \in Workers /\ w \in Worlds /\ a \in [Kinds -> 0..1]
      /\ RecordTells(j, w, a)
    BY <1>0, Typed
<1>2. CASE ~CheckoutPlannable(job)
    BY <1>2, Fails DEF CreateWorktree, Rest, Goes
<1>3. CASE CheckoutPlannable(job) /\ ~CanWrite
    BY <1>3, Gone DEF CreateWorktree, Rest, Writes
<1>4. CASE CheckoutPlannable(job) /\ CanWrite
    <2>0. /\ job' = [j EXCEPT !.worktree = "dispatching", !.tries = 0, !.absent = 0]
          /\ wk' = [wk EXCEPT !.pc = "creating", !.outer = TRUE]
          /\ world' = [w EXCEPT !.thing["worktree"] = "asked"]
        BY <1>0, <1>4 DEF CreateWorktree, Writes
    <2>1. wk' \in Workers /\ wk'.pc = "creating"
        BY <1>0, <1>1, <2>0, WroteFields DEF Places, Early
    <2>3. 0 \in Tries /\ 0 \in Absents
        BY Constants DEF Tries, Absents
    <2>4. job' \in Jobs
        BY <1>1, <2>0, <2>3, Named DEF Jobs
    <2>5. /\ SameAgent(job, job') /\ SamePane(job, job') /\ SameLife(job, job')
          /\ job'.source = job.source /\ job'.fork = job.fork /\ job'.clone = job.clone
          /\ job'.worktree = "dispatching" /\ (job'.reconcile <=> job.reconcile)
          /\ job'.tries = 0 /\ job'.absent = 0
        BY <1>0, <1>1, <2>0 DEF Jobs, SameAgent, SamePane, SameLife
    <2>6. a["worktree"] = 0
        BY <1>0, <1>1, <1>4 DEF RecordTells, AskTells
    <2>7. asked' = [a EXCEPT !["worktree"] = 1]
        BY <1>0, <1>4, <2>6 DEF CreateWorktree
    <2>8. /\ asked' \in [Kinds -> 0..1]
          /\ asked'["fork"] = asked["fork"] /\ asked'["clone"] = asked["clone"]
        BY <1>0, <1>1, <2>7, KindsAre, AskedFields
    <2>9. world' \in Worlds /\ world'.pane = world.pane /\ world'.session = world.session
        BY <1>0, <1>1, <2>0, KindsAre DEF Worlds
    <2>10. job.agent = "none" /\ ~job.reconcile
        BY <1>4, AtCheckout, CheckoutFirst DEF CreateWorktree
    <2> QED
        BY <2>1, <2>4, <2>5, <2>8, <2>9, <2>10, CheckoutStep, Constants DEF CreateWorktree, Rest
<1> QED
    BY <1>2, <1>3, <1>4

\* The worktree is in doubt, or failed and is looked for.
LEMMA CheckoutDoubted ==
    ASSUME Inv, CanWrite, wk.pc = "creating", UNCHANGED <<rl, scan, asked>>,
           NEW s \in {"ambiguous", "failed_observing"},
           job' = [job EXCEPT !.worktree = s, !.tries = 0],
           wk' = [wk EXCEPT !.pc = "fail", !.outer = TRUE],
           world' \in Worlds, world'.pane = world.pane, world'.session = world.session,
           (world'.thing["worktree"] = "yes") <=> (world.thing["worktree"] = "yes")
    PROVE  Inv'
<1>0. PICK j, k : j = job /\ k = wk
    OBVIOUS
<1>1. j \in Jobs /\ k \in Workers
    BY <1>0, Typed
<1>2. job' = [j EXCEPT !.worktree = s, !.tries = 0]
    BY <1>0
<1>3. 0 \in Tries /\ s \in OpStates
    BY Constants, Named DEF Tries
<1>4. job' \in Jobs
    BY ZenonT(30), <1>1, <1>2, <1>3 DEF Jobs
<1>5. /\ SameAgent(job, job') /\ SamePane(job, job') /\ SameLife(job, job')
      /\ job'.source = job.source /\ job'.fork = job.fork /\ job'.clone = job.clone
      /\ job'.worktree = s /\ (job'.reconcile <=> job.reconcile)
      /\ job'.tries = 0 /\ job'.absent = job.absent
    BY <1>0, <1>1, <1>2 DEF Jobs, SameAgent, SamePane, SameLife
<1>6. wk' \in Workers /\ wk'.pc = "fail"
    BY <1>0, <1>1, WroteFields DEF Places
<1>7. job.worktree = "dispatching" /\ job.absent = 0
    BY DEF CanWrite, Inv, WorkerTells
<1>8. ~CheckoutPlannable(job')
    BY <1>5 DEF CheckoutPlannable
<1>9. \/ job.agent = "none" /\ ~job.reconcile
      \/ ~Open(job', world') /\ ~CheckoutPlannable(job')
    <2>1. CASE world.thing["worktree"] = "yes"
        BY <2>1, <1>8 DEF Open
    <2>2. CASE world.thing["worktree"] # "yes"
        BY <2>2, <1>7, AtCheckout, CheckoutFirst DEF Open, Doubtful
    <2> QED
        BY <2>1, <2>2
<1> QED
    BY <1>4, <1>5, <1>6, <1>7, <1>9, CheckoutStep, Constants, Typed

\* The worktree is there, in doubt, or failed.
LEMMA WorktreeAnsweredKeeps == ASSUME Inv, WorktreeAnswered PROVE Inv'
<1>0. PICK j, w : j = job /\ w = world
    OBVIOUS
<1>1. j \in Jobs /\ w \in Worlds
    BY <1>0, Typed
<1>2. /\ world' \in Worlds /\ world'.pane = world.pane /\ world'.session = world.session
      /\ (world'.thing["worktree"] = "yes") <=> (world.thing["worktree"] = "yes")
    <2>1. CASE UNCHANGED world
        BY <2>1, Typed
    <2>2. CASE world' = [world EXCEPT !.thing["worktree"] = IF @ = "asked" THEN "no" ELSE @]
        <3>1. PICK v : v = IF w.thing["worktree"] = "asked" THEN "no" ELSE w.thing["worktree"]
            OBVIOUS
        <3>2. v \in {"no", "asked", "yes"} /\ (v = "yes" <=> w.thing["worktree"] = "yes")
            BY <1>1, <3>1, KindsAre DEF Worlds
        <3>3. world' = [w EXCEPT !.thing["worktree"] = v]
            BY <1>0, <2>2, <3>1
        <3> QED
            BY <1>0, <1>1, <3>2, <3>3, KindsAre DEF Worlds
    <2> QED
        BY <2>1, <2>2 DEF WorktreeAnswered
<1>3. CASE ~CanWrite
    BY <1>2, <1>3, OpsGone, Typed DEF WorktreeAnswered, Rest, Writes
<1>4. CASE /\ CanWrite /\ world.thing["worktree"] = "yes" /\ UNCHANGED world
           /\ job' = [job EXCEPT !.worktree = "ready", !.located = TRUE]
           /\ wk' = [wk EXCEPT !.pc = "pane", !.outer = TRUE]
    <2>0. job' \in Jobs
        BY <1>0, <1>1, <1>4, Named DEF Jobs
    <2>1. /\ SameAgent(j, job') /\ SamePane(j, job') /\ SameLife(j, job')
          /\ job'.source = j.source /\ job'.fork = j.fork /\ job'.clone = j.clone
          /\ job'.worktree = "ready" /\ (job'.reconcile <=> j.reconcile)
          /\ job'.tries = j.tries /\ job'.absent = j.absent
        BY <1>0, <1>1, <1>4 DEF Jobs, SameAgent, SamePane, SameLife
    <2> QED
        BY <1>0, <1>4, <2>0, <2>1, CheckoutFound DEF WorktreeAnswered, Rest
<1>5. CASE /\ CanWrite /\ world.thing["worktree"] = "yes" /\ UNCHANGED world
           /\ job' = [job EXCEPT !.worktree = "quarantined", !.inspect = TRUE]
           /\ wk' = [wk EXCEPT !.pc = "pane", !.outer = TRUE]
    <2>0. job' \in Jobs
        BY <1>0, <1>1, <1>5, Named DEF Jobs
    <2>1. /\ SameAgent(j, job') /\ SamePane(j, job') /\ SameLife(j, job')
          /\ job'.source = j.source /\ job'.fork = j.fork /\ job'.clone = j.clone
          /\ job'.worktree = "quarantined" /\ (job'.reconcile <=> j.reconcile)
          /\ job'.tries = j.tries /\ job'.absent = j.absent
        BY <1>0, <1>1, <1>5 DEF Jobs, SameAgent, SamePane, SameLife
    <2> QED
        BY <1>0, <1>5, <2>0, <2>1, CheckoutFound DEF WorktreeAnswered, Rest
<1>6. ASSUME NEW s \in {"ambiguous", "failed_observing"}, CanWrite,
             job' = [job EXCEPT !.worktree = s, !.tries = 0],
             wk' = [wk EXCEPT !.pc = "fail", !.outer = TRUE]
      PROVE  Inv'
    BY <1>2, <1>6, CheckoutDoubted DEF WorktreeAnswered, Rest
<1> QED
    BY <1>3, <1>4, <1>5, <1>6 DEF WorktreeAnswered, Writes

-----------------------------------------------------------------------------

\* The repository's part of the record is untouched by panes and sessions.
LEMMA OpsKept ==
    ASSUME NEW j, NEW k, NEW w, NEW v, NEW a, SameOps(j, k), v.thing = w.thing,
           k.agent = j.agent, RecordTells(j, w, a)
    PROVE  AskTells(k, a) /\ SourceTells(k, v) /\ TriesTell(k, v)
<1>1. AskTells(k, a)
    BY DEF SameOps, RecordTells, AskTells, ForkAskable, CheckoutPlannable
<1>2. SourceTells(k, v)
    BY DEF SameOps, RecordTells, SourceTells, Acquired, Open, CheckoutPlannable
<1>3. TriesTell(k, v)
    BY DEF SameOps, RecordTells, TriesTell, Open
<1> QED
    BY <1>1, <1>2, <1>3

\* The next pane to be planned is one nobody ever asked for, behind all others.
LEMMA NextPlanFree ==
    ASSUME Inv, ~Unsure(job), NextPlan \in Plans
    PROVE  /\ world.pane[NextPlan] = "no" /\ job.op < NextPlan
           /\ \A h \in Plans : h < NextPlan => world.pane[h] \in {"open", "closed"}
<1> DEFINE D == {g \in Plans : world.pane[g] # "no"}
<1>1. PICK n : n = Cardinality(D)
    OBVIOUS
<1>2. IsFiniteSet(Plans)
    BY FS_Interval, Constants DEF Plans
<1>3. IsFiniteSet(D) /\ n \in Nat
    BY <1>1, <1>2, FS_Subset, FS_CardinalityType
<1>4. NextPlan = 1 + n
    BY <1>1 DEF NextPlan
<1>5. \A g, h \in Plans : h < g /\ g \in D => h \in D
    BY DEF Inv, RecordTells, PaneTells
<1>6. n + 1 \notin D
    <2>1. SUFFICES ASSUME n + 1 \in D PROVE FALSE
        OBVIOUS
    <2>2. n + 1 \in Plans
        BY <2>1
    <2>3. 1..(n + 1) \subseteq D
        <3>1. SUFFICES ASSUME NEW h \in 1..(n + 1) PROVE h \in D
            OBVIOUS
        <3>2. h \in Plans
            BY <1>3, <2>2, Constants DEF Plans
        <3>3. CASE h = n + 1
            BY <2>1, <3>3
        <3>4. CASE h < n + 1
            BY <1>5, <2>1, <2>2, <3>2, <3>4
        <3> QED
            BY <1>3, <3>1, <3>3, <3>4
    <2>4. Cardinality(1..(n + 1)) = n + 1
        <3>1. n + 1 \in Int /\ 1 \in Int /\ 1 <= n + 1
            BY <1>3
        <3> QED
            BY <1>3, <3>1, FS_Interval
    <2>5. Cardinality(1..(n + 1)) <= Cardinality(D)
        BY <1>3, <2>3, FS_Subset
    <2> QED
        BY <1>1, <1>3, <2>4, <2>5
<1>7. \A h \in Plans : h <= n => h \in D
    <2>1. SUFFICES ASSUME NEW h \in Plans, h <= n, h \notin D PROVE FALSE
        OBVIOUS
    <2>2. h \in Nat /\ h >= 1
        BY <2>1, Constants DEF Plans
    <2>3. D \subseteq 1..(h - 1)
        <3>1. SUFFICES ASSUME NEW g \in D PROVE g \in 1..(h - 1)
            OBVIOUS
        <3>2. g \in Plans /\ g \in Nat /\ g >= 1
            BY Constants DEF Plans
        <3>3. ~(h < g) /\ h # g
            BY <1>5, <2>1, <3>2
        <3> QED
            BY <2>2, <3>2, <3>3
    <2>4. IsFiniteSet(1..(h - 1)) /\ Cardinality(1..(h - 1)) = h - 1
        <3>1. h - 1 \in Int /\ 1 \in Int
            BY <2>2
        <3>2. IsFiniteSet(1..(h - 1)) /\ Cardinality(1..(h - 1)) = IF 1 > h - 1 THEN 0 ELSE (h - 1) - 1 + 1
            BY <3>1, FS_Interval
        <3> QED
            BY <2>2, <3>2
    <2>5. Cardinality(D) <= Cardinality(1..(h - 1))
        BY <2>3, <2>4, FS_Subset
    <2> QED
        BY <1>1, <1>3, <2>1, <2>2, <2>4, <2>5
<1>8. world.pane[NextPlan] = "no"
    BY <1>4, <1>6, <1>3
<1>9. \A h \in Plans : world.pane[h] # "asked"
    BY DEF Inv, RecordTells, PaneTells
<1>10. \A h \in Plans : h < NextPlan => world.pane[h] \in {"open", "closed"}
    <2>1. SUFFICES ASSUME NEW h \in Plans, h < NextPlan PROVE world.pane[h] \in {"open", "closed"}
        OBVIOUS
    <2>2. h <= n
        BY <1>3, <1>4, <2>1, Constants DEF Plans
    <2>3. world.pane[h] \in {"no", "asked", "open", "closed"}
        BY Typed DEF Worlds
    <2> QED
        BY <1>7, <1>9, <2>2, <2>3
<1>11. job.op < NextPlan
    <2>1. job.op \in 0..MaxPlans /\ NextPlan \in 1..MaxPlans
        BY Typed DEF Jobs, PlanNos, Plans
    <2>2. CASE job.op = 0
        BY <2>1, <2>2, Constants
    <2>3. CASE job.op # 0
        <3>1. job.op \in Plans
            BY <2>1, <2>3, Constants DEF Plans
        <3>2. world.pane[job.op] \in {"open", "closed"}
            BY <2>3 DEF Inv, RecordTells, PaneTells
        <3>3. job.op # NextPlan
            BY <1>8, <3>2
        <3>4. ~(NextPlan < job.op)
            BY <1>8, <3>1, <3>2 DEF Inv, RecordTells, PaneTells
        <3> QED
            BY <2>1, <3>3, <3>4, Constants
    <2> QED
        BY <2>2, <2>3
<1> QED
    BY <1>8, <1>10, <1>11

\* A record with another pane.
LEMMA PaneFields ==
    ASSUME NEW j \in Jobs, NEW s \in PaneStates
    PROVE  LET k == [j EXCEPT !.pane = s]
           IN  /\ k \in Jobs /\ SameAgent(j, k) /\ SameOps(j, k) /\ SameLife(j, k)
               /\ k.pane = s /\ k.planned = j.planned
    BY DEF Jobs, SameAgent, SameOps, SameLife

\* A step about the planned pane.
LEMMA PaneStep ==
    ASSUME Inv, job' \in Jobs, wk' \in Workers, UNCHANGED <<rl, scan, asked>>, world' \in Worlds,
           world'.thing = world.thing, world'.session = world.session,
           SameOps(job, job'), SameAgent(job, job'), SameLife(job, job'),
           job.status # "asking", PaneTells(job', world'), WorkerTells'
    PROVE  Inv'
<1>1. PICK j, k, w, v, a : j = job /\ k = job' /\ w = world /\ v = world' /\ a = asked
    OBVIOUS
<1>2. AskTells(k, a) /\ SourceTells(k, v) /\ TriesTell(k, v)
    BY <1>1, OpsKept, Typed DEF SameAgent
<1>3. AgentTells(k, v)
    BY <1>1, Typed DEF RecordTells, AgentTells, SameAgent, Busy, Quiescent
<1>4. StatusTells(k)
    BY <1>1, Typed DEF RecordTells, StatusTells, SameAgent, SameLife, Quiescent
<1>5. ReleaseTells'
    BY ReleaseKept DEF SameAgent, SameLife, Busy
<1> QED
    BY <1>1, <1>2, <1>3, <1>4, <1>5, InvNext, Typed DEF RecordTells

\* What the worker knows while it makes a pane.
LEMMA AtPane ==
    ASSUME Inv, wk.pc \in {"pane", "submit", "paning", "reserve"}
    PROVE  /\ Quiescent(job) /\ Acquired(job, world) /\ ~job.user /\ ~scan.launch
           /\ job.status # "asking" /\ (wk.pc # "paning" => ~Unsure(job))
    BY NotUsers DEF Inv, WorkerTells, Early, Late

\* Acquired depends on the repository and the checkout only.
LEMMA AcquiredKept ==
    ASSUME SameOps(job, job'), world'.thing = world.thing
    PROVE  Acquired(job', world') <=> Acquired(job, world)
    BY DEF SameOps, Acquired, Open, CheckoutPlannable

\* A pane is planned.
LEMMA PlansPaneKeeps == ASSUME Inv, NEW p, PlansPane(p) PROVE Inv'
<1>0. PICK j, k, n : j = job /\ k = wk /\ n = NextPlan
    OBVIOUS
<1>1. j \in Jobs /\ k \in Workers
    BY <1>0, Typed
<1>2. CASE UNCHANGED job /\ wk' = Off
    BY <1>2, Gone DEF PlansPane, Quiet
<1>3. CASE UNCHANGED job /\ Goes("fail")
    BY <1>3, Fails DEF PlansPane, Quiet, Goes
<1>4. CASE /\ n \in Plans
           /\ job' = [job EXCEPT !.pane = "planned", !.planned = n]
           /\ wk' = [wk EXCEPT !.pc = "submit", !.outer = p = "main"]
    <2>1. wk' \in Workers /\ wk'.pc = "submit"
        BY <1>0, <1>1, <1>4 DEF Workers, Places, Early
    <2>2. job' = [j EXCEPT !.pane = "planned", !.planned = n] /\ n \in PlanNos
        BY <1>0, <1>4, Constants DEF Plans, PlanNos
    <2>3. job' \in Jobs
        BY <1>1, <2>2, Named DEF Jobs
    <2>4. /\ SameAgent(job, job') /\ SameOps(job, job') /\ SameLife(job, job')
          /\ job'.pane = "planned" /\ job'.planned = n
        BY <1>0, <1>1, <2>2 DEF Jobs, SameAgent, SameOps, SameLife
    <2>5. /\ world.pane[n] = "no" /\ job.op < n
          /\ \A h \in Plans : h < n => world.pane[h] \in {"open", "closed"}
        BY <1>0, <1>4, AtPane, NextPlanFree DEF PlansPane
    <2>6. n # 0 /\ ~Unsure(job')
        BY <1>4, <2>4, Constants DEF Plans, Unsure
    <2>7. \A g \in Plans : world.pane[g] # "asked"
        BY AtPane DEF PlansPane, Inv, RecordTells, PaneTells
    <2>8. PaneTells(job', world')
        BY <2>4, <2>5, <2>6, <2>7 DEF PlansPane, Quiet, Inv, RecordTells, PaneTells, SameAgent
    <2>9. WorkerTells'
        BY <2>1, <2>4, <2>5, <2>6, AtPane, AcquiredKept
        DEF PlansPane, Quiet, WorkerTells, Early, Late, SameAgent, SameLife, Quiescent
    <2> QED
        BY <2>1, <2>3, <2>4, <2>8, <2>9, PaneStep, AtPane, Typed DEF PlansPane, Quiet
<1> QED
    BY <1>0, <1>2, <1>3, <1>4 DEF PlansPane, Writes

\* The pane is recorded as submitted, and asked for.
LEMMA SubmitPaneKeeps == ASSUME Inv, SubmitPane PROVE Inv'
<1>0. PICK j, k, w : j = job /\ k = wk /\ w = world
    OBVIOUS
<1>1. j \in Jobs /\ k \in Workers /\ w \in Worlds
    BY <1>0, Typed
<1>2. CASE ~CanWrite
    BY <1>2, Gone DEF SubmitPane, Rest, Writes
<1>3. CASE CanWrite
    <2>1. /\ job' = [j EXCEPT !.pane = "submitting"]
          /\ wk' = [k EXCEPT !.pc = "paning", !.outer = FALSE]
          /\ world' = [w EXCEPT !.pane[j.planned] = "asked"]
        BY <1>0, <1>3 DEF SubmitPane, Writes
    <2>2. wk' \in Workers /\ wk'.pc = "paning"
        BY <1>1, <2>1, WroteFields DEF Places, Early
    <2>3. /\ job' \in Jobs /\ SameAgent(job, job') /\ SameOps(job, job') /\ SameLife(job, job')
          /\ job'.pane = "submitting" /\ job'.planned = job.planned
        BY <1>0, <1>1, <2>1, PaneFields, Named
    <2>4. /\ j.pane = "planned" /\ j.planned > j.op
        BY <1>0 DEF SubmitPane, Inv, WorkerTells
    <2>5. /\ j.planned # 0 /\ w.pane[j.planned] = "no"
          /\ \A h \in Plans : h < j.planned => w.pane[h] \in {"open", "closed"}
        BY <1>0, <2>4 DEF Inv, RecordTells, PaneTells
    <2>6. j.planned \in 0..MaxPlans /\ j.op \in 0..MaxPlans
        BY <1>1, JobFields
    <2>7. j.planned \in Plans
        BY <2>5, <2>6, Constants DEF Plans
    <2>8. /\ world' \in Worlds /\ world'.thing = world.thing /\ world'.session = world.session
          /\ \A g \in Plans : world'.pane[g] = IF g = j.planned THEN "asked" ELSE w.pane[g]
        BY <1>0, <1>1, <2>1, <2>7 DEF Worlds
    <2>9. PaneTells(j, w)
        BY <1>0, Typed DEF RecordTells
    <2>10. job'.planned = j.planned /\ job'.op = j.op /\ Unsure(job')
        BY <1>0, <2>3 DEF SameAgent, Unsure
    <2>11. \A g, h \in Plans : h < g /\ world'.pane[g] # "no" => world'.pane[h] \in {"open", "closed"}
        <3>1. SUFFICES ASSUME NEW g \in Plans, NEW h \in Plans, h < g, world'.pane[g] # "no"
                       PROVE  world'.pane[h] \in {"open", "closed"}
            OBVIOUS
        <3>2. CASE g = j.planned
            <4>1. h # j.planned
                BY <3>1, <3>2 DEF Plans
            <4> QED
                BY <2>5, <2>8, <3>1, <3>2, <4>1
        <3>3. CASE g # j.planned
            <4>1. w.pane[h] \in {"open", "closed"}
                BY <2>8, <2>9, <3>1, <3>3 DEF PaneTells
            <4> QED
                BY <2>5, <2>8, <4>1
        <3> QED
            BY <3>2, <3>3
    <2>12. \A g \in Plans : world'.pane[g] = "asked" => g = j.planned
        BY <2>4, <2>8, <2>9 DEF PaneTells, Unsure
    <2>13. j.op # 0 => world'.pane[j.op] \in {"open", "closed"}
        <3>1. SUFFICES ASSUME j.op # 0 PROVE world'.pane[j.op] \in {"open", "closed"}
            OBVIOUS
        <3>2. j.op \in Plans
            BY <2>6, <3>1, Constants DEF Plans
        <3>3. w.pane[j.op] \in {"open", "closed"}
            BY <2>9, <3>1 DEF PaneTells
        <3> QED
            BY <2>5, <2>8, <3>2, <3>3
    <2>14. \A g \in Plans : world'.session[g] # "no" => g <= j.op
        BY <1>0, <2>8, <2>9 DEF PaneTells
    <2>15. PaneTells(job', world')
        BY <2>3, <2>5, <2>10, <2>11, <2>12, <2>13, <2>14 DEF PaneTells
    <2>16. WorkerTells'
        BY <1>0, <2>2, <2>3, <2>4, <2>8, <2>10, AtPane, AcquiredKept
        DEF SubmitPane, Rest, WorkerTells, Early, Late, SameAgent, SameLife, Quiescent
    <2> QED
        BY <2>2, <2>3, <2>8, <2>15, <2>16, PaneStep, AtPane DEF SubmitPane, Rest
<1> QED
    BY <1>2, <1>3

\* The pane is there, or nobody knows.
LEMMA PaneAnsweredKeeps == ASSUME Inv, PaneAnswered PROVE Inv'
<1>0. PICK j, k, w : j = job /\ k = wk /\ w = world
    OBVIOUS
<1>1. j \in Jobs /\ k \in Workers /\ w \in Worlds /\ PaneTells(j, w)
    BY <1>0, Typed DEF RecordTells
<1>2. CASE UNCHANGED job /\ wk' = Off
    BY <1>2, Gone DEF PaneAnswered, Rest
<1>3. CASE UNCHANGED job /\ Goes("fail")
    BY <1>3, Fails DEF PaneAnswered, Rest, Goes
<1>4. Unsure(job) /\ job.planned > job.op
    BY DEF PaneAnswered, Inv, WorkerTells
<1>5. CASE /\ world.pane[job.planned] = "open" /\ job' = [job EXCEPT !.pane = "created"]
           /\ wk' = [wk EXCEPT !.pc = "reserve", !.outer = FALSE]
    <2>1. wk' \in Workers /\ wk'.pc = "reserve"
        BY <1>0, <1>1, <1>5, WroteFields DEF Places, Early
    <2>2. /\ job' \in Jobs /\ SameAgent(job, job') /\ SameOps(job, job') /\ SameLife(job, job')
          /\ job'.pane = "created" /\ job'.planned = job.planned
        BY <1>0, <1>1, <1>5, PaneFields, Named
    <2>3. PaneTells(job', world')
        BY <1>0, <1>1, <1>4, <1>5, <2>2 DEF PaneAnswered, Rest, PaneTells, SameAgent, Unsure
    <2>4. WorkerTells'
        BY <1>4, <2>1, <2>2, AtPane, AcquiredKept
        DEF PaneAnswered, Rest, WorkerTells, Early, Late, SameAgent, SameLife, Quiescent, Unsure
    <2> QED
        BY <2>1, <2>2, <2>3, <2>4, PaneStep, AtPane, Typed DEF PaneAnswered, Rest
<1>6. CASE /\ job' = Manual([job EXCEPT !.pane = "manual_required"], "pane")
           /\ wk' = [wk EXCEPT !.pc = "fail", !.outer = wk.path = "role"]
    <2>1. wk' \in Workers /\ wk'.pc = "fail"
        BY <1>0, <1>1, <1>6 DEF Workers, Places
    <2>2. PICK i : i = [j EXCEPT !.pane = "manual_required"]
        OBVIOUS
    <2>3. /\ i \in Jobs /\ SameAgent(j, i) /\ SameOps(j, i) /\ SameLife(j, i)
          /\ i.pane = "manual_required" /\ i.planned = j.planned
        BY <1>1, <2>2, PaneFields, Named
    <2>4. job' = Manual(i, "pane")
        BY <1>0, <1>6, <2>2
    <2>5. /\ job' \in Jobs /\ SameCore(i, job') /\ SameLife(i, job')
        BY <2>3, <2>4, ManualFields, Named DEF SameLife
    <2>6. /\ SameAgent(job, job') /\ SameOps(job, job') /\ SameLife(job, job')
          /\ job'.pane = "manual_required" /\ job'.planned = job.planned
        BY <1>0, <2>3, <2>5 DEF SameCore, SamePane, SameAgent, SameOps, SameLife
    <2>7. PaneTells(job', world')
        BY <1>0, <1>1, <1>4, <2>6 DEF PaneAnswered, Rest, PaneTells, SameAgent, Unsure
    <2>8. WorkerTells'
        BY <2>1, <2>6, AtPane DEF PaneAnswered, Rest, WorkerTells, Early, Late, SameLife
    <2> QED
        BY <2>1, <2>5, <2>6, <2>7, <2>8, PaneStep, AtPane, Typed DEF PaneAnswered, Rest
<1> QED
    BY <1>2, <1>3, <1>5, <1>6 DEF PaneAnswered, Writes

-----------------------------------------------------------------------------

\* The pane becomes the job's target, and its session the operation.
LEMMA ReserveTargetKeeps == ASSUME Inv, ReserveTarget PROVE Inv'
<1>0. PICK j, k, w, r : /\ j = job /\ k = wk /\ w = world
                        /\ r = IF wk.path = "role" THEN job.phase ELSE 1
    OBVIOUS
<1>1. j \in Jobs /\ k \in Workers /\ w \in Worlds /\ RecordTells(j, w, asked)
    BY <1>0, Typed
<1>2. CASE UNCHANGED job /\ wk' = Off
    BY <1>2, Gone DEF ReserveTarget, Quiet
<1>3. CASE UNCHANGED job /\ Goes("fail")
    BY <1>3, Fails DEF ReserveTarget, Quiet, Goes
<1>4. CASE /\ CanWrite
           /\ job' = [job EXCEPT !.target = job.planned, !.op = job.planned, !.agent = "dispatching",
                               !.session = FALSE, !.tries = 0, !.absent = 0,
                               !.role = r]
           /\ wk' = [wk EXCEPT !.pc = "create", !.outer = wk.path = "main"]
    <2>1. wk' \in Workers /\ wk'.pc = "create"
        BY <1>0, <1>1, <1>4 DEF Workers, Places, Late
    <2>2. j.phase \in 1..Roles
        BY <1>1, JobFields
    <2>3. r \in RoleNos /\ 0 \in Tries /\ 0 \in Absents
        BY <1>0, <2>2, Constants DEF RoleNos, Tries, Absents
    <2>4. PICK n : n = j.planned
        OBVIOUS
    <2>5. n \in PlanNos
        BY <1>1, <2>4 DEF Jobs
    <2>6. job' = [j EXCEPT !.target = n, !.op = n, !.agent = "dispatching",
                           !.session = FALSE, !.tries = 0, !.absent = 0, !.role = r]
        BY <1>0, <1>4, <2>4
    <2>7. job' \in Jobs
        BY <1>1, <2>3, <2>5, <2>6, Named DEF Jobs
    <2>8. /\ SamePane(job, job') /\ SameLife(job, job')
          /\ job'.agent = "dispatching" /\ job'.op = n /\ job'.target = n /\ ~job'.session
          /\ job'.source = job.source /\ job'.fork = job.fork /\ job'.clone = job.clone
          /\ job'.worktree = job.worktree /\ (job'.reconcile <=> job.reconcile)
          /\ job'.tries = 0 /\ job'.absent = 0
        BY <1>0, <1>1, <2>6 DEF Jobs, SamePane, SameLife
    <2>9. job.pane = "created" /\ job.planned > job.op /\ Quiescent(job)
        BY AtPane DEF ReserveTarget, Inv, WorkerTells
    <2>10. AskTells(job', asked')
        BY <1>0, <1>1, <2>8 DEF ReserveTarget, Quiet, RecordTells, AskTells, ForkAskable, CheckoutPlannable
    <2>11. Acquired(job', world')
        BY <2>8, AtPane DEF ReserveTarget, Quiet, Acquired, Open, CheckoutPlannable
    <2>12. SourceTells(job', world')
        BY <1>0, <1>1, <2>8, <2>11 DEF ReserveTarget, Quiet, RecordTells, SourceTells
    <2>13. TriesTell(job', world')
        BY <2>8, Constants DEF TriesTell
    <2>14. j.op \in 0..MaxPlans /\ n \in 0..MaxPlans
        BY <1>1, <2>4, JobFields
    <2>15. n # 0
        BY <1>0, <2>4, <2>9, <2>14, Constants
    <2>16. \A g \in Plans : ~Busy(world', g)
        BY <1>0, <1>1, <2>9 DEF ReserveTarget, Quiet, RecordTells, AgentTells
    <2>17. AgentTells(job', world')
        BY <2>8, <2>15, <2>16 DEF AgentTells
    <2>18. \A g \in Plans : world'.session[g] # "no" => g <= n
        <3>1. SUFFICES ASSUME NEW g \in Plans, world.session[g] # "no" PROVE g <= n
            BY DEF ReserveTarget, Quiet
        <3>2. g <= j.op /\ g \in Nat
            BY <1>0, <1>1, <3>1, Constants DEF RecordTells, PaneTells, Plans
        <3> QED
            BY <1>0, <2>4, <2>9, <2>14, <3>2, Constants
    <2>19. PaneTells(job', world')
        BY <1>0, <1>1, <2>4, <2>8, <2>9, <2>18 DEF ReserveTarget, Quiet, RecordTells, PaneTells,
           SamePane, Unsure
    <2>20. StatusTells(job')
        BY <1>0, <1>1, <1>4, <2>8 DEF CanWrite, RecordTells, StatusTells, SameLife
    <2>21. ReleaseTells'
        BY <1>4, <2>8, ReleaseKept DEF CanWrite, SameLife, ReserveTarget, Quiet
    <2>22. WorkerTells'
        BY <2>1, <2>8, <2>9, <2>11, AtPane
        DEF ReserveTarget, Quiet, WorkerTells, Early, SamePane, SameLife, Unsure
    <2> QED
        BY <2>1, <2>7, <2>10, <2>12, <2>13, <2>17, <2>19, <2>20, <2>21, <2>22, InvNext, Typed
        DEF RecordTells, ReserveTarget, Quiet
<1> QED
    BY <1>0, <1>2, <1>3, <1>4 DEF ReserveTarget, Writes

\* A worker that creates a session knows its target.
LEMMA AtSession ==
    ASSUME Inv, wk.pc \in {"create", "starting"}
    PROVE  /\ job.target \in Plans /\ job.op = job.target /\ ~job.session
           /\ job.agent \in {"dispatching", "ambiguous", "manual_required"}
           /\ Acquired(job, world) /\ ~Unsure(job) /\ ~job.user /\ ~scan.launch
           /\ job.status \notin Terminal \cup {"asking"}
<1>1. job.agent \in {"dispatching", "ambiguous", "manual_required"}
    BY DEF Inv, WorkerTells
<1>2. ~Quiescent(job) /\ ~job.session
    BY <1>1 DEF Inv, RecordTells, AgentTells, Quiescent
<1>3. job.op = job.target /\ job.target # 0
    BY <1>2 DEF Inv, RecordTells, AgentTells
<1>4. job.target \in Plans
    BY <1>3, Typed, Constants DEF Jobs, PlanNos, Plans
<1>5. job.status \notin Terminal \cup {"asking"}
    BY <1>2 DEF Inv, RecordTells, StatusTells
<1> QED
    BY <1>1, <1>2, <1>3, <1>4, <1>5, NotUsers DEF Inv, WorkerTells, Late

\* A step about the session of the operation.
LEMMA SessionStep ==
    ASSUME Inv, job' \in Jobs, wk' \in Workers, rl' \in [Releasers -> Releases], scan' \in Scans,
           UNCHANGED asked, world' \in Worlds, world'.thing = world.thing,
           SameOps(job, job'), job'.op = job.op, SamePane(job, job'),
           job'.agent = job.agent \/ (job.agent # "none" /\ job'.agent # "none"
                                      /\ (job'.agent \in Doubtful => job.agent \in Doubtful)),
           \A g \in Plans : \/ world'.pane[g] = world.pane[g]
                            \/ world.pane[g] \in {"open", "closed"} /\ world'.pane[g] = "closed",
           \A g \in Plans : world'.session[g] # "no" => g <= job.op,
           AgentTells(job', world'), StatusTells(job'), WorkerTells', ReleaseTells'
    PROVE  Inv'
<1>1. PICK j, k, w, v, a : j = job /\ k = job' /\ w = world /\ v = world' /\ a = asked
    OBVIOUS
<1>2. /\ j \in Jobs /\ k \in Jobs /\ w \in Worlds /\ v \in Worlds /\ RecordTells(j, w, a)
      /\ SameOps(j, k) /\ v.thing = w.thing /\ k.op = j.op /\ SamePane(j, k)
    BY <1>1, Typed
<1>3. AskTells(k, a)
    BY <1>2 DEF SameOps, RecordTells, AskTells, ForkAskable, CheckoutPlannable
<1>4. SourceTells(k, v)
    BY <1>1, <1>2 DEF SameOps, RecordTells, SourceTells, Acquired, Open, CheckoutPlannable
<1>5. TriesTell(k, v)
    BY <1>1, <1>2 DEF SameOps, RecordTells, TriesTell, Open
<1>6. \A g \in Plans : v.pane[g] \in {"open", "closed"} <=> w.pane[g] \in {"open", "closed"}
    BY <1>1
<1>7. \A g \in Plans : (v.pane[g] = "no" <=> w.pane[g] = "no")
                       /\ (v.pane[g] = "asked" <=> w.pane[g] = "asked")
    BY <1>1
<1>8. \A n \in 0..MaxPlans : n # 0 => n \in Plans
    BY Constants DEF Plans
<1>9. k.planned = j.planned /\ k.pane = j.pane /\ j.planned \in 0..MaxPlans /\ j.op \in 0..MaxPlans
    BY <1>2, JobFields DEF SamePane
<1>10. PaneTells(k, v)
    <2>1. \A g, h \in Plans : h < g /\ v.pane[g] # "no" => v.pane[h] \in {"open", "closed"}
        BY <1>2, <1>6, <1>7 DEF RecordTells, PaneTells
    <2>2. \A g \in Plans : v.pane[g] = "asked" => g = k.planned /\ Unsure(k)
        BY <1>2, <1>7, <1>9 DEF RecordTells, PaneTells, Unsure
    <2>3. k.pane = "planned" =>
             /\ k.planned # 0 /\ v.pane[k.planned] = "no"
             /\ \A h \in Plans : h < k.planned => v.pane[h] \in {"open", "closed"}
        BY <1>2, <1>6, <1>7, <1>8, <1>9 DEF RecordTells, PaneTells
    <2>4. k.pane = "created" => k.planned # 0 /\ v.pane[k.planned] \in {"open", "closed"}
        BY <1>2, <1>6, <1>8, <1>9 DEF RecordTells, PaneTells
    <2>5. Unsure(k) => k.planned # 0
        BY <1>2, <1>9 DEF RecordTells, PaneTells, Unsure
    <2>6. k.op # 0 => v.pane[k.op] \in {"open", "closed"}
        BY <1>2, <1>6, <1>8, <1>9 DEF RecordTells, PaneTells
    <2>7. \A g \in Plans : v.session[g] # "no" => g <= k.op
        BY <1>1
    <2> QED
        BY <2>1, <2>2, <2>3, <2>4, <2>5, <2>6, <2>7 DEF PaneTells
<1> QED
    BY <1>1, <1>3, <1>4, <1>5, <1>10, InvNext, Typed DEF RecordTells

\* Plans are numbers.
LEMMA PlansAreNumbers == \A g \in Plans : g \in Nat /\ g >= 1 /\ g <= g
    BY Constants DEF Plans

\* The session is asked for.
LEMMA CreateSessionKeeps == ASSUME Inv, CreateSession PROVE Inv'
<1>0. PICK j, k, w, t : j = job /\ k = wk /\ w = world /\ t = job.target
    OBVIOUS
<1>1. j \in Jobs /\ k \in Workers /\ w \in Worlds /\ RecordTells(j, w, asked)
    BY <1>0, Typed
<1>2. CASE wk' = Off /\ UNCHANGED world
    BY <1>2, Gone DEF CreateSession, Rest
<1>3. CASE /\ job.agent = "dispatching" /\ wk' = [wk EXCEPT !.pc = "starting", !.outer = FALSE]
           /\ world' = SessionAsked(world, job.target)
    <2>1. wk' \in Workers /\ wk'.pc = "starting"
        BY <1>0, <1>1, <1>3, WroteFields DEF Places, Late
    <2>2. t \in Plans /\ j.op = t /\ ~j.session
        BY <1>0, AtSession DEF CreateSession
    <2>3. /\ world' \in Worlds /\ world'.thing = world.thing /\ world'.pane = world.pane
          /\ \A g \in Plans : world'.session[g] = IF g = t THEN "asked" ELSE w.session[g]
        BY <1>0, <1>1, <1>3, <2>2 DEF SessionAsked, Worlds
    <2>4. AgentTells(job', world')
        BY <1>0, <1>1, <1>3, <2>2, <2>3, PlansAreNumbers
        DEF CreateSession, RecordTells, AgentTells, Busy, Quiescent
    <2>5. \A g \in Plans : world'.session[g] # "no" => g <= job.op
        BY <1>0, <1>1, <2>2, <2>3, PlansAreNumbers DEF RecordTells, PaneTells
    <2>6. ReleaseTells'
        BY <1>3, Typed DEF CreateSession, Rest, ReleaseTells
    <2>7. UNCHANGED job /\ Acquired(job', world')
        BY <2>3, AtSession DEF CreateSession, Acquired, Open
    <2>8. WorkerTells'
        BY <1>3, <2>1, <2>7, AtSession DEF CreateSession, Rest, WorkerTells, Early
    <2>9. SameOps(job, job') /\ SamePane(job, job')
        BY <2>7 DEF SameOps, SamePane
    <2> QED
        BY <1>0, <1>1, <2>1, <2>3, <2>4, <2>5, <2>6, <2>7, <2>8, <2>9, SessionStep, Typed
        DEF CreateSession, Rest, RecordTells
<1> QED
    BY <1>2, <1>3 DEF CreateSession

\* The operation takes the outcome of its session while it waits for it.
LEMMA ReducedFields ==
    ASSUME NEW j \in Jobs, NEW s \in Agents, NEW b \in BOOLEAN
    PROVE  /\ Reduced(j, s, b) \in Jobs /\ SameOps(j, Reduced(j, s, b))
           /\ SamePane(j, Reduced(j, s, b)) /\ SameLife(j, Reduced(j, s, b))
           /\ Reduced(j, s, b).op = j.op /\ Reduced(j, s, b).target = j.target
           /\ IF j.intent = "none" /\ j.agent = "dispatching"
              THEN Reduced(j, s, b).agent = s /\ (Reduced(j, s, b).session <=> b)
              ELSE Reduced(j, s, b) = j
<1>1. CASE j.intent = "none" /\ j.agent = "dispatching"
    <2>1. PICK k : k = [j EXCEPT !.agent = s, !.session = b]
        OBVIOUS
    <2>2. Reduced(j, s, b) = k
        BY <1>1, <2>1 DEF Reduced
    <2>3. k \in Jobs
        BY <2>1 DEF Jobs
    <2>4. SameOps(j, k) /\ SamePane(j, k) /\ SameLife(j, k) /\ k.op = j.op /\ k.target = j.target
          /\ k.agent = s /\ (k.session <=> b)
        BY <2>1 DEF Jobs, SameOps, SamePane, SameLife
    <2> QED
        BY <1>1, <2>2, <2>3, <2>4
<1>2. CASE ~(j.intent = "none" /\ j.agent = "dispatching")
    <2>1. Reduced(j, s, b) = j
        BY <1>2 DEF Reduced
    <2> QED
        BY <1>2, <2>1 DEF SameOps, SamePane, SameLife
<1> QED
    BY <1>1, <1>2

\* The session is answered for: it is there, nobody knows, or it failed.
LEMMA SessionAnsweredKeeps == ASSUME Inv, SessionAnswered PROVE Inv'
<1>0. PICK j, k, w, t : j = job /\ k = wk /\ w = world /\ t = job.target
    OBVIOUS
<1>1. j \in Jobs /\ k \in Workers /\ w \in Worlds /\ RecordTells(j, w, asked)
    BY <1>0, Typed
<1>2. /\ t \in Plans /\ j.op = t /\ j.target = t /\ ~j.session
      /\ j.agent \in {"dispatching", "ambiguous", "manual_required"}
    BY <1>0, AtSession DEF SessionAnswered
<1>3. PICK s : /\ s \in {"ready", "ambiguous", "failed_observing"}
               /\ job' \in Jobs /\ SameOps(j, job') /\ SamePane(j, job') /\ SameLife(j, job')
               /\ job'.op = t /\ job'.target = t
               /\ IF j.intent = "none" /\ j.agent = "dispatching"
                  THEN job'.agent = s /\ (job'.session <=> s = "ready") ELSE job' = j
               /\ s = "ready" => w.session[t] = "live"
               /\ s # "failed_observing" => world' = w
               /\ s = "failed_observing" =>
                    world' = [w EXCEPT !.session[t] = IF @ = "asked" THEN "no" ELSE @]
    <2>1. CASE w.session[t] = "live" /\ world' = w /\ job' = Reduced(j, "ready", TRUE)
        BY <1>1, <1>2, <2>1, ReducedFields, Named
    <2>2. CASE world' = w /\ job' = Reduced(j, "ambiguous", FALSE)
        BY <1>1, <1>2, <2>2, ReducedFields, Named
    <2>3. CASE /\ world' = [w EXCEPT !.session[t] = IF @ = "asked" THEN "no" ELSE @]
               /\ job' = Reduced(j, "failed_observing", FALSE)
        BY <1>1, <1>2, <2>3, ReducedFields, Named
    <2> QED
        BY <1>0, <2>1, <2>2, <2>3 DEF SessionAnswered
<1>5. /\ job' \in Jobs /\ SameOps(j, job') /\ SamePane(j, job') /\ SameLife(j, job')
      /\ job'.op = t /\ job'.target = t
      /\ IF j.intent = "none" /\ j.agent = "dispatching"
         THEN job'.agent = s /\ (job'.session <=> s = "ready") ELSE job' = j
    BY <1>3
<1>6. /\ world' \in Worlds /\ world'.thing = w.thing /\ world'.pane = w.pane
      /\ \A g \in Plans : world'.session[g] = IF g = t /\ s = "failed_observing" /\ w.session[t] = "asked"
                                              THEN "no" ELSE w.session[g]
    BY <1>1, <1>2, <1>3 DEF Worlds
<1>7. AgentTells(j, w)
    BY <1>1 DEF RecordTells
<1>8. /\ \A g \in Plans : Busy(world', g) => Busy(w, g)
      /\ \A g \in Plans : Busy(w, g) => g = t
      /\ \A g \in Plans : world'.session[g] # "no" => w.session[g] # "no"
    BY <1>2, <1>6, <1>7 DEF Busy, AgentTells
<1>9. AgentTells(job', world')
    <2>1. CASE job' = j
        BY <1>2, <1>7, <1>8, <2>1, PlansAreNumbers DEF AgentTells, Quiescent
    <2>2. CASE job'.agent = s /\ (job'.session <=> s = "ready")
        BY <1>2, <1>3, <1>5, <1>6, <1>8, <2>2, PlansAreNumbers DEF AgentTells, Quiescent
    <2> QED
        BY <1>5, <2>1, <2>2
<1>10. \A g \in Plans : world'.session[g] # "no" => g <= job.op
    BY <1>0, <1>1, <1>8 DEF RecordTells, PaneTells
<1>11. StatusTells(job')
    BY <1>0, <1>5, AtSession DEF SessionAnswered, StatusTells, SameLife
<1>12. ReleaseTells'
    BY <1>0, <1>2, <1>5, <1>8, ReleaseKept DEF SessionAnswered, Rest, SameLife
<1>13. Acquired(job', world') /\ ~Unsure(job')
    BY <1>0, <1>5, <1>6, AtSession, AcquiredKept DEF SessionAnswered, SamePane, Unsure
<1>14. wk' \in Workers /\ wk'.pc \in {"off", "phase", "prepare"}
    <2>1. CASE wk' = Off
        BY <2>1, OffTyped
    <2>2. CASE wk' = [wk EXCEPT !.pc = IF wk.path = "role" THEN "phase" ELSE "prepare",
                                !.fresh = TRUE, !.outer = wk.path # "role"]
        BY <1>0, <1>1, <2>2 DEF Workers, Places, Late
    <2> QED
        BY <2>1, <2>2 DEF SessionAnswered
<1>15. WorkerTells'
    BY <1>0, <1>5, <1>13, <1>14, AtSession
    DEF SessionAnswered, Rest, WorkerTells, Early, SameLife
<1>16. /\ job'.agent = job.agent \/ (job.agent # "none" /\ job'.agent # "none"
                                     /\ (job'.agent \in Doubtful => job.agent \in Doubtful))
    BY <1>0, <1>2, <1>3, <1>5 DEF Doubtful
<1> QED
    BY <1>0, <1>2, <1>5, <1>6, <1>9, <1>10, <1>11, <1>12, <1>14, <1>15, <1>16, SessionStep, Typed
    DEF SessionAnswered, Rest

\* Closing panes ends their sessions, and nothing else.
LEMMA ClosedFields ==
    ASSUME NEW w \in Worlds, NEW s \in SUBSET Plans
    PROVE  /\ Closed(w, s) \in Worlds /\ Closed(w, s).thing = w.thing
           /\ \A g \in Plans : /\ Closed(w, s).session[g] = IF g \in s THEN "gone" ELSE w.session[g]
                               /\ Closed(w, s).pane[g] = IF g \in s THEN "closed" ELSE w.pane[g]
    BY DEF Closed, Worlds

\* A session that is there is in a pane that was made.
LEMMA LivesInPane ==
    ASSUME Inv, NEW g \in Plans, Busy(world, g)
    PROVE  world.pane[g] \in {"open", "closed"} /\ g = job.op /\ ~Quiescent(job)
<1>1. g = job.op /\ ~Quiescent(job)
    BY DEF Inv, RecordTells, AgentTells
<1>2. g # 0
    BY PlansAreNumbers
<1> QED
    BY <1>1, <1>2 DEF Inv, RecordTells, PaneTells

\* Sessions are closed: the operation knows of them still, and nothing comes to life.
LEMMA SessionsClosed ==
    ASSUME Inv, UNCHANGED <<job, asked>>, NEW s \in SUBSET Plans, world' = Closed(world, s),
           \A g \in s : world.session[g] = "live",
           wk' \in Workers, rl' \in [Releasers -> Releases], scan' \in Scans, WorkerTells', ReleaseTells'
    PROVE  Inv'
<1>0. PICK j, w, a, v : j = job /\ w = world /\ a = asked /\ v = world'
    OBVIOUS
<1>1. j \in Jobs /\ w \in Worlds /\ RecordTells(j, w, a)
    BY <1>0, Typed
<1>2. /\ v \in Worlds /\ v.thing = w.thing
      /\ \A g \in Plans : /\ v.session[g] = IF g \in s THEN "gone" ELSE w.session[g]
                          /\ v.pane[g] = IF g \in s THEN "closed" ELSE w.pane[g]
    BY <1>0, <1>1, ClosedFields
<1>3. \A g \in s : w.pane[g] \in {"open", "closed"}
    BY <1>0, LivesInPane DEF Busy
<1>4. \A g \in Plans : /\ Busy(v, g) => Busy(w, g)
                       /\ v.session[g] # "no" => w.session[g] # "no"
    BY <1>0, <1>2 DEF Busy
<1>5. AgentTells(j, v)
    <2>1. AgentTells(j, w)
        BY <1>1 DEF RecordTells
    <2>2. j.op \in 0..MaxPlans /\ (j.op # 0 => j.op \in Plans)
        BY <1>1, JobFields, Constants DEF Plans
    <2>3. j.session => j.op \in Plans /\ v.session[j.op] \in {"live", "gone"}
        BY <1>2, <2>1, <2>2 DEF AgentTells
    <2>4. j.agent = "failed_observing" => v.session[j.op] # "asked"
        <3>1. SUFFICES ASSUME j.agent = "failed_observing" PROVE v.session[j.op] # "asked"
            OBVIOUS
        <3>2. j.op # 0
            BY <3>1, <2>1, JobFields, <1>1 DEF AgentTells, Quiescent
        <3> QED
            BY <1>2, <2>1, <2>2, <3>1, <3>2 DEF AgentTells
    <2> QED
        BY <1>4, <2>1, <2>3, <2>4 DEF AgentTells
<1>6. \A g \in Plans : v.session[g] # "no" => g <= j.op
    BY <1>1, <1>4 DEF RecordTells, PaneTells
<1>7. SameOps(job, job') /\ SamePane(job, job')
    BY DEF SameOps, SamePane
<1>8. \A g \in Plans : \/ v.pane[g] = w.pane[g]
                       \/ w.pane[g] \in {"open", "closed"} /\ v.pane[g] = "closed"
    BY <1>2, <1>3
<1> QED
    BY <1>0, <1>1, <1>2, <1>5, <1>6, <1>7, <1>8, SessionStep DEF RecordTells

\* The previous participant's session is closed.
LEMMA CloseParticipantKeeps == ASSUME Inv, CloseParticipant PROVE Inv'
<1>0. PICK k, w, t : k = wk /\ w = world /\ t = job.target
    OBVIOUS
<1>1. k \in Workers /\ w \in Worlds
    BY <1>0, Typed
<1>2. CASE UNCHANGED <<job, world>> /\ Goes("fail")
    BY <1>2, Fails DEF CloseParticipant, Rest, Goes
<1>3. CASE /\ job.target = 0 \/ job.session
           /\ UNCHANGED job /\ Goes("clear")
           /\ world' = Closed(world, IF t # 0 /\ world.session[t] = "live" THEN {t} ELSE {})
    <2>1. wk' \in Workers /\ wk'.pc = "clear"
        BY <1>0, <1>1, <1>3, GoFields DEF CloseParticipant, Goes, Places, Late
    <2>2. PICK s : s = IF t # 0 /\ world.session[t] = "live" THEN {t} ELSE {}
        OBVIOUS
    <2>3. t \in 0..MaxPlans
        BY <1>0, Typed, JobFields
    <2>4. s \in SUBSET Plans /\ world' = Closed(world, s) /\ \A g \in s : world.session[g] = "live"
        BY <1>3, <2>2, <2>3, Constants DEF Plans
    <2>5. /\ world' \in Worlds /\ world'.thing = world.thing
          /\ \A g \in Plans : world'.session[g] = IF g \in s THEN "gone" ELSE world.session[g]
        BY <1>0, <1>1, <2>4, ClosedFields
    <2>6. \A g \in Plans : ~Busy(world', g)
        <3>1. SUFFICES ASSUME NEW g \in Plans, Busy(world', g) PROVE FALSE
            OBVIOUS
        <3>2. Busy(world, g) /\ g \notin s
            BY <2>5, <3>1 DEF Busy
        <3>3. g = job.op /\ ~Quiescent(job)
            BY <3>2, LivesInPane
        <3>4. t # 0 /\ t = g
            BY <1>0, <3>3 DEF Inv, RecordTells, AgentTells
        <3>5. world.session[g] = "live"
            BY <1>0, <1>3, <3>2, <3>3, <3>4 DEF Inv, RecordTells, AgentTells, Busy
        <3> QED
            BY <2>2, <3>2, <3>4, <3>5
    <2>7. UNCHANGED <<job, rl, scan, asked>>
        BY <1>3 DEF CloseParticipant, Rest
    <2>8. Acquired(job', world')
        BY <2>5, <2>7 DEF CloseParticipant, Inv, WorkerTells, Late, Acquired, Open
    <2>9. ReleaseTells'
        <3>1. job.agent = "ready" => job.op # 0
            BY DEF Inv, RecordTells, AgentTells
        <3>2. job.agent = "ready" => job.op \in Plans
            BY <3>1, Typed, Constants DEF Jobs, PlanNos, Plans
        <3> QED
            BY <2>6, <2>7, <3>2 DEF ReleaseTells, Inv
    <2>10. WorkerTells'
        BY <2>1, <2>6, <2>7, <2>8 DEF CloseParticipant, Inv, WorkerTells, Early, Late
    <2> QED
        BY <2>1, <2>4, <2>7, <2>9, <2>10, SessionsClosed, Typed
<1> QED
    BY <1>0, <1>2, <1>3 DEF CloseParticipant

-----------------------------------------------------------------------------

\* The repository, the checkout and their observation, without the counts.
SameAssets(j, k) == /\ k.source = j.source /\ k.fork = j.fork /\ k.clone = j.clone
                    /\ k.worktree = j.worktree /\ (k.reconcile <=> j.reconcile)

\* The session of the operation is known to be absent.
LEMMA AgentAbsent ==
    ASSUME NEW j \in Jobs, NEW k \in Jobs, NEW w \in Worlds, NEW a, RecordTells(j, w, a),
           SameAssets(j, k), j.agent # "none" \/ Acquired(j, w),
           k.agent = "confirmed_absent", k.op = j.op, k.session <=> j.session,
           k.target \in {0, j.op}, \A g \in Plans : ~Busy(w, g),
           PaneTells(k, w), TriesTell(k, w), StatusTells(k)
    PROVE  RecordTells(k, w, a)
<1>1. AskTells(k, a)
    BY DEF SameAssets, RecordTells, AskTells, ForkAskable, CheckoutPlannable
<1>2. AgentTells(k, w)
    BY DEF RecordTells, AgentTells, Quiescent
<1>3. Acquired(j, w)
    BY DEF RecordTells, SourceTells
<1>4. SourceTells(k, w)
    BY <1>3 DEF SameAssets, RecordTells, SourceTells, Acquired, Open, CheckoutPlannable
<1> QED
    BY <1>1, <1>2, <1>4 DEF RecordTells

\* A record whose pane is none, or as it was, where none is on its way.
LEMMA PaneDropped ==
    ASSUME NEW j \in Jobs, NEW k \in Jobs, NEW w \in Worlds, PaneTells(j, w), k.op = j.op,
           SamePane(j, k) \/ (k.pane = "none" /\ \A g \in Plans : w.pane[g] # "asked")
    PROVE  PaneTells(k, w)
    BY DEF PaneTells, SamePane, Unsure

\* What was observed is as it was, and no session is doubtful any more.
LEMMA TriesKept ==
    ASSUME NEW j \in Jobs, NEW k \in Jobs, NEW w \in Worlds, TriesTell(j, w), SameOps(j, k),
           k.agent \in Doubtful => j.agent \in Doubtful
    PROVE  TriesTell(k, w)
    BY DEF TriesTell, SameOps, Open

\* The previous participants are cleared away before the next one's pane is planned.
LEMMA ClearParticipantsKeeps == ASSUME Inv, ClearParticipants PROVE Inv'
<1>0. PICK j, k, w : j = job /\ k = wk /\ w = world
    OBVIOUS
<1>1. j \in Jobs /\ k \in Workers /\ w \in Worlds /\ RecordTells(j, w, asked)
    BY <1>0, Typed
<1>2. CASE ~CanWrite
    BY <1>2, Gone DEF ClearParticipants, Quiet
<1>3. CASE CanWrite
    <2>1. /\ job' = [j EXCEPT !.pane = "none", !.planned = 0, !.role = 0,
                              !.agent = "confirmed_absent"]
          /\ wk' = [k EXCEPT !.pc = "pane", !.path = "role", !.outer = FALSE]
        BY <1>0, <1>3 DEF ClearParticipants
    <2>2. wk' \in Workers /\ wk'.pc = "pane"
        BY <1>1, <2>1 DEF Workers, Places, Early
    <2>3. 0 \in PlanNos /\ 0 \in RoleNos
        BY Constants DEF PlanNos, RoleNos
    <2>4. job' \in Jobs
        BY <1>1, <2>1, <2>3, Named DEF Jobs
    <2>5. /\ SameOps(j, job') /\ SameLife(j, job') /\ job'.pane = "none"
          /\ job'.agent = "confirmed_absent" /\ job'.op = j.op /\ job'.target = j.target
          /\ (job'.session <=> j.session)
        BY <1>1, <2>1 DEF Jobs, SameOps, SameLife
    <2>6. /\ Acquired(j, w) /\ ~Unsure(j) /\ ~j.user /\ ~scan.launch
          /\ \A g \in Plans : ~Busy(w, g)
        BY <1>0, NotUsers DEF ClearParticipants, Inv, WorkerTells, Late
    <2>7. \A g \in Plans : w.pane[g] # "asked"
        BY <1>1, <2>6 DEF RecordTells, PaneTells
    <2>8. PaneTells(job', w) /\ TriesTell(job', w)
        BY <1>1, <2>4, <2>5, <2>7, PaneDropped, TriesKept DEF RecordTells, Doubtful
    <2>9. StatusTells(job')
        BY <1>0, <1>1, <1>3, <2>5 DEF CanWrite, RecordTells, StatusTells, SameLife
    <2>10. RecordTells(job', w, asked)
        BY <1>1, <2>4, <2>5, <2>6, <2>8, <2>9, AgentAbsent
        DEF RecordTells, AgentTells, SameOps, SameAssets
    <2>11. UNCHANGED <<rl, scan, world, asked>>
        BY DEF ClearParticipants, Quiet
    <2>12. Acquired(job', world')
        BY <1>0, <2>5, <2>6, <2>11, AcquiredKept
    <2>13. WorkerTells'
        BY <1>0, <1>3, <2>2, <2>5, <2>6, <2>9, <2>11, <2>12
        DEF WorkerTells, Early, Late, Quiescent, Unsure, SameLife, StatusTells, CanWrite
    <2>14. ReleaseTells'
        BY <1>0, <1>3, <2>5, <2>11, ReleaseKept DEF CanWrite, SameLife
    <2> QED
        BY <1>0, <2>2, <2>4, <2>10, <2>11, <2>13, <2>14, InvNext, Typed
<1> QED
    BY <1>2, <1>3

-----------------------------------------------------------------------------

\* One release goes on, or ends.
LEMMA OneRelease ==
    ASSUME Inv, NEW r \in Releasers, NEW x \in Releases, rl' = [rl EXCEPT ![r] = x]
    PROVE  /\ rl' \in [Releasers -> Releases]
           /\ \A q \in Releasers : rl'[q] = IF q = r THEN x ELSE rl[q]
    BY Typed

\* An agent that is ready sits in the target, which the release looks at.
LEMMA ReadyIsTarget ==
    ASSUME Inv, job.agent = "ready"
    PROVE  /\ job.op \in Plans /\ job.op \in Targets(job)
           /\ world.session[job.op] \in {"live", "gone"}
<1>1. job.op # 0 /\ job.target = job.op /\ world.session[job.op] \in {"live", "gone"}
    BY DEF Inv, RecordTells, AgentTells, Quiescent
<1>2. job.op \in Plans
    BY <1>1, Typed, Constants DEF Jobs, PlanNos, Plans
<1> QED
    BY <1>1, <1>2 DEF Targets

\* The release closes the panes it can tell are the job's.
LEMMA CloseTargetsKeeps == ASSUME Inv, NEW r \in Releasers, CloseTargets(r) PROVE Inv'
<1>0. rl \in [Releasers -> Releases] /\ scan \in Scans
    BY Typed
<1>1. CASE rl' = [rl EXCEPT ![r] = Idle] /\ UNCHANGED world
    <2>1. /\ rl' \in [Releasers -> Releases]
          /\ \A q \in Releasers : rl'[q] = IF q = r THEN Idle ELSE rl[q]
        BY <1>1, OneRelease, ReleaseFields
    <2> QED
        BY <1>1, <2>1, ReleasesStep, ReleaseFields, Typed DEF CloseTargets
<1>2. ASSUME NEW ours, NEW kept, NEW c \in BOOLEAN, NEW u \in BOOLEAN,
             ours = {g \in Targets(job) : Verifiable(job, g)},
             ~(~rl[r].current \/ job.intent = "none"),
             world' = Closed(world, {g \in ours : world.session[g] = "live"} \ kept),
             c <=> (kept = {} /\ ours = Targets(job)),
             rl' = [rl EXCEPT ![r].pc = "commit", ![r].confirmed = c, ![r].unverified = u]
      PROVE  Inv'
    <2>1. PICK s : s = {g \in ours : world.session[g] = "live"} \ kept
        OBVIOUS
    <2>2. job.target \in 0..MaxPlans /\ job.planned \in 0..MaxPlans
        BY Typed, JobFields
    <2>3. s \in SUBSET Plans /\ world' = Closed(world, s) /\ \A g \in s : world.session[g] = "live"
        BY <1>2, <2>1, <2>2, Constants DEF Targets, Plans
    <2>4. PICK x : x = [rl[r] EXCEPT !.pc = "commit", !.confirmed = c, !.unverified = u]
        OBVIOUS
    <2>5. rl[r] \in Releases
        BY <1>0
    <2>6. /\ x \in Releases /\ (x.confirmed <=> c) /\ x.pc = "commit" /\ (x.current <=> rl[r].current)
        BY <2>4, <2>5 DEF Releases
    <2>7. rl' = [rl EXCEPT ![r] = x]
        BY <1>0, <1>2, <2>4
    <2>8. /\ rl' \in [Releasers -> Releases]
          /\ \A q \in Releasers : rl'[q] = IF q = r THEN x ELSE rl[q]
        BY <2>6, <2>7, OneRelease
    <2>9. /\ world' \in Worlds /\ world'.thing = world.thing
          /\ \A g \in Plans : world'.session[g] = IF g \in s THEN "gone" ELSE world.session[g]
        BY <2>3, Typed, ClosedFields
    <2>10. \A g \in Plans : Busy(world', g) => Busy(world, g)
        BY <2>9 DEF Busy
    <2>11. UNCHANGED <<job, wk, scan, asked>>
        BY DEF CloseTargets
    <2>12. c /\ job.agent = "ready" => ~Busy(world', job.op)
        <3>1. SUFFICES ASSUME c, job.agent = "ready" PROVE ~Busy(world', job.op)
            OBVIOUS
        <3>2. job.op \in Plans /\ job.op \in ours /\ world.session[job.op] \in {"live", "gone"}
            BY <1>2, <3>1, ReadyIsTarget
        <3> QED
            BY <1>2, <2>1, <2>9, <3>1, <3>2 DEF Busy
    <2>13. ReleaseTells'
        BY <1>2, <2>6, <2>8, <2>10, <2>11, <2>12, ReadyIsTarget DEF Inv, ReleaseTells
    <2>14. WorkerTells'
        BY <2>9, <2>10, <2>11, Typed DEF WorkerTells, Acquired, Open
    <2> QED
        BY <1>0, <2>3, <2>8, <2>11, <2>13, <2>14, SessionsClosed, Typed
<1>3. CASE ~(~rl[r].current \/ job.intent = "none")
    <2>1. PICK ours, hid : /\ ours = {g \in Targets(job) : Verifiable(job, g)}
                           /\ hid = (job.pane \in {"submitting", "manual_required"})
        OBVIOUS
    <2>2. PICK kept :
              /\ world' = Closed(world, {g \in ours : world.session[g] = "live"} \ kept)
              /\ rl' = [rl EXCEPT ![r].pc = "commit",
                              ![r].confirmed = kept = {} /\ ours = Targets(job),
                              ![r].unverified = kept # {} \/ ours # Targets(job) \/ hid]
        BY <1>3, <2>1 DEF CloseTargets
    <2>3. PICK c \in BOOLEAN, u \in BOOLEAN :
              /\ c = (kept = {} /\ ours = Targets(job))
              /\ u = (kept # {} \/ ours # Targets(job) \/ hid)
        BY <2>1
    <2>4. rl' = [rl EXCEPT ![r].pc = "commit", ![r].confirmed = c, ![r].unverified = u]
        BY <2>2, <2>3
    <2> QED
        BY <1>2, <1>3, <2>1, <2>2, <2>3, <2>4
<1> QED
    BY <1>1, <1>3 DEF CloseTargets

-----------------------------------------------------------------------------

\* What a write of somebody else never does to a record whose worker goes on: it finds nothing
\* missing that the worker relies on.
Gentle(j, k, w) ==
    /\ Quiescent(j) => Quiescent(k)
    /\ Acquired(j, w) => Acquired(k, w)
    /\ Unsure(k) <=> Unsure(j)
    /\ k.pane = j.pane \/ Unsure(j)
    /\ k.planned = j.planned /\ k.op = j.op /\ k.source = j.source
    /\ j.fork \in {"planned", "exists"} => k.fork = j.fork
    /\ LET making == {"dispatching", "ambiguous", "manual_required"}
       IN j.agent \in making => k.agent \in making

\* A write that keeps the core is gentle.
LEMMA CoreGentle ==
    ASSUME NEW j, NEW k, NEW w, SameCore(j, k)
    PROVE  Gentle(j, k, w)
    BY DEF SameCore, SameOps, SameAgent, SamePane, Gentle, Quiescent, Acquired, Open, Unsure,
           CheckoutPlannable

\* Two gentle writes are a gentle one.
LEMMA GentleTransitive ==
    ASSUME NEW i, NEW j, NEW k, NEW w, Gentle(i, j, w), Gentle(j, k, w)
    PROVE  Gentle(i, k, w)
    BY DEF Gentle, Unsure

\* After a write of somebody else the worker is as it was, gone, or stale.
LEMMA AfterRewrite ==
    ASSUME Inv, NEW i \in Jobs, Rewritten(i)
    PROVE  /\ job' = i /\ wk' \in Workers
           /\ \/ wk' = wk /\ (wk.pc \in {"off", "cleanup"} \/ i = job)
              \/ wk'.pc = "off"
              \/ i.owner /\ wk'.pc = wk.pc /\ ~wk'.fresh /\ wk.pc \notin {"off", "cleanup"}
<1>0. PICK k : k = wk
    OBVIOUS
<1>1. k \in Workers
    BY <1>0, Typed
<1>2. \/ wk' = k /\ (k.pc \in {"off", "cleanup"} \/ i = job)
      \/ wk' = Off
      \/ /\ i.owner /\ wk' = [k EXCEPT !.fresh = FALSE, !.outer = FALSE]
         /\ k.pc \notin {"off", "cleanup"}
    BY <1>0 DEF Rewritten
<1>3. CASE wk' = [k EXCEPT !.fresh = FALSE, !.outer = FALSE]
    BY <1>0, <1>1, <1>2, <1>3, StaleFields, OffTyped DEF Rewritten
<1> QED
    BY <1>0, <1>1, <1>2, <1>3, OffTyped DEF Rewritten

\* Somebody else's write: the worker finds all it relies on, or cannot write any more.
LEMMA ForeignWrite ==
    ASSUME Inv, NEW i \in Jobs, Rewritten(i), UNCHANGED <<world, asked>>,
           scan'.launch => scan.launch, Unsure(i) => Unsure(job),
           i.status = "asking" => job.status = "asking", i.user => job.user,
           i.owner /\ wk.pc \notin {"off", "cleanup"} => Gentle(job, i, world)
    PROVE  job' = i /\ wk' \in Workers /\ WorkerTells'
<1>1. WorkerTells
    BY Typed
<1>2. CASE wk' = wk /\ i = job
    BY <1>1, <1>2, AfterRewrite DEF WorkerTells
<1>3. CASE wk'.pc = "off" \/ (wk' = wk /\ wk.pc \in {"off", "cleanup"})
    <2>1. job' = i /\ wk'.pc \in {"off", "cleanup"}
        BY <1>3, AfterRewrite
    <2>2. scan'.launch => wk'.pc = "off" /\ ~Unsure(job')
        BY <1>1, <1>3, <2>1 DEF WorkerTells
    <2>3. job'.status = "asking" => wk'.pc = "off"
        BY <1>1, <1>3, <2>1 DEF WorkerTells
    <2> QED
        BY <2>1, <2>2, <2>3, AfterRewrite DEF WorkerTells, Early, Late
<1>4. CASE /\ i.owner /\ wk'.pc = wk.pc /\ ~wk'.fresh /\ wk.pc \notin {"off", "cleanup"}
    <2>1. job' = i /\ Gentle(job, i, world)
        BY <1>4, AfterRewrite
    <2>2. PICK j, w, p : j = job /\ w = world /\ p = wk.pc
        OBVIOUS
    <2>3. /\ p \in Early => Quiescent(i)
          /\ p \in Late => Acquired(i, w)
          /\ p \notin {"off", "paning", "fail", "cleanup"} => ~Unsure(i)
          /\ p = "clear" => \A g \in Plans : ~Busy(w, g)
          /\ p = "paning" => Unsure(i)
        BY <1>1, <2>1, <2>2 DEF WorkerTells, Gentle
    <2>4. /\ p = "submit" => i.pane = "planned"
          /\ p = "reserve" => i.pane = "created"
          /\ p \in {"submit", "paning", "reserve"} => i.planned > i.op
        BY <1>1, <2>1, <2>2 DEF WorkerTells, Gentle, Unsure
    <2>5. /\ p \in {"create", "starting"} => i.agent \in {"dispatching", "ambiguous", "manual_required"}
          /\ p \in {"fork", "forking", "materialize"} => i.source = "fork"
          /\ p = "fork" => i.fork = "planned"
          /\ p = "materialize" => i.fork = "exists"
          /\ p = "cloning" => asked["clone"] = 1 /\ i.source = "clone"
          /\ p \in {"worktree", "settle", "creating"} =>
               i.source \in Checked /\ (i.source = "fork" => i.fork = "exists")
          /\ p = "settle" => w.thing["worktree"] = "yes"
        BY <1>1, <2>1, <2>2 DEF WorkerTells, Gentle
    <2>6. /\ i.user => p \in {"off", "start", "fail", "cleanup"}
          /\ ~scan.launch /\ i.status # "asking"
        BY <1>1, <1>4, <2>2 DEF WorkerTells
    <2> QED
        BY <1>4, <2>1, <2>2, <2>3, <2>4, <2>5, <2>6, AfterRewrite DEF WorkerTells
<1> QED
    BY <1>2, <1>3, <1>4, AfterRewrite

\* Somebody else's write that leaves the core alone.
LEMMA ForeignCore ==
    ASSUME Inv, NEW i \in Jobs, Rewritten(i), UNCHANGED <<world, asked>>, scan' \in Scans,
           scan'.launch => scan.launch, SameCore(job, i),
           i.status = "asking" => job.status = "asking", i.user => job.user,
           StatusTells(i), rl' \in [Releasers -> Releases], ReleaseTells'
    PROVE  Inv'
<1>1. Gentle(job, i, world) /\ (Unsure(i) => Unsure(job))
    BY CoreGentle DEF SameCore, SamePane, Unsure
<1>2. job' = i /\ wk' \in Workers /\ WorkerTells'
    BY <1>1, ForeignWrite
<1> QED
    BY <1>2, CoreStep

\* cancel_job.
LEMMA CancelKeeps == ASSUME Inv, Cancel PROVE Inv'
<1>0. PICK j : j = job
    OBVIOUS
<1>1. PICK i : i = Staged(j, "cancelled")
    OBVIOUS
<1>2. j \in Jobs /\ "cancelled" \in Terminal
    BY <1>0, Typed DEF Terminal
<1>3. /\ i \in Jobs /\ SameCore(j, i) /\ i.status = "reconciling" /\ i.intent = "cancelled"
      /\ (i.owner <=> j.owner) /\ (i.user <=> j.user)
    BY <1>1, <1>2, StagedFields
<1>4. /\ rl' \in [Releasers -> Releases]
      /\ \A q \in Releasers : rl'[q].current => rl'[q].pc # "commit"
    BY NewTokenFields DEF Cancel, Releasers
<1>5. Rewritten(i) /\ job' = i
    BY <1>0, <1>1 DEF Cancel, Rewritten
<1>6. ReleaseTells'
    BY <1>3, <1>4, <1>5 DEF ReleaseTells
<1>7. StatusTells(i)
    BY <1>3 DEF StatusTells, Terminal
<1> QED
    BY <1>0, <1>3, <1>4, <1>5, <1>6, <1>7, ForeignCore, Typed DEF Cancel

\* resume_session_control.
LEMMA ResumeKeeps == ASSUME Inv, Resume PROVE Inv'
<1>0. PICK j : j = job
    OBVIOUS
<1>1. PICK i : i = [j EXCEPT !.user = FALSE]
    OBVIOUS
<1>2. j \in Jobs /\ StatusTells(j)
    BY <1>0, Typed DEF RecordTells
<1>3. i \in Jobs
    BY <1>1, <1>2 DEF Jobs
<1>4. /\ SameCore(j, i) /\ i.status = j.status /\ i.intent = j.intent
      /\ (i.owner <=> j.owner) /\ ~i.user
    BY <1>1, <1>2 DEF Jobs, SameCore, SameOps, SameAgent, SamePane
<1>5. Rewritten(i) /\ job' = i /\ UNCHANGED <<rl, scan, world, asked>>
    BY <1>0, <1>1 DEF Resume, Rewritten
<1>6. StatusTells(i)
    BY <1>2, <1>4 DEF StatusTells, SameCore, SameAgent, SamePane, Quiescent, Unsure
<1>7. ReleaseTells'
    BY <1>0, <1>4, <1>5, ReleaseKept DEF SameCore, SameAgent, Busy
<1> QED
    BY <1>0, <1>3, <1>4, <1>5, <1>6, <1>7, ForeignCore, Typed

\* reply_job: the user agrees, or ends the job.
LEMMA ConfirmationKeeps == ASSUME Inv, NEW s, Confirmation(s) PROVE Inv'
<1>0. PICK j, k : j = job /\ k = wk
    OBVIOUS
<1>1. j \in Jobs /\ k \in Workers /\ StatusTells(j) /\ scan \in Scans
    BY <1>0, Typed DEF RecordTells
<1>2. j.status = "asking" /\ k.pc = "off" /\ ~Unsure(j) /\ Quiescent(j) /\ ~j.owner
    BY <1>0, <1>1 DEF Confirmation, Inv, WorkerTells, StatusTells
<1>3. wk' = wk
    <2>1. PICK i : Rewritten(i)
        BY DEF Confirmation
    <2>2. wk.pc \in {"off", "cleanup"}
        BY <1>0, <1>2
    <2> QED
        BY <2>1, <2>2 DEF Rewritten
<1>4. UNCHANGED <<rl, world, asked>>
    BY DEF Confirmation
<1>5. /\ job' \in Jobs /\ SameCore(j, job') /\ job'.status \in {"queued", "completed"}
      /\ job'.intent = j.intent /\ ~job'.owner
    <2>1. CASE job' = [j EXCEPT !.status = "queued", !.confirmed = TRUE]
        <3>1. job' \in Jobs
            BY <1>1, <2>1, Named DEF Jobs
        <3> QED
            BY <1>1, <1>2, <2>1, <3>1 DEF Jobs, SameCore, SameOps, SameAgent, SamePane
    <2>2. CASE job' = [j EXCEPT !.status = "completed"]
        <3>1. job' \in Jobs
            BY <1>1, <2>2, Named DEF Jobs
        <3> QED
            BY <1>1, <1>2, <2>2, <3>1 DEF Jobs, SameCore, SameOps, SameAgent, SamePane
    <2> QED
        BY <1>0, <2>1, <2>2 DEF Confirmation, Rewritten
<1>6. scan' \in Scans
    BY <1>1 DEF Confirmation, Scans
<1>7. StatusTells(job')
    BY <1>2, <1>5 DEF StatusTells, SameCore, SameAgent, Quiescent
<1>8. ReleaseTells'
    BY <1>0, <1>4, <1>5, ReleaseKept DEF SameCore, SameAgent, Busy
<1>9. WorkerTells'
    BY <1>0, <1>2, <1>3, <1>5 DEF WorkerTells, Early, Late, SameCore, SamePane, Unsure
<1> QED
    BY <1>0, <1>1, <1>3, <1>4, <1>5, <1>6, <1>7, <1>8, <1>9, CoreStep, Typed

-----------------------------------------------------------------------------

\* What the outcome is given with.
LEMMA ReleasedFields ==
    ASSUME NEW j \in Jobs, j.intent # "none"
    PROVE  /\ Released(j) \in Jobs /\ SameOps(j, Released(j)) /\ SamePane(j, Released(j))
           /\ Released(j).status = j.intent /\ Released(j).intent = "none"
           /\ ~Released(j).owner /\ (Released(j).user <=> j.user)
           /\ Released(j).op = j.op /\ Released(j).target = 0
           /\ (Released(j).session <=> j.session)
           /\ Released(j).agent = IF j.op # 0 \/ j.agent # "none" THEN "confirmed_absent" ELSE j.agent
           /\ j.intent \in Terminal
<1>1. PICK s, o : /\ s = IF j.op # 0 \/ j.agent # "none" THEN "confirmed_absent" ELSE j.agent
                  /\ o = j.intent
    OBVIOUS
<1>2. s \in Agents /\ o \in Statuses /\ o \in Terminal
    BY <1>1, JobFields, Named DEF Intents
<1>3. PICK i : i = [[[j EXCEPT !.owner = FALSE] EXCEPT !.target = 0, !.role = 0] EXCEPT
                        !.status = o, !.intent = "none", !.release = "none", !.agent = s,
                        !.prompt = "none", !.unverified = FALSE]
    OBVIOUS
<1>4. Released(j) = i
    BY <1>1, <1>3 DEF Released, NoTarget, NoWorker, Jobs
<1>5. 0 \in PlanNos /\ 0 \in RoleNos
    BY Constants DEF PlanNos, RoleNos
<1>6. i \in Jobs
    BY <1>2, <1>3, <1>5, Named DEF Jobs
<1>7. /\ SameOps(j, i) /\ SamePane(j, i) /\ i.status = o /\ i.intent = "none"
      /\ ~i.owner /\ (i.user <=> j.user) /\ i.op = j.op /\ i.target = 0
      /\ (i.session <=> j.session) /\ i.agent = s
    BY <1>3 DEF Jobs, SameOps, SamePane
<1> QED
    BY <1>1, <1>2, <1>4, <1>6, <1>7

\* An outcome is given.
LEMMA ReleaseGiven ==
    ASSUME Inv, NEW r \in Releasers, rl[r].current, job.intent # "none", rl[r].pc = "commit",
           rl[r].confirmed, ~UncertainForRelease(job), Rewritten(Released(job)),
           UNCHANGED <<scan, world, asked>>,
           rl' = [q \in Releasers |-> IF q = r THEN Idle ELSE [rl[q] EXCEPT !.current = FALSE]]
    PROVE  Inv'
<1>0. PICK j, w : j = job /\ w = world
    OBVIOUS
<1>1. /\ j \in Jobs /\ w \in Worlds /\ RecordTells(j, w, asked) /\ AgentTells(j, w)
      /\ rl \in [Releasers -> Releases]
    BY <1>0, Typed DEF RecordTells
<1>2. PICK i : i = Released(j)
    OBVIOUS
<1>3. /\ i \in Jobs /\ SameOps(j, i) /\ SamePane(j, i) /\ i.status = j.intent /\ i.intent = "none"
      /\ ~i.owner /\ (i.user <=> j.user) /\ i.op = j.op /\ i.target = 0
      /\ (i.session <=> j.session) /\ j.intent \in Terminal
      /\ i.agent = IF j.op # 0 \/ j.agent # "none" THEN "confirmed_absent" ELSE j.agent
    BY <1>0, <1>1, <1>2, ReleasedFields
<1>4. j.agent \in {"none", "ready", "confirmed_absent"}
    BY <1>0, <1>1, JobFields DEF UncertainForRelease, Agents
<1>5. \A g \in Plans : ~Busy(w, g)
    BY <1>0, <1>1, <1>4 DEF Inv, ReleaseTells, AgentTells, Quiescent
<1>6. Quiescent(i) /\ StatusTells(i)
    BY <1>3 DEF Quiescent, StatusTells, Terminal
<1>7. PaneTells(i, w) /\ TriesTell(i, w)
    BY <1>1, <1>3, <1>6, PaneDropped, TriesKept DEF RecordTells, Quiescent, Doubtful
<1>8. RecordTells(i, w, asked)
    <2>1. CASE j.agent # "none"
        BY <1>1, <1>3, <1>5, <1>6, <1>7, <2>1, AgentAbsent DEF SameOps, SameAssets
    <2>2. CASE j.agent = "none"
        <3>1. j.op = 0 /\ j.target = 0
            BY <1>1, <2>2 DEF AgentTells
        <3>2. SameCore(j, i)
            BY <1>3, <2>2, <3>1 DEF SameCore, SameAgent
        <3> QED
            BY <1>1, <1>3, <1>6, <3>2, CoreKept
    <2> QED
        BY <2>1, <2>2
<1>9. \A q \in Releasers : rl'[q] \in Releases /\ ~rl'[q].current
    BY <1>1, ReleaseFields
<1>10. rl' \in [Releasers -> Releases] /\ ReleaseTells'
    BY <1>9 DEF ReleaseTells
<1>11. Unsure(i) => Unsure(job)
    BY <1>0, <1>3 DEF SamePane, Unsure
<1>12. job' = i /\ wk' \in Workers /\ WorkerTells'
    BY <1>0, <1>2, <1>3, <1>11, ForeignWrite DEF Terminal
<1> QED
    BY <1>0, <1>3, <1>8, <1>10, <1>12, InvNext, Typed

\* A release that cannot be confirmed is written down, and left to the next one.
LEMMA ReleaseLeft ==
    ASSUME Inv, NEW r \in Releasers, rl[r].unverified \in BOOLEAN,
           Rewritten(IF job.release = "owned"
                     THEN [job EXCEPT !.release = "pending", !.unverified = rl[r].unverified]
                     ELSE IF rl[r].unverified THEN [job EXCEPT !.unverified = TRUE] ELSE job),
           UNCHANGED <<scan, world, asked>>, rl' = [rl EXCEPT ![r] = Idle]
    PROVE  Inv'
<1>0. PICK j, u : j = job /\ u = rl[r].unverified
    OBVIOUS
<1>1. j \in Jobs /\ StatusTells(j) /\ u \in BOOLEAN
    BY <1>0, Typed DEF RecordTells
<1>2. PICK i : i = IF j.release = "owned" THEN [j EXCEPT !.release = "pending", !.unverified = u]
                   ELSE IF u THEN [j EXCEPT !.unverified = TRUE] ELSE j
    OBVIOUS
<1>3. Rewritten(i)
    BY <1>0, <1>2
<1>4. i \in Jobs
    <2>1. CASE i = [j EXCEPT !.release = "pending", !.unverified = u]
        BY <1>1, <2>1, Named DEF Jobs
    <2>2. CASE i = [j EXCEPT !.unverified = TRUE]
        BY <1>1, <2>2 DEF Jobs
    <2> QED
        BY <1>1, <1>2, <2>1, <2>2
<1>5. SameCore(j, i) /\ SameLife(j, i)
    BY <1>1, <1>2 DEF Jobs, SameCore, SameOps, SameAgent, SamePane, SameLife
<1>6. StatusTells(i)
    BY <1>1, <1>5 DEF StatusTells, SameCore, SameAgent, SamePane, SameLife, Quiescent, Unsure
<1>7. /\ rl' \in [Releasers -> Releases]
      /\ \A q \in Releasers : rl'[q] = IF q = r THEN Idle ELSE rl[q]
    BY OneRelease, ReleaseFields
<1>8. job' = i
    BY <1>3 DEF Rewritten
<1>9. ReleaseTells'
    BY <1>0, <1>5, <1>7, <1>8, ReleaseFields, Typed DEF ReleaseTells, SameCore, SameAgent, SameLife
<1> QED
    BY <1>0, <1>3, <1>4, <1>5, <1>6, <1>7, <1>9, ForeignCore, Typed DEF SameLife

\* settle_cleanup.
LEMMA CommitReleaseKeeps == ASSUME Inv, NEW r \in Releasers, CommitRelease(r) PROVE Inv'
<1>1. CASE UNCHANGED <<job, wk>> /\ rl' = [rl EXCEPT ![r] = Idle]
    <2>1. /\ rl' \in [Releasers -> Releases]
          /\ \A q \in Releasers : rl'[q] = IF q = r THEN Idle ELSE rl[q]
        BY <1>1, OneRelease, ReleaseFields
    <2> QED
        BY <1>1, <2>1, ReleasesStep, ReleaseFields, Typed DEF CommitRelease
<1>2. rl[r].unverified \in BOOLEAN
    BY Typed DEF Releases
<1> QED
    BY <1>1, <1>2, ReleaseGiven, ReleaseLeft DEF CommitRelease

-----------------------------------------------------------------------------

\* A session of unknown outcome becomes the operator's.
LEMMA AgentManual ==
    ASSUME NEW j \in Jobs, NEW w \in Worlds, NEW a, RecordTells(j, w, a),
           j.agent \in {"dispatching", "submitted", "ambiguous", "failed_observing"}
    PROVE  LET k == Manual([j EXCEPT !.agent = "manual_required"], "agent")
           IN /\ k \in Jobs /\ RecordTells(k, w, a) /\ SameOps(j, k) /\ SamePane(j, k)
              /\ SameLife(j, k) /\ k.op = j.op /\ k.target = j.target /\ k.agent = "manual_required"
              /\ ~k.session
<1>0. PICK k : k = Manual([j EXCEPT !.agent = "manual_required"], "agent")
    OBVIOUS
<1>1. k = [[j EXCEPT !.agent = "manual_required"] EXCEPT !.slot = "agent"]
    BY <1>0 DEF Manual
<1>2. k \in Jobs
    BY <1>1, Named DEF Jobs
<1>3. /\ SameOps(j, k) /\ SamePane(j, k) /\ SameLife(j, k) /\ k.op = j.op /\ k.target = j.target
      /\ k.agent = "manual_required" /\ (k.session <=> j.session)
    BY <1>1 DEF Jobs, SameOps, SamePane, SameLife
<1>4. ~j.session /\ ~Quiescent(j)
    BY DEF RecordTells, AgentTells, Quiescent
<1>5. AskTells(k, a)
    BY <1>3 DEF SameOps, RecordTells, AskTells, ForkAskable, CheckoutPlannable
<1>6. AgentTells(k, w)
    BY <1>3, <1>4 DEF RecordTells, AgentTells, Quiescent
<1>7. SourceTells(k, w)
    BY <1>3 DEF SameOps, RecordTells, SourceTells, Acquired, Open, CheckoutPlannable
<1>8. PaneTells(k, w) /\ TriesTell(k, w)
    BY <1>2, <1>3, PaneDropped, TriesKept DEF RecordTells, Doubtful
<1>9. StatusTells(k)
    BY <1>3, <1>4 DEF RecordTells, StatusTells, SameLife
<1> QED
    BY <1>0, <1>2, <1>3, <1>4, <1>5, <1>6, <1>7, <1>8, <1>9 DEF RecordTells

\* relinquish_session_control.
LEMMA RelinquishKeeps == ASSUME Inv, Relinquish PROVE Inv'
<1>0. PICK j, k, w, a : j = job /\ k = wk /\ w = world /\ a = asked
    OBVIOUS
<1>1. j \in Jobs /\ k \in Workers /\ w \in Worlds /\ RecordTells(j, w, a) /\ scan \in Scans
    BY <1>0, Typed
<1>2. PICK s, m : /\ s = IF j.owner THEN "queued" ELSE j.status
                  /\ m = IF j.prompt \in {"submitting", "submitted"} THEN "ambiguous" ELSE j.prompt
    OBVIOUS
<1>3. s \in Statuses /\ m \in Prompts
    BY <1>1, <1>2, Named DEF Jobs
<1>4. PICK p : p = [[j EXCEPT !.owner = FALSE] EXCEPT !.user = TRUE, !.status = s, !.prompt = m]
    OBVIOUS
<1>5. p \in Jobs
    BY <1>1, <1>3, <1>4 DEF Jobs
<1>6. /\ SameCore(j, p) /\ p.status = s /\ ~p.owner /\ p.intent = j.intent
    BY <1>1, <1>4 DEF Jobs, SameCore, SameOps, SameAgent, SamePane
<1>7. PICK q : q = IF p.prompt = "ambiguous" /\ p.slot = "none" THEN Manual(p, "prompt") ELSE p
    OBVIOUS
<1>8. /\ q \in Jobs /\ SameCore(p, q) /\ q.status = s /\ ~q.owner /\ q.intent = j.intent
    <2>1. CASE q = p
        BY <1>5, <1>6, <2>1 DEF SameCore, SameOps, SameAgent, SamePane
    <2>2. CASE q = Manual(p, "prompt")
        BY <1>5, <1>6, <2>2, ManualFields, Named
    <2> QED
        BY <1>7, <2>1, <2>2
<1>9. SameCore(j, q)
    BY <1>6, <1>8, CoreTransitive
<1>10. j.status \notin Terminal
    BY <1>0 DEF Relinquish
<1>11. StatusTells(q)
    BY <1>1, <1>2, <1>8, <1>9, <1>10 DEF RecordTells, StatusTells, SameCore, SameAgent, SamePane,
       Quiescent, Unsure, Terminal
<1>12. RecordTells(q, w, a)
    BY <1>1, <1>8, <1>9, <1>11, CoreKept
<1>13. job' = IF q.agent \in {"dispatching", "ambiguous", "failed_observing"} /\ q.slot = "none"
              THEN Manual([q EXCEPT !.agent = "manual_required"], "agent") ELSE q
    BY <1>0, <1>1, <1>2, <1>4, <1>7 DEF Relinquish, NoWorker, Jobs
<1>14. /\ job' \in Jobs /\ RecordTells(job', w, a) /\ SameOps(q, job') /\ SamePane(q, job')
       /\ SameLife(q, job') /\ job'.op = q.op /\ (job'.agent = "ready" => q.agent = "ready")
    <2>1. CASE job' = q
        BY <1>8, <1>12, <2>1 DEF SameOps, SamePane, SameLife
    <2>2. CASE /\ q.agent \in {"dispatching", "ambiguous", "failed_observing"}
               /\ job' = Manual([q EXCEPT !.agent = "manual_required"], "agent")
        BY <1>1, <1>8, <1>12, <2>2, AgentManual
    <2> QED
        BY <1>13, <2>1, <2>2
<1>15. UNCHANGED <<scan, world, asked>>
    BY DEF Relinquish
<1>16. ReleaseTells' /\ rl' \in [Releasers -> Releases]
    BY <1>0, <1>8, <1>9, <1>14, <1>15, ReleaseKept, WorkerReleaseEnds, Typed
    DEF Relinquish, SameCore, SameAgent, SameLife, Busy
<1>17. wk' \in Workers /\ (wk'.pc = "off" \/ (wk'.pc = "cleanup" /\ wk' = wk /\ ~j.owner))
    BY <1>0, <1>1, OffTyped DEF Relinquish
<1>18. Unsure(job') <=> Unsure(job)
    BY <1>0, <1>9, <1>14 DEF SameCore, SamePane, Unsure
<1>19. /\ scan'.launch => wk'.pc = "off" /\ ~Unsure(job')
       /\ job'.status = "asking" => wk'.pc = "off"
    BY <1>0, <1>2, <1>8, <1>14, <1>15, <1>17, <1>18, Typed DEF WorkerTells, SameLife
<1>20. WorkerTells'
    BY <1>17, <1>19 DEF WorkerTells, Early, Late
<1> QED
    BY <1>0, <1>1, <1>14, <1>15, <1>16, <1>17, <1>20, InvNext, Typed

-----------------------------------------------------------------------------

\* A checkout that was reserved is found, missed, observed or given up.
LEMMA CheckoutObserved ==
    ASSUME NEW j \in Jobs, NEW k \in Jobs, NEW w \in Worlds, NEW a, RecordTells(j, w, a),
           ~CheckoutPlannable(j), ~CheckoutPlannable(k), k.worktree = "ready" \/ j.worktree # "ready",
           k.worktree = "quarantined" => w.thing["worktree"] = "yes",
           SameAgent(j, k), SamePane(j, k), StatusTells(k), k.source = j.source, k.fork = j.fork,
           k.clone = j.clone, k.reconcile <=> j.reconcile,
           Open(k, w) => Open(j, w) /\ k.tries < UncertainMax /\ k.absent <= k.tries,
           \/ k.tries = j.tries /\ k.absent = j.absent
           \/ Open(j, w) /\ k.absent <= UncertainMax
    PROVE  RecordTells(k, w, a) /\ (Acquired(j, w) => Acquired(k, w))
<1>1. AskTells(k, a)
    BY DEF RecordTells, AskTells, ForkAskable
<1>2. AgentTells(k, w)
    BY DEF RecordTells, AgentTells, SameAgent, Quiescent
<1>3. PaneTells(k, w)
    BY PaneDropped DEF RecordTells, SameAgent
<1>4. Acquired(j, w) => Acquired(k, w)
    BY DEF Acquired
<1>5. j.worktree # "none" /\ k.worktree # "none" /\ (j.source = "fork" => j.fork = "exists")
    BY DEF RecordTells, SourceTells, CheckoutPlannable
<1>6. SourceTells(k, w)
    BY <1>4, <1>5 DEF RecordTells, SourceTells, SameAgent
<1>7. TriesTell(k, w)
    <2>1. k.fork \notin Doubtful
        BY <1>5 DEF RecordTells, SourceTells, Doubtful
    <2>2. Open(j, w) => k.agent \notin Doubtful
        BY DEF RecordTells, SourceTells, Acquired, SameAgent, Doubtful
    <2> QED
        BY <2>1, <2>2 DEF RecordTells, TriesTell, SameAgent
<1> QED
    BY <1>1, <1>2, <1>3, <1>4, <1>6, <1>7 DEF RecordTells

\* A fork that was asked for and is not settled is found, observed or given up.
LEMMA ForkObserved ==
    ASSUME NEW j \in Jobs, NEW k \in Jobs, NEW w \in Worlds, NEW a, RecordTells(j, w, a),
           ~ForkAskable(j), j.fork # "exists", ~ForkAskable(k),
           SameAgent(j, k), SamePane(j, k), StatusTells(k), k.source = j.source,
           k.worktree = j.worktree, k.clone = j.clone, k.reconcile <=> j.reconcile,
           k.absent <= UncertainMax,
           k.fork \in Doubtful => k.tries < UncertainMax /\ k.absent <= k.tries
    PROVE  RecordTells(k, w, a) /\ ~Acquired(j, w)
<1>1. /\ j.source = "fork" /\ j.worktree = "none" /\ ~Acquired(j, w)
      /\ j.agent = "none" /\ ~j.reconcile
    BY DEF RecordTells, SourceTells, ForkAskable, Acquired
<1>2. AskTells(k, a)
    BY DEF RecordTells, AskTells, CheckoutPlannable
<1>3. AgentTells(k, w)
    BY DEF RecordTells, AgentTells, SameAgent, Quiescent
<1>4. PaneTells(k, w)
    BY PaneDropped DEF RecordTells, SameAgent
<1>5. SourceTells(k, w)
    BY <1>1 DEF SourceTells, SameAgent, Checked
<1>6. TriesTell(k, w)
    BY <1>1 DEF TriesTell, SameAgent, Open, Doubtful
<1> QED
    BY <1>1, <1>2, <1>3, <1>4, <1>5, <1>6 DEF RecordTells

\* acknowledge_worktree_quarantine.
LEMMA AcknowledgeQuarantineKeeps == ASSUME Inv, AcknowledgeQuarantine PROVE Inv'
<1>0. PICK j, w, a, s : /\ j = job /\ w = world /\ a = asked
                        /\ s = IF j.located THEN "retained" ELSE "ambiguous"
    OBVIOUS
<1>1. /\ j \in Jobs /\ w \in Worlds /\ RecordTells(j, w, a) /\ s \in OpStates
      /\ s \in {"retained", "ambiguous"}
    BY <1>0, Typed, Named
<1>2. PICK i : i = [j EXCEPT !.worktree = s, !.inspect = FALSE]
    OBVIOUS
<1>3. i \in Jobs
    BY <1>1, <1>2 DEF Jobs
<1>4. /\ SameAgent(j, i) /\ SamePane(j, i) /\ SameLife(j, i) /\ i.source = j.source
      /\ i.fork = j.fork /\ i.clone = j.clone /\ (i.reconcile <=> j.reconcile)
      /\ i.worktree = s /\ i.tries = j.tries /\ i.absent = j.absent
    BY <1>1, <1>2 DEF Jobs, SameAgent, SamePane, SameLife
<1>5. j.worktree = "quarantined" /\ w.thing["worktree"] = "yes"
    BY <1>0, <1>1 DEF AcknowledgeQuarantine, RecordTells, SourceTells
<1>6. ~CheckoutPlannable(j) /\ ~CheckoutPlannable(i) /\ ~Open(i, w)
    BY <1>1, <1>4, <1>5 DEF CheckoutPlannable, Open
<1>7. StatusTells(i)
    BY <1>1, <1>4 DEF RecordTells, StatusTells, SameLife, SameAgent, SamePane, Quiescent, Unsure
<1>8. RecordTells(i, w, a) /\ (Acquired(j, w) => Acquired(i, w))
    BY <1>1, <1>3, <1>4, <1>5, <1>6, <1>7, CheckoutObserved
<1>9. Gentle(j, i, w) /\ (Unsure(i) => Unsure(j))
    BY <1>4, <1>8 DEF Gentle, SameAgent, SamePane, Quiescent, Unsure
<1>10. Rewritten(i) /\ UNCHANGED <<rl, scan, world, asked>>
    BY <1>0, <1>2 DEF AcknowledgeQuarantine
<1>11. job' = i /\ wk' \in Workers /\ WorkerTells'
    BY <1>0, <1>3, <1>4, <1>9, <1>10, ForeignWrite DEF SameLife
<1>12. ReleaseTells'
    BY <1>0, <1>4, <1>10, <1>11, ReleaseKept DEF SameLife, SameAgent
<1> QED
    BY <1>0, <1>3, <1>8, <1>10, <1>11, <1>12, InvNext, Typed

\* What the operator settles: the record is true, and nothing new is on its way.
LEMMA SettledKeeps ==
    ASSUME Inv, NEW s \in Settled(job),
           job.slot = "prompt" => job.prompt = "ambiguous",
           job.slot = "pane" => job.pane = "manual_required",
           job.slot \in {"agent", "fork", "worktree"} => OpOf(job, job.slot) = "manual_required"
    PROVE  /\ s \in Jobs /\ RecordTells(s, world, asked) /\ SameLife(job, s) /\ s.op = job.op
           /\ Unsure(s) => Unsure(job)
           /\ s.agent \in {job.agent, "confirmed_absent"}
<1>0. PICK j, w, a : j = job /\ w = world /\ a = asked
    OBVIOUS
<1>1. j \in Jobs /\ w \in Worlds /\ RecordTells(j, w, a)
    BY <1>0, Typed
<1>2. CASE j.slot = "agent"
    <2>1. j.agent = "manual_required"
        BY <1>0, <1>2 DEF OpOf
    <2>2. ~j.session /\ ~Quiescent(j)
        BY <1>1, <2>1 DEF RecordTells, AgentTells, Quiescent
    <2>3. w.session[j.op] \in {"no", "gone"} /\ s = [NoTarget(j) EXCEPT !.agent = "confirmed_absent"]
        BY <1>0, <1>2, <2>2 DEF Settled
    <2>4. s = [[j EXCEPT !.target = 0, !.role = 0] EXCEPT !.agent = "confirmed_absent"]
        BY <2>3 DEF NoTarget
    <2>5. 0 \in PlanNos /\ 0 \in RoleNos
        BY Constants DEF PlanNos, RoleNos
    <2>6. s \in Jobs
        BY <1>1, <2>4, <2>5, Named DEF Jobs
    <2>7. /\ SameOps(j, s) /\ SamePane(j, s) /\ SameLife(j, s) /\ s.op = j.op /\ s.target = 0
          /\ s.agent = "confirmed_absent" /\ (s.session <=> j.session)
        BY <1>1, <2>4 DEF Jobs, SameOps, SamePane, SameLife
    <2>8. \A g \in Plans : ~Busy(w, g)
        BY <1>1, <2>3 DEF RecordTells, AgentTells, Busy
    <2>9. PaneTells(s, w) /\ TriesTell(s, w)
        BY <1>1, <2>6, <2>7, PaneDropped, TriesKept DEF RecordTells, Doubtful
    <2>10. StatusTells(s)
        BY <1>1, <2>2, <2>7 DEF RecordTells, StatusTells, SameLife
    <2>11. RecordTells(s, w, a)
        BY <1>1, <2>1, <2>6, <2>7, <2>8, <2>9, <2>10, AgentAbsent DEF SameOps, SameAssets
    <2> QED
        BY <1>0, <2>6, <2>7, <2>11 DEF SamePane, Unsure
<1>3. CASE j.slot = "fork"
    <2>1. j.fork = "manual_required"
        BY <1>0, <1>3 DEF OpOf
    <2>2. PICK f : f \in {"retained", "confirmed_absent"} /\ s = [j EXCEPT !.fork = f]
        BY <1>0, <1>3 DEF Settled
    <2>3. f \in OpStates
        BY <2>2, Named
    <2>4. /\ s \in Jobs /\ SameAgent(j, s) /\ SamePane(j, s) /\ SameLife(j, s)
          /\ s.source = j.source /\ s.fork = f /\ s.clone = j.clone
          /\ s.worktree = j.worktree /\ (s.reconcile <=> j.reconcile)
          /\ s.tries = j.tries /\ s.absent = j.absent
        BY <1>1, <2>2, <2>3, ForkFields
    <2>5. StatusTells(s)
        BY <1>1, <2>4 DEF RecordTells, StatusTells, SameLife, SameAgent, SamePane, Quiescent, Unsure
    <2>6. s.absent <= UncertainMax
        BY <1>1, <2>4 DEF RecordTells, TriesTell
    <2>7. ~ForkAskable(j) /\ j.fork # "exists" /\ ~ForkAskable(s) /\ s.fork \notin Doubtful
        BY <2>1, <2>2, <2>4 DEF ForkAskable, Doubtful
    <2>8. RecordTells(s, w, a)
        BY <1>1, <2>4, <2>5, <2>6, <2>7, ForkObserved
    <2> QED
        BY <1>0, <2>4, <2>8 DEF SameAgent, SamePane, Unsure
<1>4. CASE j.slot = "worktree"
    <2>1. j.worktree = "manual_required"
        BY <1>0, <1>4 DEF OpOf
    <2>2. /\ s \in Jobs /\ SameAgent(j, s) /\ SamePane(j, s) /\ SameLife(j, s)
          /\ s.source = j.source /\ s.fork = j.fork /\ s.clone = j.clone
          /\ s.worktree \in {"retained", "confirmed_absent"} /\ (s.reconcile <=> j.reconcile)
          /\ s.tries = j.tries /\ s.absent = j.absent
        <3>1. CASE s = [j EXCEPT !.worktree = "retained", !.located = TRUE]
            <4>1. s \in Jobs
                BY <1>1, <3>1, Named DEF Jobs
            <4> QED
                BY <1>1, <3>1, <4>1 DEF Jobs, SameAgent, SamePane, SameLife
        <3>2. CASE s = [j EXCEPT !.worktree = "confirmed_absent"]
            <4>1. s \in Jobs
                BY <1>1, <3>2, Named DEF Jobs
            <4> QED
                BY <1>1, <3>2, <4>1 DEF Jobs, SameAgent, SamePane, SameLife
        <3> QED
            BY <1>0, <1>4, <3>1, <3>2 DEF Settled
    <2>3. ~CheckoutPlannable(j) /\ ~CheckoutPlannable(s) /\ ~Open(s, w)
        BY <2>1, <2>2 DEF CheckoutPlannable, Open, Doubtful
    <2>4. StatusTells(s)
        BY <1>1, <2>2 DEF RecordTells, StatusTells, SameLife, SameAgent, SamePane, Quiescent, Unsure
    <2>5. RecordTells(s, w, a)
        BY <1>1, <2>1, <2>2, <2>3, <2>4, CheckoutObserved
    <2> QED
        BY <1>0, <2>2, <2>5 DEF SameAgent, SamePane, Unsure
<1>5. CASE j.slot = "pane"
    <2>1. j.pane = "manual_required" /\ Unsure(j)
        BY <1>0, <1>5 DEF Unsure
    <2>2. PICK p, n : /\ w.pane[j.planned] # "asked"
                      /\ \/ p = "created" /\ n = j.planned /\ w.pane[j.planned] = "open"
                         \/ p = "none" /\ n = 0
                      /\ s = [j EXCEPT !.pane = p, !.planned = n]
        <3>1. CASE w.pane[j.planned] = "open" /\ s = [j EXCEPT !.pane = "created"]
            <4>1. s = [j EXCEPT !.pane = "created", !.planned = j.planned]
                BY <1>1, <3>1 DEF Jobs
            <4> QED
                BY <3>1, <4>1
        <3>2. CASE w.pane[j.planned] # "asked" /\ s = [j EXCEPT !.pane = "none", !.planned = 0]
            BY <3>2
        <3> QED
            BY <1>0, <1>5, <3>1, <3>2 DEF Settled
    <2>3. p \in PaneStates /\ n \in PlanNos
        BY <1>1, <2>2, Named, Constants DEF Jobs, PlanNos
    <2>4. s \in Jobs
        BY <1>1, <2>2, <2>3 DEF Jobs
    <2>5. SameAgent(j, s) /\ SameOps(j, s) /\ SameLife(j, s) /\ s.pane = p /\ s.planned = n
        BY <1>1, <2>2 DEF Jobs, SameAgent, SameOps, SameLife
    <2>6. \A g \in Plans : w.pane[g] # "asked"
        BY <1>1, <2>2 DEF RecordTells, PaneTells
    <2>7. PaneTells(s, w)
        BY <1>1, <2>1, <2>2, <2>5, <2>6 DEF RecordTells, PaneTells, SameAgent, Unsure
    <2>8. AskTells(s, a) /\ SourceTells(s, w) /\ TriesTell(s, w)
        BY <1>1, <2>5, OpsKept DEF SameAgent
    <2>9. AgentTells(s, w)
        BY <1>1, <2>5 DEF RecordTells, AgentTells, SameAgent, Quiescent
    <2>10. StatusTells(s)
        BY <1>1, <2>2, <2>5 DEF RecordTells, StatusTells, SameLife, SameAgent, Quiescent, Unsure
    <2> QED
        BY <1>0, <2>1, <2>4, <2>5, <2>7, <2>8, <2>9, <2>10 DEF RecordTells, SameAgent
<1>6. CASE j.slot = "prompt"
    <2>1. PICK p : p \in {"submitted", "used"} /\ s = [j EXCEPT !.prompt = p]
        BY <1>0, <1>6 DEF Settled
    <2>2. /\ s \in Jobs /\ SameCore(j, s) /\ s.status = j.status
          /\ s.intent = j.intent /\ (s.owner <=> j.owner) /\ (s.user <=> j.user)
        BY <1>1, <2>1, PromptFields, Named
    <2>3. StatusTells(s)
        BY <1>1, <2>2 DEF RecordTells, StatusTells, SameCore, SameAgent, SamePane, Quiescent, Unsure
    <2>4. RecordTells(s, w, a)
        BY <1>1, <2>2, <2>3, CoreKept
    <2> QED
        BY <1>0, <2>2, <2>4 DEF SameCore, SameAgent, SamePane, SameLife, Unsure
<1>7. CASE j.slot = "none"
    BY <1>0, <1>7 DEF Settled
<1> QED
    BY <1>1, <1>2, <1>3, <1>4, <1>5, <1>6, <1>7 DEF Jobs, Slots

\* resolve_manual_operation.
LEMMA ResolveKeeps == ASSUME Inv, Resolve PROVE Inv'
<1>0. PICK j, w, a : j = job /\ w = world /\ a = asked
    OBVIOUS
<1>1. j \in Jobs /\ w \in Worlds /\ RecordTells(j, w, a)
    BY <1>0, Typed
<1>2. PICK s, h :
        /\ s \in Settled(job)
        /\ h = [NoWorker(s) EXCEPT !.slot = "none",
                                   !.release = IF @ = "owned" THEN "pending" ELSE @]
        /\ Rewritten(IF /\ job.slot = "prompt" /\ h.user
                        /\ h.agent \in {"dispatching", "ambiguous", "failed_observing"}
                     THEN Manual([h EXCEPT !.agent = "manual_required"], "agent") ELSE h)
    BY DEF Resolve
<1>3. /\ s \in Jobs /\ RecordTells(s, w, a) /\ SameLife(j, s) /\ s.op = j.op
      /\ Unsure(s) => Unsure(j)
      /\ s.agent \in {j.agent, "confirmed_absent"}
    BY <1>0, <1>2, SettledKeeps DEF Resolve
<1>4. PICK e : e = IF s.release = "owned" THEN "pending" ELSE s.release
    OBVIOUS
<1>5. e \in Holds
    BY <1>3, <1>4, JobFields, Named
<1>6. h = [[s EXCEPT !.owner = FALSE] EXCEPT !.slot = "none", !.release = e]
    BY <1>2, <1>3, <1>4 DEF NoWorker, Jobs
<1>7. h \in Jobs
    BY <1>3, <1>5, <1>6, Named DEF Jobs
<1>8. /\ SameCore(s, h) /\ ~h.owner /\ h.status = s.status /\ h.intent = s.intent
      /\ (h.user <=> s.user)
    BY <1>3, <1>6 DEF Jobs, SameCore, SameOps, SameAgent, SamePane
<1>9. StatusTells(h)
    BY <1>3, <1>8 DEF RecordTells, StatusTells, SameCore, SameAgent, SamePane, Quiescent, Unsure
<1>10. RecordTells(h, w, a)
    BY <1>3, <1>7, <1>8, <1>9, CoreKept
<1>11. PICK i : i = IF /\ j.slot = "prompt" /\ h.user
                       /\ h.agent \in {"dispatching", "ambiguous", "failed_observing"}
                    THEN Manual([h EXCEPT !.agent = "manual_required"], "agent") ELSE h
    OBVIOUS
<1>12. /\ i \in Jobs /\ RecordTells(i, w, a) /\ SamePane(h, i)
       /\ SameLife(h, i) /\ i.op = h.op /\ i.agent \in {h.agent, "manual_required"}
    <2>1. CASE i = h
        BY <1>7, <1>10, <2>1 DEF SamePane, SameLife
    <2>2. CASE /\ h.agent \in {"dispatching", "ambiguous", "failed_observing"}
               /\ i = Manual([h EXCEPT !.agent = "manual_required"], "agent")
        BY <1>1, <1>7, <1>10, <2>2, AgentManual
    <2> QED
        BY <1>11, <2>1, <2>2
<1>13. Rewritten(i) /\ UNCHANGED <<rl, scan, world, asked>>
    BY <1>0, <1>2, <1>11 DEF Resolve
<1>14. /\ ~i.owner /\ (Unsure(i) => Unsure(job)) /\ i.status = job.status /\ i.intent = job.intent
       /\ (i.user <=> job.user) /\ i.op = job.op /\ (i.agent = "ready" => job.agent = "ready")
    BY <1>0, <1>3, <1>8, <1>12 DEF SameCore, SamePane, SameAgent, SameLife, Unsure
<1>15. job' = i /\ wk' \in Workers /\ WorkerTells'
    BY <1>12, <1>13, <1>14, ForeignWrite
<1>16. ReleaseTells'
    BY <1>13, <1>14, <1>15, ReleaseKept
<1> QED
    BY <1>0, <1>12, <1>13, <1>15, <1>16, InvNext, Typed

-----------------------------------------------------------------------------

\* A fork, a clone or a worktree arrives, or is lost.
LEMMA ThingLandsKeeps == ASSUME Inv, ThingLands PROVE Inv'
<1>0. PICK j, w, a : j = job /\ w = world /\ a = asked
    OBVIOUS
<1>1. j \in Jobs /\ w \in Worlds /\ RecordTells(j, w, a)
    BY <1>0, Typed
<1>2. PICK n \in Kinds, v \in {"yes", "no"} :
        w.thing[n] = "asked" /\ world' = [w EXCEPT !.thing[n] = v]
    BY <1>0 DEF ThingLands
<1>3. PICK x : x = world'
    OBVIOUS
<1>4. /\ x \in Worlds /\ x.pane = w.pane /\ x.session = w.session
      /\ \A g \in Kinds : x.thing[g] = IF g = n THEN v ELSE w.thing[g]
    BY <1>1, <1>2, <1>3 DEF Worlds
<1>5. w.thing["worktree"] = "yes" => x.thing["worktree"] = "yes"
    BY <1>2, <1>4, KindsAre
<1>6. (Open(j, x) => Open(j, w)) /\ (Acquired(j, w) => Acquired(j, x))
    BY <1>5 DEF Open, Acquired
<1>7. SourceTells(j, x) /\ TriesTell(j, x)
    BY <1>1, <1>5, <1>6 DEF RecordTells, SourceTells, TriesTell
<1>8. AgentTells(j, x) /\ PaneTells(j, x)
    BY <1>1, <1>4 DEF RecordTells, AgentTells, PaneTells, Busy
<1>9. RecordTells(j, x, a)
    BY <1>1, <1>7, <1>8 DEF RecordTells
<1>10. UNCHANGED <<job, wk, rl, scan, asked>>
    BY DEF ThingLands
<1>11. WorkerTells'
    BY <1>0, <1>3, <1>4, <1>5, <1>6, <1>10, Typed DEF WorkerTells, Busy
<1>12. ReleaseTells'
    BY <1>0, <1>3, <1>4, <1>10, ReleaseKept DEF Busy
<1> QED
    BY <1>0, <1>3, <1>4, <1>9, <1>10, <1>11, <1>12, InvNext, Typed

\* A pane arrives, or is lost: the last one planned.
LEMMA PaneLandsKeeps == ASSUME Inv, PaneLands PROVE Inv'
<1>0. PICK j, w, a : j = job /\ w = world /\ a = asked
    OBVIOUS
<1>1. j \in Jobs /\ w \in Worlds /\ RecordTells(j, w, a) /\ PaneTells(j, w)
    BY <1>0, Typed DEF RecordTells
<1>2. PICK n \in Plans, v \in {"open", "no"} :
        w.pane[n] = "asked" /\ world' = [w EXCEPT !.pane[n] = v]
    BY <1>0 DEF PaneLands
<1>3. PICK x : x = world'
    OBVIOUS
<1>4. /\ x \in Worlds /\ x.thing = w.thing /\ x.session = w.session
      /\ \A g \in Plans : x.pane[g] = IF g = n THEN v ELSE w.pane[g]
    BY <1>1, <1>2, <1>3 DEF Worlds
<1>5. Unsure(j) /\ j.planned = n /\ \A g \in Plans : n < g => w.pane[g] = "no"
    BY <1>1, <1>2 DEF PaneTells
<1>6. PaneTells(j, x)
    <2>1. \A g, h \in Plans : h < g /\ x.pane[g] # "no" => x.pane[h] \in {"open", "closed"}
        <3>1. SUFFICES ASSUME NEW g \in Plans, NEW h \in Plans, h < g, x.pane[g] # "no"
                       PROVE  x.pane[h] \in {"open", "closed"}
            OBVIOUS
        <3>2. g # h
            BY <3>1, PlansAreNumbers
        <3>3. w.pane[g] # "no"
            BY <1>2, <1>4, <3>1
        <3>4. w.pane[h] \in {"open", "closed"}
            BY <1>1, <3>1, <3>3 DEF PaneTells
        <3> QED
            BY <1>2, <1>4, <3>4
    <2>2. \A g \in Plans : x.pane[g] # "asked"
        BY <1>1, <1>2, <1>4, <1>5 DEF PaneTells
    <2>3. j.op # 0 => x.pane[j.op] \in {"open", "closed"}
        <3>1. SUFFICES ASSUME j.op # 0 PROVE x.pane[j.op] \in {"open", "closed"}
            OBVIOUS
        <3>2. j.op \in Plans
            BY <1>1, <3>1, Constants DEF Jobs, PlanNos, Plans
        <3> QED
            BY <1>1, <1>2, <1>4, <3>1, <3>2 DEF PaneTells
    <2>4. j.pane # "planned" /\ j.pane # "created"
        BY <1>5 DEF Unsure
    <2> QED
        BY <1>1, <1>4, <2>1, <2>2, <2>3, <2>4 DEF PaneTells
<1>7. AskTells(j, a) /\ SourceTells(j, x) /\ TriesTell(j, x)
    BY <1>1, <1>4, OpsKept DEF SameOps
<1>8. AgentTells(j, x)
    BY <1>1, <1>4 DEF RecordTells, AgentTells, Busy
<1>9. RecordTells(j, x, a)
    BY <1>1, <1>6, <1>7, <1>8 DEF RecordTells
<1>10. UNCHANGED <<job, wk, rl, scan, asked>>
    BY DEF PaneLands
<1>11. WorkerTells'
    BY <1>0, <1>3, <1>4, <1>10, Typed DEF WorkerTells, Busy, Acquired, Open
<1>12. ReleaseTells'
    BY <1>0, <1>3, <1>4, <1>10, ReleaseKept DEF Busy
<1> QED
    BY <1>0, <1>3, <1>4, <1>9, <1>10, <1>11, <1>12, InvNext, Typed

\* A session arrives, is lost, or ends.
LEMMA SessionMoves ==
    ASSUME Inv, UNCHANGED <<job, wk, rl, scan, asked>>, NEW n \in Plans, Busy(world, n),
           NEW v \in {"live", "gone"}, world' = [world EXCEPT !.session[n] = v]
    PROVE  Inv'
<1>0. PICK j, w, a, x : j = job /\ w = world /\ a = asked /\ x = world'
    OBVIOUS
<1>1. j \in Jobs /\ w \in Worlds /\ RecordTells(j, w, a) /\ AgentTells(j, w)
    BY <1>0, Typed DEF RecordTells
<1>2. /\ x \in Worlds /\ x.thing = w.thing /\ x.pane = w.pane
      /\ \A g \in Plans : x.session[g] = IF g = n THEN v ELSE w.session[g]
    BY <1>0, <1>1 DEF Worlds
<1>3. /\ \A g \in Plans : Busy(x, g) => Busy(w, g)
      /\ \A g \in Plans : x.session[g] # "no" => w.session[g] # "no"
    BY <1>0, <1>2 DEF Busy
<1>4. j.op = n
    BY <1>0, <1>1 DEF AgentTells
<1>5. AgentTells(j, x)
    BY <1>1, <1>2, <1>3, <1>4 DEF AgentTells
<1>6. \A g \in Plans : x.session[g] # "no" => g <= j.op
    BY <1>1, <1>3 DEF RecordTells, PaneTells
<1>7. SameOps(job, job') /\ SamePane(job, job')
    BY DEF SameOps, SamePane
<1>8. WorkerTells'
    BY <1>0, <1>2, <1>3, Typed DEF WorkerTells, Acquired, Open
<1>9. ReleaseTells'
    BY <1>0, <1>3, <1>4, ReleaseKept
<1> QED
    BY <1>0, <1>1, <1>2, <1>5, <1>6, <1>7, <1>8, <1>9, SessionStep, Typed DEF RecordTells

\* What comes from outside.
LEMMA SessionLandsKeeps == ASSUME Inv, SessionLands PROVE Inv'
    BY SessionMoves DEF SessionLands, Busy

\* A session ends by itself.
LEMMA SessionEndsKeeps == ASSUME Inv, SessionEnds PROVE Inv'
    BY SessionMoves DEF SessionEnds, Busy

-----------------------------------------------------------------------------

\* A record without its worker, queued again.
LEMMA RequeuedFields ==
    ASSUME NEW j \in Jobs, NEW b \in BOOLEAN
    PROVE  /\ Requeued(j, b) \in Jobs /\ SameAgent(j, Requeued(j, b)) /\ SamePane(j, Requeued(j, b))
           /\ Requeued(j, b).status = "queued" /\ Requeued(j, b).intent = j.intent
           /\ (Requeued(j, b).user <=> j.user) /\ ~Requeued(j, b).owner
           /\ Requeued(j, b).source = j.source /\ Requeued(j, b).fork = j.fork
           /\ Requeued(j, b).clone = j.clone /\ Requeued(j, b).worktree = j.worktree
           /\ (Requeued(j, b).reconcile <=> b)
           /\ Requeued(j, b).tries = j.tries /\ Requeued(j, b).absent = j.absent
<1>1. PICK i : i = [[j EXCEPT !.owner = FALSE] EXCEPT !.status = "queued", !.reconcile = b]
    OBVIOUS
<1>2. Requeued(j, b) = i
    BY <1>1 DEF Requeued, NoWorker
<1>3. i \in Jobs
    BY <1>1, Named DEF Jobs
<1>4. /\ SameAgent(j, i) /\ SamePane(j, i) /\ i.status = "queued" /\ i.intent = j.intent
      /\ (i.user <=> j.user) /\ ~i.owner
      /\ i.source = j.source /\ i.fork = j.fork /\ i.clone = j.clone /\ i.worktree = j.worktree
      /\ (i.reconcile <=> b) /\ i.tries = j.tries /\ i.absent = j.absent
    BY <1>1 DEF Jobs, SameAgent, SamePane
<1> QED
    BY <1>2, <1>3, <1>4

\* A record without its worker.
LEMMA NoWorkerFields ==
    ASSUME NEW j \in Jobs
    PROVE  /\ NoWorker(j) \in Jobs /\ SameCore(j, NoWorker(j)) /\ ~NoWorker(j).owner
           /\ NoWorker(j).status = j.status /\ NoWorker(j).intent = j.intent
           /\ (NoWorker(j).user <=> j.user)
<1>1. NoWorker(j) \in Jobs
    BY DEF NoWorker, Jobs
<1> QED
    BY <1>1 DEF NoWorker, Jobs, SameCore, SameOps, SameAgent, SamePane

\* Recovery decides about a job nobody works on.
LEMMA RecoverStep ==
    ASSUME Inv, job' \in Jobs, wk.pc = "off", UNCHANGED <<wk, world, asked>>,
           rl' \in [Releasers -> Releases], scan' \in Scans, SameAgent(job, job'),
           SamePane(job, job'), job'.source = job.source, job'.fork = job.fork,
           job'.clone = job.clone, job'.worktree = job.worktree,
           job'.tries = job.tries, job'.absent = job.absent,
           job'.reconcile => job.reconcile \/ job.target # 0, ~job'.owner,
           job'.status \in Terminal => Quiescent(job), job'.status = "asking" => job.status = "asking",
           scan'.launch => scan.launch \/ ~Unsure(job), ReleaseTells'
    PROVE  Inv'
<1>0. PICK j, i, w, a : j = job /\ i = job' /\ w = world /\ a = asked
    OBVIOUS
<1>1. /\ j \in Jobs /\ i \in Jobs /\ w \in Worlds /\ RecordTells(j, w, a)
      /\ SameAgent(j, i) /\ SamePane(j, i)
    BY <1>0, Typed
<1>2. AskTells(i, a)
    BY <1>0, <1>1 DEF RecordTells, AskTells, ForkAskable, CheckoutPlannable
<1>3. AgentTells(i, w)
    BY <1>1 DEF RecordTells, AgentTells, SameAgent, Quiescent
<1>4. PaneTells(i, w)
    BY <1>1, PaneDropped DEF RecordTells, SameAgent
<1>5. (j.reconcile \/ j.target # 0 => Acquired(j, w)) /\ (Acquired(j, w) => Acquired(i, w))
    BY <1>0, TargetAcquired DEF Acquired, Open, CheckoutPlannable
<1>6. SourceTells(i, w)
    BY <1>0, <1>1, <1>5 DEF RecordTells, SourceTells, SameAgent
<1>7. TriesTell(i, w)
    BY <1>0, <1>1 DEF RecordTells, TriesTell, Open, SameAgent
<1>8. StatusTells(i)
    BY <1>0, <1>1 DEF RecordTells, StatusTells, SameAgent, SamePane, Quiescent, Unsure
<1>9. RecordTells(i, w, a)
    BY <1>2, <1>3, <1>4, <1>6, <1>7, <1>8 DEF RecordTells
<1>10. WorkerTells'
    BY Typed DEF WorkerTells, Early, Late, SamePane, Unsure
<1> QED
    BY <1>0, <1>9, <1>10, InvNext, Typed

\* Recovery leaves the job alone, or takes its worker away.
LEMMA RecoverLeaves ==
    ASSUME Inv, Recover, UNCHANGED job, UNCHANGED rl, scan' = [scan EXCEPT !.pc = "idle"]
    PROVE  Inv'
<1>1. scan' \in Scans /\ (scan'.launch <=> scan.launch)
    BY Typed DEF Scans
<1> QED
    BY <1>1, ReleasesStep, Typed DEF Recover

\* Recovery queues the job again.
LEMMA RecoverLaunches ==
    ASSUME Inv, Recover, job.intent = "none", ~Stays(job), ~Alive, UNCHANGED rl,
           scan' = [pc |-> "idle", launch |-> TRUE],
           \/ job' = NoWorker(job) /\ job.status = "queued"
           \/ job' = Requeued(job, FALSE)
           \/ job' = Requeued(job, TRUE) /\ job.target # 0
    PROVE  Inv'
<1>0. PICK j : j = job
    OBVIOUS
<1>1. j \in Jobs
    BY <1>0, Typed
<1>2. /\ job' \in Jobs /\ SameAgent(j, job') /\ SamePane(j, job') /\ job'.status = "queued"
      /\ job'.intent = j.intent /\ ~job'.owner
      /\ job'.source = j.source /\ job'.fork = j.fork /\ job'.clone = j.clone
      /\ job'.worktree = j.worktree /\ (job'.reconcile => j.reconcile \/ j.target # 0)
      /\ job'.tries = j.tries /\ job'.absent = j.absent
    <2>1. CASE job' = NoWorker(j) /\ j.status = "queued"
        BY <1>1, <2>1, NoWorkerFields DEF SameCore, SameOps
    <2>2. CASE job' = Requeued(j, FALSE)
        BY <1>1, <2>2, RequeuedFields
    <2>3. CASE job' = Requeued(j, TRUE) /\ j.target # 0
        BY <1>1, <2>3, RequeuedFields
    <2> QED
        BY <1>0, <2>1, <2>2, <2>3
<1>3. ~Unsure(job) /\ wk.pc = "off"
    BY DEF Stays, Uncertain, Unsure, Alive
<1>4. scan' \in Scans /\ UNCHANGED <<wk, world, asked>>
    BY DEF Recover, Scans
<1>5. ReleaseTells'
    BY <1>0, <1>2, ReleaseKept
<1> QED
    BY <1>0, <1>2, <1>3, <1>4, <1>5, RecoverStep, Typed DEF Terminal

\* Recovery takes the dead worker's claim away, or fails a job that has nothing left.
LEMMA RecoverStops ==
    ASSUME Inv, Recover, ~Alive, UNCHANGED rl, scan' = [scan EXCEPT !.pc = "idle"],
           \/ job' = NoWorker(job)
           \/ job' = [NoWorker(job) EXCEPT !.status = "failed"] /\ job.target = 0
    PROVE  Inv'
<1>0. PICK j : j = job
    OBVIOUS
<1>1. j \in Jobs /\ StatusTells(j) /\ (j.target = 0 => Quiescent(j)) /\ scan \in Scans
    BY <1>0, Typed DEF RecordTells, AgentTells
<1>2. /\ job' \in Jobs /\ SameCore(j, job') /\ job'.intent = j.intent /\ ~job'.owner
      /\ job'.status = j.status \/ (job'.status = "failed" /\ j.target = 0)
    <2>1. CASE job' = NoWorker(j)
        BY <1>1, <2>1, NoWorkerFields
    <2>2. CASE job' = [NoWorker(j) EXCEPT !.status = "failed"] /\ j.target = 0
        <3>1. job' = [[j EXCEPT !.owner = FALSE] EXCEPT !.status = "failed"]
            BY <2>2 DEF NoWorker
        <3>2. job' \in Jobs
            BY <1>1, <3>1, Named DEF Jobs
        <3> QED
            BY <1>1, <2>2, <3>1, <3>2 DEF Jobs, SameCore, SameOps, SameAgent, SamePane
    <2> QED
        BY <1>0, <2>1, <2>2
<1>3. scan' \in Scans /\ (scan'.launch <=> scan.launch) /\ UNCHANGED <<wk, world, asked>> /\ wk.pc = "off"
    BY <1>1 DEF Recover, Scans, Alive
<1>4. ReleaseTells'
    BY <1>0, <1>2, <1>3, ReleaseKept DEF SameCore, SameAgent
<1>5. job'.status \in Terminal => Quiescent(job)
    BY <1>0, <1>1, <1>2 DEF StatusTells, Terminal
<1> QED
    BY <1>0, <1>2, <1>3, <1>4, <1>5, RecoverStep, Typed DEF SameCore, SameOps, Terminal

\* Recovery takes the release over, or fixes a failure.
LEMMA RecoverReleases ==
    ASSUME Inv, Recover, ~Alive, NewToken("scan", "close"), scan' = [scan EXCEPT !.pc = "idle"],
           \/ job' = [NoWorker(job) EXCEPT !.release = "owned"] /\ job.intent # "none"
           \/ job' = NoWorker(Staged(job, "failed"))
    PROVE  Inv'
<1>0. PICK j : j = job
    OBVIOUS
<1>1. j \in Jobs /\ StatusTells(j) /\ scan \in Scans
    BY <1>0, Typed DEF RecordTells
<1>2. /\ job' \in Jobs /\ SameCore(j, job') /\ job'.intent # "none" /\ ~job'.owner
      /\ job'.status \in {j.status, "reconciling"}
    <2>1. CASE job' = NoWorker(Staged(j, "failed"))
        <3>1. PICK i : i = Staged(j, "failed")
            OBVIOUS
        <3>2. i \in Jobs /\ SameCore(j, i) /\ i.status = "reconciling" /\ i.intent = "failed"
            BY <1>1, <3>1, StagedFields DEF Terminal
        <3>3. /\ job' \in Jobs /\ SameCore(i, job') /\ ~job'.owner
              /\ job'.status = i.status /\ job'.intent = i.intent
            BY <2>1, <3>1, <3>2, NoWorkerFields
        <3> QED
            BY <3>2, <3>3, CoreTransitive
    <2>2. CASE job' = [NoWorker(j) EXCEPT !.release = "owned"] /\ j.intent # "none"
        <3>1. job' = [[j EXCEPT !.owner = FALSE] EXCEPT !.release = "owned"]
            BY <2>2 DEF NoWorker
        <3>2. job' \in Jobs
            BY <1>1, <3>1, Named DEF Jobs
        <3> QED
            BY ZenonT(30), <1>1, <2>2, <3>1, <3>2 DEF Jobs, SameCore, SameOps, SameAgent, SamePane
    <2> QED
        BY <1>0, <2>1, <2>2
<1>3. scan' \in Scans /\ (scan'.launch <=> scan.launch) /\ UNCHANGED <<wk, world, asked>> /\ wk.pc = "off"
    BY <1>1 DEF Recover, Scans, Alive
<1>4. /\ rl' \in [Releasers -> Releases]
      /\ \A q \in Releasers : rl'[q].current => rl'[q].pc # "commit"
    BY NewTokenFields DEF Releasers
<1>5. ReleaseTells'
    BY <1>2, <1>4 DEF ReleaseTells
<1>6. job'.status \in Terminal => Quiescent(job)
    BY <1>0, <1>1, <1>2 DEF StatusTells, Terminal
<1> QED
    BY <1>0, <1>2, <1>3, <1>4, <1>5, <1>6, RecoverStep, Typed DEF SameCore, SameOps

\* recover_jobs.
LEMMA RecoverKeeps == ASSUME Inv, Recover PROVE Inv'
<1>1. CASE UNCHANGED <<job, rl>> /\ scan' = [scan EXCEPT !.pc = "idle"]
    BY <1>1, RecoverLeaves
<1>2. CASE job.intent # "none"
    BY <1>1, <1>2, RecoverStops, RecoverReleases DEF Recover, TakesRelease
<1>3. CASE /\ job.intent = "none" /\ ~Alive
           /\ NewToken("scan", "close") /\ scan' = [scan EXCEPT !.pc = "idle"]
           /\ job' = NoWorker(Staged(job, "failed"))
    BY <1>3, RecoverReleases
<1>4. CASE job.intent = "none" /\ ~Alive /\ ~Stays(job) /\ job.status = "blocked"
    BY <1>1, <1>3, <1>4, RecoverLaunches DEF Recover
<1>5. CASE job.intent = "none" /\ ~Alive /\ ~Stays(job) /\ job.status = "queued"
    BY <1>1, <1>3, <1>5, RecoverLaunches DEF Recover
<1>6. CASE job.intent = "none" /\ ~Alive /\ ~Stays(job) /\ job.status = "routing"
    BY <1>1, <1>3, <1>6, RecoverLaunches DEF Recover
<1>7. CASE job.intent = "none" /\ ~Alive /\ ~Stays(job) /\ job.status \in {"running", "reconciling"}
    BY <1>1, <1>3, <1>7, RecoverLaunches, RecoverStops DEF Recover
<1>8. CASE /\ job.intent = "none" /\ ~Alive /\ ~Stays(job)
           /\ job.status \notin {"blocked", "queued", "routing", "running", "reconciling"}
    BY <1>1, <1>3, <1>8 DEF Recover
<1>9. CASE job.intent = "none" /\ (Alive \/ Stays(job))
    BY <1>1, <1>9 DEF Recover
<1> QED
    BY <1>2, <1>4, <1>5, <1>6, <1>7, <1>8, <1>9

-----------------------------------------------------------------------------

\* What each step of the recovery scan makes of the record: it is as true as it was, a worker
\* that is there finds what it relies on, and no session is taken for ready that a release
\* could be about to close.
Follows(j, k) ==
    /\ k \in Jobs /\ RecordTells(k, world, asked) /\ SameLife(j, k) /\ k.op = j.op
    /\ Unsure(k) => Unsure(j)
    /\ Alive => Gentle(j, k, world)
    /\ k.agent = "ready" => j.agent = "ready" \/ j.intent = "none"

\* A scan that finds nothing to do.
LEMMA FollowsSame ==
    ASSUME NEW j \in Jobs, RecordTells(j, world, asked)
    PROVE  Follows(j, j)
    BY CoreGentle DEF Follows, SameLife, SameCore, SameOps, SameAgent, SamePane

\* Steps of a scan follow one another.
LEMMA FollowsOn ==
    ASSUME NEW i, NEW j, NEW k, Follows(i, j), Follows(j, k)
    PROVE  Follows(i, k)
<1>1. Alive => Gentle(i, k, world)
    BY GentleTransitive DEF Follows
<1> QED
    BY <1>1 DEF Follows, SameLife

\* A step of the scan that leaves the core alone.
LEMMA FollowsCore ==
    ASSUME NEW j \in Jobs, NEW k \in Jobs, RecordTells(j, world, asked), SameCore(j, k),
           SameLife(j, k)
    PROVE  Follows(j, k)
<1>1. StatusTells(k)
    BY DEF RecordTells, StatusTells, SameCore, SameAgent, SamePane, SameLife, Quiescent, Unsure
<1>2. RecordTells(k, world, asked)
    BY <1>1, CoreKept
<1> QED
    BY <1>2, CoreGentle DEF Follows, SameCore, SameAgent, SamePane, Unsure

\* A session of unknown outcome has a target.
LEMMA DoubtfulTarget ==
    ASSUME NEW j \in Jobs, NEW w, NEW a, RecordTells(j, w, a), j.agent \in Doubtful
    PROVE  /\ j.target = j.op /\ j.op \in Plans /\ ~j.session /\ ~Quiescent(j)
           /\ j.status \notin Terminal \cup {"asking"} /\ Acquired(j, w) /\ ~Open(j, w)
           /\ j.fork \notin Doubtful
<1>1. ~j.session /\ ~Quiescent(j)
    BY DEF RecordTells, AgentTells, Quiescent, Doubtful
<1>2. j.target = j.op /\ j.op # 0
    BY <1>1 DEF RecordTells, AgentTells
<1>3. j.op \in Plans
    BY <1>2, Constants DEF Jobs, PlanNos, Plans
<1>4. j.status \notin Terminal \cup {"asking"}
    BY <1>1 DEF RecordTells, StatusTells
<1>5. Acquired(j, w)
    BY DEF RecordTells, SourceTells, Doubtful
<1>6. j.fork \notin Doubtful
    BY <1>5 DEF RecordTells, SourceTells, Acquired, Doubtful
<1> QED
    BY <1>1, <1>2, <1>3, <1>4, <1>5, <1>6 DEF Acquired

\* The session of a dead worker's operation is answered for.
LEMMA ReducedFollows ==
    ASSUME NEW j \in Jobs, world \in Worlds, RecordTells(j, world, asked), ~Alive,
           j.agent = "dispatching", NEW s \in {"ready", "ambiguous"}, NEW b \in BOOLEAN,
           b <=> s = "ready", s = "ready" => world.session[j.target] = "live"
    PROVE  Follows(j, Reduced(j, s, b))
<1>1. CASE j.intent # "none"
    BY <1>1, FollowsSame DEF Reduced
<1>2. CASE j.intent = "none"
    <2>1. PICK k : k = Reduced(j, s, b)
        OBVIOUS
    <2>2. s \in Agents
        BY Named
    <2>3. /\ k \in Jobs /\ SameOps(j, k) /\ SamePane(j, k) /\ SameLife(j, k) /\ k.op = j.op
          /\ k.target = j.target /\ k.agent = s /\ (k.session <=> b)
        BY <1>2, <2>1, <2>2, ReducedFields
    <2>4. /\ j.target = j.op /\ j.op \in Plans /\ ~j.session /\ ~Quiescent(j)
          /\ j.status \notin Terminal \cup {"asking"} /\ Acquired(j, world)
        BY DoubtfulTarget DEF Doubtful
    <2>5. AskTells(k, asked)
        BY <2>3 DEF SameOps, RecordTells, AskTells, ForkAskable, CheckoutPlannable
    <2>6. AgentTells(k, world)
        BY <2>3, <2>4, PlansAreNumbers DEF RecordTells, AgentTells, Quiescent
    <2>7. SourceTells(k, world)
        BY <2>3, <2>4 DEF SameOps, RecordTells, SourceTells, Acquired, Open, CheckoutPlannable
    <2>8. PaneTells(k, world) /\ TriesTell(k, world)
        BY <2>3, PaneDropped, TriesKept DEF RecordTells, Doubtful
    <2>9. StatusTells(k)
        BY <2>3, <2>4 DEF StatusTells, SameLife
    <2> QED
        BY <1>2, <2>1, <2>3, <2>5, <2>6, <2>7, <2>8, <2>9 DEF Follows, RecordTells, SamePane, Unsure
<1> QED
    BY <1>1, <1>2

\* recover_outbox, consume_agent_results.
LEMMA OutboxFollows ==
    ASSUME Inv, NEW c \in ConsumeOutbox(job)
    PROVE  Follows(job, c)
<1>1. job \in Jobs /\ world \in Worlds /\ RecordTells(job, world, asked)
    BY Typed
<1>2. CASE c = job
    BY <1>1, <1>2, FollowsSame
<1>3. CASE /\ ~Alive /\ job.agent = "dispatching" /\ world.session[job.target] = "live"
           /\ c = Reduced(job, "ready", TRUE)
    BY <1>1, <1>3, ReducedFollows
<1>4. CASE ~Alive /\ job.agent = "dispatching" /\ c = Reduced(job, "ambiguous", FALSE)
    BY <1>1, <1>4, ReducedFollows
<1> QED
    BY <1>2, <1>3, <1>4 DEF ConsumeOutbox

\* reconcile_prompt_and_pane_operations.
LEMMA FenceFollows ==
    ASSUME NEW j \in Jobs, world \in Worlds, RecordTells(j, world, asked)
    PROVE  Follows(j, FencePromptAndPane(j))
<1>1. CASE j.user
    BY <1>1, FollowsSame DEF FencePromptAndPane
<1>2. CASE ~j.user
    <2>1. PICK p : p = IF j.prompt = "submitting" /\ ~Alive
                       THEN Manual([j EXCEPT !.prompt = "ambiguous"], "prompt") ELSE j
        OBVIOUS
    <2>2. p \in Jobs /\ Follows(j, p)
        <3>1. CASE p = j
            BY <3>1, FollowsSame
        <3>2. CASE p = Manual([j EXCEPT !.prompt = "ambiguous"], "prompt")
            <4>1. p = [[j EXCEPT !.prompt = "ambiguous"] EXCEPT !.slot = "prompt"]
                BY <3>2 DEF Manual
            <4>2. p \in Jobs
                BY <4>1, Named DEF Jobs
            <4>3. SameCore(j, p) /\ SameLife(j, p)
                BY <4>1 DEF Jobs, SameCore, SameOps, SameAgent, SamePane, SameLife
            <4> QED
                BY <4>2, <4>3, FollowsCore
        <3> QED
            BY <2>1, <3>1, <3>2
    <2>3. CASE p.pane # "submitting"
        BY <1>2, <2>1, <2>2, <2>3 DEF FencePromptAndPane
    <2>4. CASE p.pane = "submitting"
        <3>1. PICK k : k = [[p EXCEPT !.pane = "manual_required"] EXCEPT !.slot = "pane"]
            OBVIOUS
        <3>2. FencePromptAndPane(j) = k
            BY <1>2, <2>1, <2>4, <3>1 DEF FencePromptAndPane, Manual
        <3>3. k \in Jobs
            BY <2>2, <3>1, Named DEF Jobs
        <3>4. /\ SameAgent(p, k) /\ SameOps(p, k) /\ SameLife(p, k)
              /\ k.pane = "manual_required" /\ k.planned = p.planned
            BY <2>2, <3>1 DEF Jobs, SameAgent, SameOps, SameLife
        <3>5. RecordTells(p, world, asked)
            BY <2>2 DEF Follows
        <3>6. AskTells(k, asked) /\ SourceTells(k, world) /\ TriesTell(k, world)
            BY <3>4, <3>5, OpsKept DEF SameAgent
        <3>7. AgentTells(k, world)
            BY <3>4, <3>5 DEF RecordTells, AgentTells, SameAgent, Quiescent
        <3>8. PaneTells(k, world)
            BY <2>4, <3>4, <3>5 DEF RecordTells, PaneTells, SameAgent, Unsure
        <3>9. StatusTells(k)
            BY <2>4, <3>4, <3>5 DEF RecordTells, StatusTells, SameLife, SameAgent, Quiescent, Unsure
        <3>10. Gentle(p, k, world)
            BY <2>4, <3>4 DEF Gentle, SameAgent, SameOps, Quiescent, Unsure, Acquired, Open,
               CheckoutPlannable
        <3>11. Follows(p, k)
            BY <2>4, <3>3, <3>4, <3>6, <3>7, <3>8, <3>9, <3>10
            DEF Follows, RecordTells, SameAgent, Unsure
        <3> QED
            BY <2>2, <3>2, <3>11, FollowsOn
    <2> QED
        BY <2>3, <2>4
<1> QED
    BY <1>1, <1>2

\* The counts of an observation stay in their bounds.
LEMMA ObservedCounts ==
    ASSUME NEW j \in Jobs, NEW b \in BOOLEAN, j.tries < UncertainMax, j.absent <= j.tries,
           NEW n, n = j.tries + 1, NEW m, m = j.absent + IF b THEN 1 ELSE 0
    PROVE  n \in Tries /\ m \in Absents /\ m <= n /\ m <= UncertainMax /\ 0 \in Tries
<1>1. j.tries \in 0..UncertainMax /\ j.absent \in 0..2 * UncertainMax
    BY JobFields
<1> QED
    BY <1>1, Constants DEF Tries, Absents

\* reconcile_uncertain_agent, once more observed.
LEMMA ObservedAgentFollows ==
    ASSUME NEW j \in Jobs, world \in Worlds, RecordTells(j, world, asked), j.agent \in Doubtful,
           NEW b \in BOOLEAN, world.session[j.target] # "live"
    PROVE  Follows(j, Observed(j, "agent", b))
<1>0. /\ j.target = j.op /\ j.op \in Plans /\ ~j.session /\ ~Quiescent(j)
      /\ j.status \notin Terminal \cup {"asking"} /\ Acquired(j, world) /\ ~Open(j, world)
      /\ j.fork \notin Doubtful
    BY DoubtfulTarget
<1>1. PICK n, m : n = j.tries + 1 /\ m = j.absent + IF b THEN 1 ELSE 0
    OBVIOUS
<1>2. j.tries < UncertainMax /\ j.absent <= j.tries
    BY DEF RecordTells, TriesTell
<1>3. n \in Tries /\ m \in Absents /\ m <= n /\ m <= UncertainMax /\ 0 \in Tries
    BY <1>1, <1>2, ObservedCounts
<1>4. PICK q : q = [j EXCEPT !.tries = n, !.absent = m]
    OBVIOUS
<1>5. q \in Jobs
    BY <1>3, <1>4 DEF Jobs
<1>6. CASE j.agent = "failed_observing" /\ m >= FailedMax
    <2>1. PICK k : k = [[q EXCEPT !.agent = "confirmed_absent"] EXCEPT !.target = 0, !.role = 0]
        OBVIOUS
    <2>2. Observed(j, "agent", b) = k
        BY <1>1, <1>4, <1>6, <2>1 DEF Observed, OpOf, WithOp, NoTarget
    <2>3. 0 \in PlanNos /\ 0 \in RoleNos
        BY Constants DEF PlanNos, RoleNos
    <2>4. k \in Jobs
        BY <1>5, <2>1, <2>3, Named DEF Jobs
    <2>5. /\ SameAssets(j, k) /\ SamePane(j, k) /\ SameLife(j, k) /\ k.op = j.op /\ k.target = 0
          /\ k.agent = "confirmed_absent" /\ (k.session <=> j.session) /\ k.absent = m
        BY <1>4, <2>1 DEF Jobs, SameAssets, SamePane, SameLife
    <2>6. \A g \in Plans : ~Busy(world, g)
        BY <1>0, <1>6 DEF RecordTells, AgentTells, Busy
    <2>7. PaneTells(k, world)
        BY <2>4, <2>5, PaneDropped DEF RecordTells
    <2>8. TriesTell(k, world)
        BY <1>0, <1>3, <2>5 DEF TriesTell, SameAssets, Open, Doubtful
    <2>9. StatusTells(k)
        BY <1>0, <2>5 DEF StatusTells, SameLife
    <2>10. RecordTells(k, world, asked)
        BY <1>0, <2>4, <2>5, <2>6, <2>7, <2>8, <2>9, AgentAbsent
    <2>11. Gentle(j, k, world)
        BY <1>0, <1>6, <2>5 DEF Gentle, SameAssets, SamePane, Quiescent, Unsure, Acquired, Open,
           CheckoutPlannable
    <2> QED
        BY <2>2, <2>4, <2>5, <2>10, <2>11 DEF Follows, SamePane, Unsure
<1>7. CASE ~(j.agent = "failed_observing" /\ m >= FailedMax) /\ n >= UncertainMax
    <2>1. PICK k : k = [[[q EXCEPT !.tries = 0] EXCEPT !.agent = "manual_required"] EXCEPT !.slot = "agent"]
        OBVIOUS
    <2>2. Observed(j, "agent", b) = k
        BY <1>1, <1>4, <1>7, <2>1 DEF Observed, OpOf, WithOp, Manual
    <2>3. k \in Jobs
        BY <1>3, <1>5, <2>1, Named DEF Jobs
    <2>4. /\ SameAssets(j, k) /\ SamePane(j, k) /\ SameLife(j, k) /\ k.op = j.op
          /\ k.target = j.target /\ k.agent = "manual_required" /\ (k.session <=> j.session)
          /\ k.absent = m
        BY <1>4, <2>1 DEF Jobs, SameAssets, SamePane, SameLife
    <2>5. AskTells(k, asked)
        BY <2>4 DEF SameAssets, RecordTells, AskTells, ForkAskable, CheckoutPlannable
    <2>6. AgentTells(k, world)
        BY <1>0, <2>4, PlansAreNumbers DEF RecordTells, AgentTells, Quiescent
    <2>7. SourceTells(k, world)
        BY <1>0, <2>4 DEF SameAssets, RecordTells, SourceTells, Acquired, Open, CheckoutPlannable
    <2>8. PaneTells(k, world)
        BY <2>3, <2>4, PaneDropped DEF RecordTells
    <2>9. TriesTell(k, world)
        BY <1>0, <1>3, <2>4 DEF TriesTell, SameAssets, Open, Doubtful
    <2>10. StatusTells(k)
        BY <1>0, <2>4 DEF StatusTells, SameLife
    <2>11. Gentle(j, k, world)
        BY <1>0, <2>4 DEF Gentle, SameAssets, SamePane, Unsure, Acquired, Open, CheckoutPlannable
    <2> QED
        BY <2>2, <2>3, <2>4, <2>5, <2>6, <2>7, <2>8, <2>9, <2>10, <2>11
        DEF Follows, RecordTells, SamePane, Unsure
<1>8. CASE ~(j.agent = "failed_observing" /\ m >= FailedMax) /\ n < UncertainMax
    <2>1. j.tries \in 0..UncertainMax
        BY JobFields
    <2>2. Observed(j, "agent", b) = q
        BY <1>1, <1>4, <1>8, <2>1, Constants DEF Observed, OpOf
    <2>3. /\ SameAssets(j, q) /\ SamePane(j, q) /\ SameLife(j, q) /\ SameAgent(j, q)
          /\ q.tries = n /\ q.absent = m
        BY <1>4 DEF Jobs, SameAssets, SamePane, SameLife, SameAgent
    <2>4. AskTells(q, asked)
        BY <2>3 DEF SameAssets, RecordTells, AskTells, ForkAskable, CheckoutPlannable
    <2>5. AgentTells(q, world)
        BY <2>3 DEF RecordTells, AgentTells, SameAgent, Quiescent
    <2>6. SourceTells(q, world)
        BY <1>0, <2>3 DEF SameAssets, SameAgent, RecordTells, SourceTells, Acquired, Open,
           CheckoutPlannable
    <2>7. PaneTells(q, world)
        BY <1>5, <2>3, PaneDropped DEF RecordTells, SameAgent
    <2>8. TriesTell(q, world)
        BY <1>3, <1>8, <2>3 DEF TriesTell
    <2>9. StatusTells(q)
        BY <1>0, <2>3 DEF StatusTells, SameLife
    <2>10. Gentle(j, q, world)
        BY <2>3 DEF Gentle, SameAssets, SameAgent, SamePane, Quiescent, Unsure, Acquired, Open,
           CheckoutPlannable
    <2> QED
        BY <1>5, <2>2, <2>3, <2>4, <2>5, <2>6, <2>7, <2>8, <2>9, <2>10
        DEF Follows, RecordTells, SamePane, SameAgent, Unsure
<1>9. n \in Nat /\ UncertainMax \in Nat
    BY <1>3, Constants DEF Tries
<1> QED
    BY <1>6, <1>7, <1>8, <1>9

\* A session that is seen, and cannot be told to be the job's own.
LEMMA VisibleFollows ==
    ASSUME NEW j \in Jobs, world \in Worlds, RecordTells(j, world, asked), j.agent \in Doubtful
    PROVE  Follows(j, Visible(j))
<1>0. /\ j.target = j.op /\ j.op \in Plans /\ ~j.session /\ ~Quiescent(j)
      /\ j.status \notin Terminal \cup {"asking"} /\ Acquired(j, world)
    BY DoubtfulTarget
<1>1. PICK k : k = [j EXCEPT !.agent = "ambiguous"]
    OBVIOUS
<1>2. Visible(j) = k
    BY <1>1 DEF Visible
<1>3. k \in Jobs
    BY <1>1, Named DEF Jobs
<1>4. /\ SameOps(j, k) /\ SamePane(j, k) /\ SameLife(j, k) /\ k.op = j.op
      /\ k.target = j.target /\ k.agent = "ambiguous" /\ (k.session <=> j.session)
    BY <1>1 DEF Jobs, SameOps, SamePane, SameLife
<1>5. AskTells(k, asked)
    BY <1>4 DEF SameOps, RecordTells, AskTells, ForkAskable, CheckoutPlannable
<1>6. AgentTells(k, world)
    BY <1>0, <1>4, PlansAreNumbers DEF RecordTells, AgentTells, Quiescent
<1>7. SourceTells(k, world)
    BY <1>0, <1>4 DEF SameOps, RecordTells, SourceTells, Acquired, Open, CheckoutPlannable
<1>8. PaneTells(k, world) /\ TriesTell(k, world)
    BY <1>3, <1>4, PaneDropped, TriesKept DEF RecordTells
<1>9. StatusTells(k)
    BY <1>0, <1>4 DEF StatusTells, SameLife
<1>10. Gentle(j, k, world)
    BY <1>0, <1>4 DEF Gentle, SameOps, SamePane, Unsure, Acquired, Open, CheckoutPlannable
<1> QED
    BY <1>2, <1>3, <1>4, <1>5, <1>6, <1>7, <1>8, <1>9, <1>10
    DEF Follows, RecordTells, SamePane, Unsure

\* reconcile_uncertain_agent.
LEMMA AgentFollows ==
    ASSUME NEW j \in Jobs, world \in Worlds, RecordTells(j, world, asked)
    PROVE  Follows(j, ReconcileAgent(j))
<1>1. CASE ReconcileAgent(j) = j
    BY <1>1, FollowsSame
<1>2. CASE /\ j.agent \in Doubtful
           /\ ReconcileAgent(j) = Manual([j EXCEPT !.agent = "manual_required"], "agent")
    <2>1. PICK k : k = Manual([j EXCEPT !.agent = "manual_required"], "agent")
        OBVIOUS
    <2>2. /\ k \in Jobs /\ RecordTells(k, world, asked) /\ SameOps(j, k) /\ SamePane(j, k)
          /\ SameLife(j, k) /\ k.op = j.op /\ k.agent = "manual_required"
        BY <1>2, <2>1, AgentManual DEF Doubtful
    <2>3. Gentle(j, k, world)
        BY <2>2, <1>2, DoubtfulTarget DEF Gentle, SameOps, SamePane, Unsure, Acquired, Open,
           CheckoutPlannable
    <2> QED
        BY <1>2, <2>1, <2>2, <2>3 DEF Follows, SamePane, Unsure
<1>3. CASE j.agent \in Doubtful /\ ReconcileAgent(j) = Visible(j)
    BY <1>3, VisibleFollows
<1>4. CASE /\ j.agent \in Doubtful /\ ~(j.target # 0 /\ world.session[j.target] = "live")
           /\ ReconcileAgent(j) = Observed(j, "agent", j.target # 0)
    <2>1. PICK b : b \in BOOLEAN /\ b = (j.target # 0)
        OBVIOUS
    <2>2. j.target # 0
        BY <1>4, DoubtfulTarget, PlansAreNumbers
    <2>3. Follows(j, Observed(j, "agent", b))
        BY <1>4, <2>1, <2>2, ObservedAgentFollows
    <2> QED
        BY <1>4, <2>1, <2>3
<1> QED
    BY <1>1, <1>2, <1>3, <1>4 DEF ReconcileAgent

\* reconcile_uncertain_clone.
LEMMA CloneFollows ==
    ASSUME NEW j \in Jobs, world \in Worlds, RecordTells(j, world, asked)
    PROVE  Follows(j, ReconcileClone(j))
<1>1. CASE ReconcileClone(j) = j
    BY <1>1, FollowsSame
<1>2. CASE ReconcileClone(j) = [j EXCEPT !.clone = "cloned", !.reconcile = FALSE]
    <2>1. PICK k : k = [j EXCEPT !.clone = "cloned", !.reconcile = FALSE]
        OBVIOUS
    <2>2. k \in Jobs
        BY <2>1, Named DEF Jobs
    <2>3. /\ SameAgent(j, k) /\ SamePane(j, k) /\ SameLife(j, k) /\ k.source = j.source
          /\ k.fork = j.fork /\ k.clone = "cloned" /\ k.worktree = j.worktree /\ ~k.reconcile
          /\ k.tries = j.tries /\ k.absent = j.absent
        BY <2>1 DEF Jobs, SameAgent, SamePane, SameLife
    <2>4. AskTells(k, asked)
        BY <2>3 DEF RecordTells, AskTells, ForkAskable, CheckoutPlannable
    <2>5. AgentTells(k, world)
        BY <2>3 DEF RecordTells, AgentTells, SameAgent, Quiescent
    <2>6. SourceTells(k, world)
        BY <2>3 DEF SameAgent, RecordTells, SourceTells, Acquired, Open, CheckoutPlannable
    <2>7. PaneTells(k, world)
        BY <2>2, <2>3, PaneDropped DEF RecordTells, SameAgent
    <2>8. TriesTell(k, world)
        BY <2>3 DEF RecordTells, TriesTell, Open, SameAgent
    <2>9. StatusTells(k)
        BY <2>3 DEF RecordTells, StatusTells, SameLife, SameAgent, SamePane, Quiescent, Unsure
    <2>10. Gentle(j, k, world)
        BY <2>3 DEF Gentle, SameAgent, SamePane, Quiescent, Unsure, Acquired, Open, CheckoutPlannable
    <2> QED
        BY <1>2, <2>1, <2>2, <2>3, <2>4, <2>5, <2>6, <2>7, <2>8, <2>9, <2>10
        DEF Follows, RecordTells, SamePane, SameAgent, Unsure
<1> QED
    BY <1>1, <1>2 DEF ReconcileClone

\* A step of the scan about the fork.
LEMMA ForkStepFollows ==
    ASSUME NEW j \in Jobs, NEW k \in Jobs, world \in Worlds, RecordTells(j, world, asked),
           j.fork \in Doubtful, k.fork \in {"exists", "manual_required"} \cup Doubtful,
           SameAgent(j, k), SamePane(j, k), SameLife(j, k), k.source = j.source,
           k.worktree = j.worktree, k.clone = j.clone, k.reconcile <=> j.reconcile,
           k.absent <= UncertainMax,
           k.fork \in Doubtful => k.tries < UncertainMax /\ k.absent <= k.tries
    PROVE  Follows(j, k)
<1>1. ~ForkAskable(j) /\ j.fork # "exists" /\ ~ForkAskable(k)
    BY DEF ForkAskable, Doubtful
<1>2. StatusTells(k)
    BY DEF RecordTells, StatusTells, SameLife, SameAgent, SamePane, Quiescent, Unsure
<1>3. RecordTells(k, world, asked) /\ ~Acquired(j, world)
    BY <1>1, <1>2, ForkObserved
<1>4. Gentle(j, k, world)
    BY <1>3 DEF Gentle, SameAgent, SamePane, Quiescent, Unsure, Doubtful
<1> QED
    BY <1>3, <1>4 DEF Follows, SameAgent, SamePane, Unsure

\* reconcile_uncertain_fork.
LEMMA ForkFollows ==
    ASSUME NEW j \in Jobs, world \in Worlds, RecordTells(j, world, asked)
    PROVE  Follows(j, ReconcileFork(j))
<1>1. CASE j.fork \notin Doubtful
    BY <1>1, FollowsSame DEF ReconcileFork
<1>2. CASE j.fork \in Doubtful
    <2>0. j.tries < UncertainMax /\ j.absent <= j.tries
        BY <1>2 DEF RecordTells, TriesTell
    <2>1. PICK n, m : n = j.tries + 1 /\ m = j.absent + IF TRUE THEN 1 ELSE 0
        OBVIOUS
    <2>2. n \in Tries /\ m \in Absents /\ m <= n /\ m <= UncertainMax /\ 0 \in Tries
        BY <2>0, <2>1, ObservedCounts
    <2>3. PICK q : q = [j EXCEPT !.tries = n, !.absent = m]
        OBVIOUS
    <2>4. q \in Jobs
        BY <2>2, <2>3 DEF Jobs
    <2>5. CASE world.thing["fork"] = "yes"
        <3>1. PICK k : k = [j EXCEPT !.fork = "exists"]
            OBVIOUS
        <3>2. ReconcileFork(j) = k
            BY <1>2, <2>5, <3>1 DEF ReconcileFork
        <3>3. /\ k \in Jobs /\ SameAgent(j, k) /\ SamePane(j, k) /\ SameLife(j, k)
              /\ k.source = j.source /\ k.fork = "exists" /\ k.clone = j.clone
              /\ k.worktree = j.worktree /\ (k.reconcile <=> j.reconcile)
              /\ k.tries = j.tries /\ k.absent = j.absent
            BY <3>1, ForkFields, Named
        <3>4. k.absent <= UncertainMax /\ k.fork \notin Doubtful
            BY <3>3 DEF RecordTells, TriesTell, Doubtful
        <3> QED
            BY <1>2, <3>2, <3>3, <3>4, ForkStepFollows
    <2>6. CASE world.thing["fork"] # "yes" /\ n >= UncertainMax
        <3>1. PICK k : k = [[[q EXCEPT !.tries = 0] EXCEPT !.fork = "manual_required"] EXCEPT !.slot = "fork"]
            OBVIOUS
        <3>2. ReconcileFork(j) = k
            BY <1>2, <2>1, <2>3, <2>6, <3>1 DEF ReconcileFork, Observed, OpOf, WithOp, Manual
        <3>3. k \in Jobs
            BY <2>2, <2>4, <3>1, Named DEF Jobs
        <3>4. /\ SameAgent(j, k) /\ SamePane(j, k) /\ SameLife(j, k)
              /\ k.source = j.source /\ k.fork = "manual_required" /\ k.clone = j.clone
              /\ k.worktree = j.worktree /\ (k.reconcile <=> j.reconcile) /\ k.absent = m
            BY <2>3, <3>1 DEF Jobs, SameAgent, SamePane, SameLife
        <3> QED
            BY <1>2, <2>2, <3>2, <3>3, <3>4, ForkStepFollows DEF Doubtful
    <2>7. CASE world.thing["fork"] # "yes" /\ n < UncertainMax
        <3>1. n \in Nat /\ UncertainMax \in Nat
            BY <2>2, Constants DEF Tries
        <3>2. ~(n >= UncertainMax)
            BY <2>7, <3>1
        <3>3. ReconcileFork(j) = q
            BY <1>2, <2>1, <2>3, <2>7, <3>2 DEF ReconcileFork, Observed, OpOf
        <3>4. /\ SameAgent(j, q) /\ SamePane(j, q) /\ SameLife(j, q)
              /\ q.source = j.source /\ q.fork = j.fork /\ q.clone = j.clone
              /\ q.worktree = j.worktree /\ (q.reconcile <=> j.reconcile)
              /\ q.tries = n /\ q.absent = m
            BY <2>3 DEF Jobs, SameAgent, SamePane, SameLife
        <3> QED
            BY <1>2, <2>2, <2>4, <2>7, <3>3, <3>4, ForkStepFollows
    <2>8. n \in Nat /\ UncertainMax \in Nat
        BY <2>2, Constants DEF Tries
    <2> QED
        BY <2>5, <2>6, <2>7, <2>8
<1> QED
    BY <1>1, <1>2

\* A step of the scan about the checkout.
LEMMA CheckoutStepFollows ==
    ASSUME NEW j \in Jobs, NEW k \in Jobs, world \in Worlds, RecordTells(j, world, asked),
           j.worktree \in Doubtful,
           k.worktree \in {"retained", "quarantined", "confirmed_absent", "manual_required"} \cup Doubtful,
           k.worktree = "quarantined" => world.thing["worktree"] = "yes",
           SameAgent(j, k), SamePane(j, k), SameLife(j, k), k.source = j.source, k.fork = j.fork,
           k.clone = j.clone, k.reconcile <=> j.reconcile,
           Open(k, world) => Open(j, world) /\ k.tries < UncertainMax /\ k.absent <= k.tries,
           \/ k.tries = j.tries /\ k.absent = j.absent
           \/ Open(j, world) /\ k.absent <= UncertainMax
    PROVE  Follows(j, k)
<1>1. ~CheckoutPlannable(j) /\ ~CheckoutPlannable(k) /\ j.worktree # "ready"
    BY DEF CheckoutPlannable, Doubtful
<1>2. StatusTells(k)
    BY DEF RecordTells, StatusTells, SameLife, SameAgent, SamePane, Quiescent, Unsure
<1>3. RecordTells(k, world, asked) /\ (Acquired(j, world) => Acquired(k, world))
    BY <1>1, <1>2, CheckoutObserved
<1>4. Gentle(j, k, world)
    BY <1>3 DEF Gentle, SameAgent, SamePane, Quiescent, Unsure
<1> QED
    BY <1>3, <1>4 DEF Follows, SameAgent, SamePane, Unsure

\* reconcile_uncertain_worktree.
LEMMA CheckoutFollows ==
    ASSUME NEW j \in Jobs, world \in Worlds, RecordTells(j, world, asked),
           NEW k \in ReconcileWorktree(j)
    PROVE  Follows(j, k)
<1>1. CASE j.worktree \notin Doubtful
    BY <1>1, FollowsSame DEF ReconcileWorktree
<1>2. CASE j.worktree \in Doubtful /\ world.thing["worktree"] = "yes"
    <2>1. /\ k \in Jobs /\ SameAgent(j, k) /\ SamePane(j, k) /\ SameLife(j, k)
          /\ k.source = j.source /\ k.fork = j.fork /\ k.clone = j.clone
          /\ k.worktree \in {"retained", "quarantined"} /\ (k.reconcile <=> j.reconcile)
          /\ k.tries = j.tries /\ k.absent = j.absent
        <3>1. CASE k = [j EXCEPT !.worktree = "retained", !.located = TRUE]
            <4>1. k \in Jobs
                BY <3>1, Named DEF Jobs
            <4> QED
                BY <3>1, <4>1 DEF Jobs, SameAgent, SamePane, SameLife
        <3>2. CASE k = [j EXCEPT !.worktree = "quarantined", !.inspect = TRUE]
            <4>1. k \in Jobs
                BY <3>2, Named DEF Jobs
            <4> QED
                BY <3>2, <4>1 DEF Jobs, SameAgent, SamePane, SameLife
        <3> QED
            BY <1>2, <3>1, <3>2 DEF ReconcileWorktree
    <2>2. ~Open(k, world)
        BY <1>2 DEF Open
    <2> QED
        BY <1>2, <2>1, <2>2, CheckoutStepFollows
<1>3. CASE j.worktree \in Doubtful /\ world.thing["worktree"] # "yes"
    <2>0. Open(j, world) /\ j.tries < UncertainMax /\ j.absent <= j.tries
        BY <1>3 DEF RecordTells, TriesTell, Open
    <2>1. PICK n, m : n = j.tries + 1 /\ m = j.absent + IF TRUE THEN 1 ELSE 0
        OBVIOUS
    <2>2. n \in Tries /\ m \in Absents /\ m <= n /\ m <= UncertainMax /\ 0 \in Tries
        BY <2>0, <2>1, ObservedCounts
    <2>3. PICK q : q = [j EXCEPT !.tries = n, !.absent = m]
        OBVIOUS
    <2>4. q \in Jobs
        BY <2>2, <2>3 DEF Jobs
    <2>5. k = Observed(j, "worktree", TRUE)
        BY <1>3 DEF ReconcileWorktree
    <2>6. CASE j.worktree = "failed_observing" /\ m >= FailedMax
        <3>1. k = [q EXCEPT !.worktree = "confirmed_absent"]
            BY <2>1, <2>3, <2>5, <2>6 DEF Observed, OpOf, WithOp
        <3>2. k \in Jobs
            BY <2>4, <3>1, Named DEF Jobs
        <3>3. /\ SameAgent(j, k) /\ SamePane(j, k) /\ SameLife(j, k)
              /\ k.source = j.source /\ k.fork = j.fork /\ k.clone = j.clone
              /\ k.worktree = "confirmed_absent" /\ (k.reconcile <=> j.reconcile) /\ k.absent = m
            BY <2>3, <3>1 DEF Jobs, SameAgent, SamePane, SameLife
        <3>4. ~Open(k, world)
            BY <3>3 DEF Open, Doubtful
        <3> QED
            BY <1>3, <2>0, <2>2, <3>2, <3>3, <3>4, CheckoutStepFollows
    <2>7. CASE ~(j.worktree = "failed_observing" /\ m >= FailedMax) /\ n >= UncertainMax
        <3>1. k = [[[q EXCEPT !.tries = 0] EXCEPT !.worktree = "manual_required"] EXCEPT !.slot = "worktree"]
            BY <2>1, <2>3, <2>5, <2>7 DEF Observed, OpOf, WithOp, Manual
        <3>2. k \in Jobs
            BY <2>2, <2>4, <3>1, Named DEF Jobs
        <3>3. /\ SameAgent(j, k) /\ SamePane(j, k) /\ SameLife(j, k)
              /\ k.source = j.source /\ k.fork = j.fork /\ k.clone = j.clone
              /\ k.worktree = "manual_required" /\ (k.reconcile <=> j.reconcile) /\ k.absent = m
            BY <2>3, <3>1 DEF Jobs, SameAgent, SamePane, SameLife
        <3>4. ~Open(k, world)
            BY <3>3 DEF Open, Doubtful
        <3> QED
            BY <1>3, <2>0, <2>2, <3>2, <3>3, <3>4, CheckoutStepFollows
    <2>8. n \in Nat /\ UncertainMax \in Nat
        BY <2>2, Constants DEF Tries
    <2>9. CASE ~(j.worktree = "failed_observing" /\ m >= FailedMax) /\ n < UncertainMax
        <3>1. ~(n >= UncertainMax)
            BY <2>8, <2>9
        <3>2. k = q
            BY <2>1, <2>3, <2>5, <2>9, <3>1 DEF Observed, OpOf
        <3>3. /\ SameAgent(j, k) /\ SamePane(j, k) /\ SameLife(j, k)
              /\ k.source = j.source /\ k.fork = j.fork /\ k.clone = j.clone
              /\ k.worktree = j.worktree /\ (k.reconcile <=> j.reconcile)
              /\ k.tries = n /\ k.absent = m
            BY <2>3, <3>2 DEF Jobs, SameAgent, SamePane, SameLife
        <3>4. k.worktree # "quarantined"
            BY <1>3, <3>3 DEF Doubtful
        <3> QED
            BY <1>3, <2>0, <2>2, <2>4, <2>9, <3>2, <3>3, <3>4, CheckoutStepFollows
    <2> QED
        BY <2>6, <2>7, <2>8, <2>9
<1> QED
    BY <1>1, <1>2, <1>3

\* The operations of a record, reconciled one after the other.
LEMMA OperationsFollow ==
    ASSUME NEW j \in Jobs, world \in Worlds, RecordTells(j, world, asked),
           NEW k \in ReconcileOperations(j)
    PROVE  Follows(j, k)
<1>1. CASE ~Uncertain(j)
    BY <1>1, FollowsSame DEF ReconcileOperations
<1>2. CASE Uncertain(j)
    <2>1. PICK p, q, r : p = ReconcileAgent(j) /\ q = ReconcileClone(p) /\ r = ReconcileFork(q)
        OBVIOUS
    <2>2. Follows(j, p)
        BY <2>1, AgentFollows
    <2>3. Follows(p, q)
        BY <2>1, <2>2, CloneFollows DEF Follows
    <2>4. Follows(q, r)
        BY <2>1, <2>3, ForkFollows DEF Follows
    <2>5. Follows(r, k)
        BY <1>2, <2>1, <2>4, CheckoutFollows DEF Follows, ReconcileOperations
    <2> QED
        BY <2>2, <2>3, <2>4, <2>5, FollowsOn
<1> QED
    BY <1>1, <1>2

\* The scan of the operations, all steps together.
LEMMA ScanOperationsKeeps == ASSUME Inv, ScanOperations PROVE Inv'
<1>1. PICK c \in ConsumeOutbox(job) : \E j \in ReconcileOperations(FencePromptAndPane(c)) :
         IF StopsWorker(j) THEN job' = j /\ wk' = Off ELSE Rewritten(j)
    BY DEF ScanOperations
<1>2. PICK j \in ReconcileOperations(FencePromptAndPane(c)) :
         IF StopsWorker(j) THEN job' = j /\ wk' = Off ELSE Rewritten(j)
    BY <1>1
<1>3. PICK d : d = FencePromptAndPane(c)
    OBVIOUS
<1>4. Follows(job, c)
    BY OutboxFollows
<1>5. Follows(c, d)
    BY <1>3, <1>4, FenceFollows, Typed DEF Follows
<1>6. Follows(d, j)
    BY <1>3, <1>5, OperationsFollow, Typed DEF Follows
<1>7. Follows(job, j)
    BY <1>4, <1>5, <1>6, FollowsOn
<1>8. /\ j \in Jobs /\ RecordTells(j, world, asked) /\ SameLife(job, j) /\ j.op = job.op
      /\ Unsure(j) => Unsure(job)
      /\ Alive => Gentle(job, j, world)
      /\ j.agent = "ready" => job.agent = "ready" \/ job.intent = "none"
    BY <1>7 DEF Follows
<1>9. UNCHANGED <<world, asked>> /\ scan' \in Scans /\ (scan'.launch <=> scan.launch)
    BY Typed DEF ScanOperations, Scans
<1>10. job' = j /\ wk' \in Workers /\ WorkerTells'
    <2>1. CASE Rewritten(j)
        BY <1>8, <1>9, <2>1, ForeignWrite DEF Alive, SameLife
    <2>2. CASE StopsWorker(j) /\ job' = j /\ wk' = Off
        <3>1. ~scan.launch
            BY <2>2, Typed DEF StopsWorker, Alive, WorkerTells
        <3> QED
            BY <1>9, <2>2, <3>1, OffTyped DEF WorkerTells, Early, Late
    <2> QED
        BY <1>2, <2>1, <2>2
<1>11. ReleaseTells' /\ rl' \in [Releasers -> Releases]
    BY <1>8, <1>9, <1>10, ReleaseKept, WorkerReleaseEnds, Typed DEF ScanOperations, SameLife
<1> QED
    BY <1>8, <1>9, <1>10, <1>11, InvNext, Typed

-----------------------------------------------------------------------------

\* The invariant holds before anything happened.
LEMMA InitHolds == Init => Inv
<1>0. SUFFICES ASSUME Init PROVE Inv
    OBVIOUS
<1>1. PICK s \in Sources :
         job = [source |-> s, status |-> "queued", reconcile |-> FALSE, confirmed |-> FALSE,
                owner |-> FALSE, user |-> FALSE, intent |-> "none", fork |-> "none",
                clone |-> "none", pull |-> "none",
                worktree |-> IF s = "follow" THEN "ready" ELSE "none",
                located |-> s = "follow", inspect |-> FALSE, pane |-> "none", planned |-> 0,
                target |-> 0, role |-> 0, phase |-> 1, agent |-> "none", op |-> 0, session |-> FALSE,
                prompt |-> "none", slot |-> "none", tries |-> 0, absent |-> 0,
                release |-> "none", unverified |-> FALSE]
    BY <1>0 DEF Init
<1>2. /\ 0 \in PlanNos /\ 0 \in RoleNos /\ 1 \in PhaseNos /\ 0 \in Tries /\ 0 \in Absents
    BY Constants DEF PlanNos, RoleNos, PhaseNos, Tries, Absents
<1>3. job \in Jobs
    BY <1>1, <1>2, Named DEF Jobs
<1>4. /\ job.source = s /\ job.status = "queued" /\ ~job.reconcile /\ ~job.owner /\ ~job.user
      /\ job.fork = "none" /\ job.worktree = (IF s = "follow" THEN "ready" ELSE "none")
      /\ job.pane = "none" /\ job.target = 0 /\ job.agent = "none" /\ job.op = 0 /\ ~job.session
      /\ job.absent = 0
    BY <1>1
<1>5. /\ wk \in Workers /\ wk.pc = "off" /\ scan \in Scans /\ rl \in [Releasers -> Releases]
      /\ \A r \in Releasers : ~rl[r].current
    BY <1>0, OffTyped, ReleaseFields DEF Init, Scans
<1>6. /\ world \in Worlds /\ \A g \in Plans : world.pane[g] = "no" /\ world.session[g] = "no"
    BY <1>0 DEF Init, Worlds
<1>7. asked \in [Kinds -> 0..1] /\ \A k \in Kinds : asked[k] = 0
    BY <1>0 DEF Init
<1>8. AskTells(job, asked)
    BY <1>7, KindsAre DEF AskTells
<1>9. AgentTells(job, world)
    BY <1>4, <1>6 DEF AgentTells, Busy, Quiescent
<1>10. PaneTells(job, world)
    BY <1>4, <1>6 DEF PaneTells, Unsure
<1>11. SourceTells(job, world) /\ TriesTell(job, world) /\ StatusTells(job)
    BY <1>4, Constants DEF SourceTells, TriesTell, StatusTells, Open, Checked, Doubtful, Terminal
<1>12. WorkerTells
    BY <1>4, <1>5 DEF WorkerTells, Early, Late, Unsure
<1>13. ReleaseTells
    BY <1>5 DEF ReleaseTells
<1> QED
    BY <1>3, <1>5, <1>6, <1>7, <1>8, <1>9, <1>10, <1>11, <1>12, <1>13 DEF Inv, Types, RecordTells

\* Every step of the worker keeps the invariant.
LEMMA WorkerStepKeeps == ASSUME Inv, WorkerStep PROVE Inv'
<1>1. CASE Start \/ StepFails \/ Ask \/ FindRepository \/ FindPullRequest \/ FindIssueRepository
    BY <1>1, StartKeeps, StepFailsKeeps, AskKeeps, FindRepositoryKeeps, FindPullRequestKeeps,
       FindIssueRepositoryKeeps
<1>2. CASE PlanFork \/ SubmitFork \/ ForkAnswered \/ MaterializeFork \/ SubmitClone \/ CloneAnswered
    BY <1>2, PlanForkKeeps, SubmitForkKeeps, ForkAnsweredKeeps, MaterializeForkKeeps,
       SubmitCloneKeeps, CloneAnsweredKeeps
<1>3. CASE ReserveExisting \/ SettleExisting \/ CreateWorktree \/ WorktreeAnswered
    BY <1>3, ReserveExistingKeeps, SettleExistingKeeps, CreateWorktreeKeeps, WorktreeAnsweredKeeps
<1>4. CASE PlanPane \/ PlanFollowUpPane \/ PlanParticipantPane \/ SubmitPane \/ PaneAnswered
    BY <1>4, PlansPaneKeeps, SubmitPaneKeeps, PaneAnsweredKeeps
    DEF PlanPane, PlanFollowUpPane, PlanParticipantPane
<1>5. CASE ReserveTarget \/ CreateSession \/ SessionAnswered \/ Prepare \/ CloseParticipant
           \/ ClearParticipants
    BY <1>5, ReserveTargetKeeps, CreateSessionKeeps, SessionAnsweredKeeps, PrepareKeeps,
       CloseParticipantKeeps, ClearParticipantsKeeps
<1>6. CASE SubmitPrompt \/ PromptAnswered \/ AgentAnswers \/ AgentLost \/ WorkerFails
           \/ WorkerCompletes \/ WorkerExits
    BY <1>6, SubmitPromptKeeps, PromptAnsweredKeeps, AgentAnswersKeeps, AgentLostKeeps,
       WorkerConcludes, WorkerExitsKeeps
<1> QED
    BY <1>1, <1>2, <1>3, <1>4, <1>5, <1>6 DEF WorkerStep

\* Every step keeps the invariant.
LEMMA StepKeeps == Inv /\ [Next]_vars => Inv'
<1>0. SUFFICES ASSUME Inv, [Next]_vars PROVE Inv'
    OBVIOUS
<1>1. CASE UNCHANGED vars
    <2>1. WorkerTells'
        BY <1>0, <1>1, Typed DEF vars, WorkerTells
    <2>2. ReleaseTells'
        BY <1>0, <1>1, Typed DEF vars, ReleaseTells
    <2> QED
        BY <1>0, <1>1, <2>1, <2>2, InvNext, Typed DEF vars
<1>2. CASE Claim \/ WorkerStep
    BY <1>0, <1>2, ClaimKeeps, WorkerStepKeeps
<1>3. CASE ScanOperations \/ Recover \/ StopWorker
    BY <1>0, <1>3, ScanOperationsKeeps, RecoverKeeps, StopWorkerKeeps
<1>4. CASE \E r \in Releasers : CloseTargets(r) \/ CommitRelease(r)
    BY <1>0, <1>4, CloseTargetsKeeps, CommitReleaseKeeps
<1>5. CASE User
    BY <1>0, <1>5, ConfirmationKeeps, CancelKeeps, RelinquishKeeps, ResumeKeeps, ResolveKeeps,
       AcknowledgeQuarantineKeeps DEF User, AnswerFork, AnswerClone
<1>6. CASE Lands \/ SessionEnds
    BY <1>0, <1>6, ThingLandsKeeps, PaneLandsKeeps, SessionLandsKeeps, SessionEndsKeeps DEF Lands
<1>7. CASE WorkerCrashes \/ DaemonCrashes
    BY <1>0, <1>7, WorkerCrashesKeeps, DaemonCrashesKeeps
<1> QED
    BY <1>0, <1>1, <1>2, <1>3, <1>4, <1>5, <1>6, <1>7 DEF Next

-----------------------------------------------------------------------------

\* The invariant holds in every state of every behaviour, for any sources, any number of
\* participants and plans, and any number of errors, crashes and acts of the user.
THEOREM ProvisionInvariant == Spec => []Inv
    BY InitHolds, StepKeeps, PTL DEF Spec

\* Every variable keeps its type.
THEOREM TypeCorrect == Spec => []TypeOK
<1>1. Inv => TypeOK
    BY TypesTell DEF Inv
<1> QED
    BY <1>1, ProvisionInvariant, PTL

\* A fork, a clone and a worktree are asked for at most once (_mark_fork_dispatching,
\* mark_clone_submitted, _reserve_worker_worktree): what the record still lets be asked for was
\* never asked for.
THEOREM NothingAskedTwice == Spec => []AskedOnce
<1>1. Inv => AskedOnce
    BY DEF Inv, Types, AskedOnce
<1> QED
    BY <1>1, ProvisionInvariant, PTL

\* No two sessions of a job are alive or on their way (_ensure_workflow_participant,
\* _execute_session_create_effect): whatever is, is the one the operation names.
THEOREM OneAgent == Spec => []SingleAgent
<1>1. ASSUME Inv PROVE SingleAgent
    <2>1. PICK s : s = {g \in Plans : world.session[g] \in {"asked", "live"}}
        OBVIOUS
    <2>2. s \subseteq {job.op}
        BY <1>1, <2>1 DEF Inv, RecordTells, AgentTells, Busy
    <2>3. IsFiniteSet({job.op}) /\ Cardinality({job.op}) = 1
        BY FS_Singleton
    <2>4. IsFiniteSet(s) /\ Cardinality(s) <= 1
        BY <2>2, <2>3, FS_Subset
    <2> QED
        BY <2>1, <2>4 DEF SingleAgent
<1> QED
    BY <1>1, ProvisionInvariant, PTL

\* An outcome is given only when no agent of the job works or can still start
\* (cancel_target_and_release): the record of a job that is over names no session, and a session
\* that is busy is named.
THEOREM OutcomeAfterRelease == Spec => []ReleasedIsClosed
<1>1. ASSUME Inv PROVE ReleasedIsClosed
    <2>1. SUFFICES ASSUME job.status \in Terminal, NEW g \in Plans PROVE ~Busy(world, g)
        BY DEF ReleasedIsClosed, Busy
    <2>2. Quiescent(job)
        BY <1>1, <2>1 DEF Inv, RecordTells, StatusTells
    <2> QED
        BY <1>1, <2>2 DEF Inv, RecordTells, AgentTells
<1> QED
    BY <1>1, ProvisionInvariant, PTL

\* What may never happen to the panes and sessions of a user.
Untouched == job.user /\ job'.user /\ job.intent = "none" =>
                \A g \in Plans :
                  /\ world'.pane[g] # world.pane[g] => world.pane[g] = "asked"
                  /\ world'.session[g] = "asked" => world.session[g] = "asked"

\* A session the user controls is not a worker's to touch.
LEMMA NoWorkerTouches ==
    ASSUME Inv, job.user, WorkerStep
    PROVE  UNCHANGED world
<1>1. wk.pc \in {"off", "start", "fail", "cleanup"}
    BY Typed DEF WorkerTells
<1>2. Start \/ StepFails \/ WorkerFails \/ WorkerExits
    <2>1. ~(Ask \/ FindRepository \/ FindPullRequest \/ FindIssueRepository \/ PlanFork
            \/ SubmitFork \/ ForkAnswered \/ MaterializeFork \/ SubmitClone \/ CloneAnswered)
        BY <1>1 DEF Ask, FindRepository, FindPullRequest, FindIssueRepository, PlanFork,
           SubmitFork, ForkAnswered, MaterializeFork, SubmitClone, CloneAnswered
    <2>2. ~(ReserveExisting \/ SettleExisting \/ CreateWorktree \/ WorktreeAnswered \/ PlanPane
            \/ PlanFollowUpPane \/ PlanParticipantPane \/ SubmitPane \/ PaneAnswered)
        BY <1>1 DEF ReserveExisting, SettleExisting, CreateWorktree, WorktreeAnswered, PlanPane,
           PlanFollowUpPane, PlanParticipantPane, PlansPane, SubmitPane, PaneAnswered
    <2>3. ~(ReserveTarget \/ CreateSession \/ SessionAnswered \/ Prepare \/ CloseParticipant
            \/ ClearParticipants \/ SubmitPrompt \/ PromptAnswered \/ AgentAnswers \/ AgentLost
            \/ WorkerCompletes)
        BY <1>1 DEF ReserveTarget, CreateSession, SessionAnswered, Prepare, CloseParticipant,
           ClearParticipants, SubmitPrompt, PromptAnswered, AgentAnswers, AgentLost,
           WorkerCompletes, Conclude
    <2> QED
        BY <2>1, <2>2, <2>3 DEF WorkerStep
<1> QED
    BY <1>2 DEF Start, StepFails, WorkerFails, WorkerExits, Conclude, Quiet

\* What arrives was asked for before the user took over.
LEMMA LandsUntouched ==
    ASSUME Inv, Lands \/ SessionEnds
    PROVE  Untouched
<1>0. PICK w : w = world
    OBVIOUS
<1>1. w \in Worlds
    BY <1>0, Typed
<1>2. CASE ThingLands
    <2>1. PICK n \in Kinds, v \in {"yes", "no"} : world' = [w EXCEPT !.thing[n] = v]
        BY <1>0, <1>2 DEF ThingLands
    <2>2. world'.pane = w.pane /\ world'.session = w.session
        BY <1>1, <2>1 DEF Worlds
    <2> QED
        BY <1>0, <2>2 DEF Untouched
<1>3. CASE PaneLands
    <2>1. PICK n \in Plans, v \in {"open", "no"} :
            w.pane[n] = "asked" /\ world' = [w EXCEPT !.pane[n] = v]
        BY <1>0, <1>3 DEF PaneLands
    <2>2. /\ world'.session = w.session
          /\ \A g \in Plans : world'.pane[g] = IF g = n THEN v ELSE w.pane[g]
        BY <1>1, <2>1 DEF Worlds
    <2> QED
        BY <1>0, <2>1, <2>2 DEF Untouched
<1>4. CASE SessionLands \/ SessionEnds
    <2>1. PICK n \in Plans, v \in {"live", "gone"} : world' = [w EXCEPT !.session[n] = v]
        BY <1>0, <1>4 DEF SessionLands, SessionEnds
    <2>2. /\ world'.pane = w.pane
          /\ \A g \in Plans : world'.session[g] = IF g = n THEN v ELSE w.session[g]
        BY <1>1, <2>1 DEF Worlds
    <2> QED
        BY <1>0, <2>1, <2>2 DEF Untouched
<1> QED
    BY <1>2, <1>3, <1>4 DEF Lands

\* While the user controls the session, and did not end the job, the harness asks for no pane
\* and no session and closes no pane (relinquish_session_control, recover_jobs).
THEOREM UserLeftAlone == Spec => UserSessionUntouched
<1>1. ASSUME Inv, [Next]_vars PROVE [Untouched]_vars
    <2>1. SUFFICES ASSUME Next, job.user, job.intent = "none" PROVE Untouched
        BY <1>1 DEF Untouched
    <2>2. CASE UNCHANGED world
        BY <2>2 DEF Untouched
    <2>3. CASE Lands \/ SessionEnds
        BY <1>1, <2>3, LandsUntouched
    <2>4. CASE WorkerStep
        BY <1>1, <2>1, <2>2, <2>4, NoWorkerTouches
    <2>5. CASE \E r \in Releasers : CloseTargets(r) \/ CommitRelease(r)
        BY <2>1, <2>2, <2>5 DEF CloseTargets, CommitRelease
    <2>6. CASE Claim \/ ScanOperations \/ Recover \/ StopWorker \/ WorkerCrashes \/ DaemonCrashes
        BY <2>2, <2>6 DEF Claim, ScanOperations, Recover, StopWorker, WorkerCrashes, DaemonCrashes
    <2>7. CASE User
        BY <2>2, <2>7 DEF User, AnswerFork, AnswerClone, Confirmation, Cancel, Relinquish, Resume,
           Resolve, AcknowledgeQuarantine
    <2> QED
        BY <2>1, <2>3, <2>4, <2>5, <2>6, <2>7 DEF Next
<1>2. [][Untouched]_vars => UserSessionUntouched
    BY PTL DEF Untouched, UserSessionUntouched
<1> QED
    BY <1>1, <1>2, ProvisionInvariant, PTL DEF Spec
=============================================================================
