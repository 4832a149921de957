---------------------------- MODULE WorkflowProofs ----------------------------
(***************************************************************************)
(* An implementer builds what was reviewed and approved, and the ledger of *)
(* explicit approvals is honest: for every number of turns, questions,     *)
(* crashes, lost answers and changes of the preferences.                   *)
(***************************************************************************)
EXTENDS Workflow, FiniteSetTheorems, TLAPS

\* The shapes of the records.
Statuses == {"queued", "awaiting", "blocked"} \cup Working \cup Terminal
Prompts == {"none", "planned", "submitting", "submitted", "ambiguous"}
Roles == {"none", "planner", "reviewer", "implementer"}
Owners == {"none", "workflow", "review", "exhausted", "plan_approval", "auto_offer"}
QuestionStates == {"none", "pending", "answered", "dispatching", "resolved", "cancelled"}
Marks == {"none", "tier", "plan", "approve", "revise", "promote", "summary"}
WorkerPcs == {"off", "start", "ready", "loop", "turn", "sent", "count", "mark", "watch", "observe",
              "advance", "ask", "finish"}
Plans == [n : Nat, round : Nat, hard : BOOLEAN]
Reviews == [of : Nat, round : Nat, decision : {"none", "approve", "revise"}, hard : BOOLEAN]
Approvals == [state : ApprovalStates, gate : Nat \X Nat, source : {"none", "explicit", "auto"},
              plan : Nat, counted : BOOLEAN]
Jobs == [status : Statuses, reconcile : BOOLEAN, phase : Phases, tier : Tiers \cup {"none"},
         round : 0..MaxRound, turn : Nat, token : Nat, turnPhase : Phases \cup {"none"},
         cont : BOOLEAN, prompt : Prompts, full : BOOLEAN, seen : BOOLEAN, plan : Plans,
         review : Reviews, src : {"none", "reviewer", "user"}, ap : Approvals,
         pending : BOOLEAN, role : Roles]
VoiceQuestions == [id : Nat, owner : Owners, token : Nat, state : QuestionStates, dispatch : Nat,
                   routine : BOOLEAN]
Outs == {o \in [asks : {"no", "routine", "other"}, mark : Marks, tier : Tiers \cup {"none"}, hard : BOOLEAN] :
            o.mark \in {"tier", "promote"} => o.tier \in Tiers}
Agents == [n : Nat, token : Nat, phase : Phases \cup {"none"}, plan : Nat,
           state : {"idle", "working", "shown", "done"}, out : Outs]
Effects == [st : {"none", "pending", "sent", "unknown", "confirmed"},
            by : {"none", "worker", "scan"}, settled : BOOLEAN]
Workers == [pc : WorkerPcs, outer : BOOLEAN, got : BOOLEAN, out : Outs, settled : BOOLEAN,
            pref : {"none", "offer", "known", "full", "failed"}]
Preferences == [mode : {"ask", "auto"}, ids : SUBSET (Nat \X Nat), offer : Nat \X Nat, done : BOOLEAN]
Histories == [shown : Seq(Nat), yes : SUBSET Nat, auto : SUBSET Nat, built : SUBSET Nat, sent : Nat]
Spendings == [questions : Nat, faults : Nat]

Types == /\ job \in Jobs /\ q \in VoiceQuestions /\ wk \in Workers /\ eff \in Effects
         /\ ag \in Agents /\ prefs \in Preferences /\ hist \in Histories /\ spent \in Spendings

\* The plan of a job was reviewed, and the user or the preference approved it.
Cleared(j, h) ==
    \/ j.tier = "simple" /\ j.plan.n = 0
    \/ /\ j.tier # "simple" /\ j.review.of = j.plan.n
       /\ \/ j.plan.n \in h.yes
          \/ /\ j.plan.n \in h.auto /\ j.tier = "medium"
             /\ ~j.plan.hard /\ ~j.review.hard /\ j.review.decision = "approve"

\* What a phase says of tier and round, plan and review.
PhaseTells(j, h) ==
    /\ j.token <= j.turn
    /\ j.phase = "classifying" => /\ j.plan.n = 0 /\ j.round = 0 /\ j.src = "none" /\ j.ap.state = "none"
    /\ j.phase # "classifying" => j.tier \in Tiers
    /\ j.phase \in PlanPhases \cup {"reviewing"} => j.tier \in {"medium", "high"}
    /\ j.tier = "medium" => j.round = 0
    /\ j.phase = "reviewing" => /\ j.ap.state # "none" /\ j.ap.gate[1] = j.plan.n
                                /\ j.plan.round = j.round
    /\ j.phase \in {"implementing", "finished"} => Cleared(j, h)
    /\ j.phase = "finished" => /\ j.plan.n \in h.built /\ j.prompt = "none"
                               /\ j.pending \/ j.status \in Terminal \cup {"awaiting"}
    /\ j.pending => j.phase = "finished"
    /\ j.src = "reviewer" => j.review.decision = "approve"
    /\ j.src = "user" => /\ j.tier = "high" /\ j.review.decision = "revise" /\ j.round >= MaxRound
    /\ j.src # "none" => j.plan.round = j.round /\ j.review.round = j.round

\* An approval has its gate, and an explicit one the user's word.
ApprovalTells(j, h) ==
    /\ j.ap.state = "none" <=> j.ap.gate = NoGate
    /\ j.ap.source # "none" => j.phase \in {"implementing", "finished"} /\ j.ap.state # "none"
    /\ j.ap.source = "explicit" => j.ap.gate[1] = j.plan.n /\ j.plan.n \in h.yes

\* The session belongs to the job's role, and a reviewer or an implementer has its plan.
AgentTells(j, a, h) ==
    /\ a.phase # "none" => j.role = RoleOf(a.phase) \/ j.phase = "finished"
    /\ a.phase = j.phase /\ a.phase \in {"reviewing", "implementing"} => a.plan = j.plan.n
    /\ a.phase = j.phase /\ a.phase = "implementing" => j.plan.n \in h.built
    /\ j.seen => a.phase # "none"
    /\ j.prompt # "none" => j.role = RoleOf(j.phase) /\ j.turnPhase = j.phase
    /\ j.prompt = "submitted" => a.phase = j.phase
    /\ j.prompt \in {"planned", "submitting"} /\ ~j.full => j.seen

\* A row under way is that of the prompt being submitted.
EffectTells(j, e, a) ==
    e.st # "none" /\ j.status \notin Terminal =>
        /\ j.prompt = "submitting" /\ j.status \in Working
        /\ e.st # "pending" => a.phase = j.phase

\* What the worker relies on at its place in the code.
WorkerTells(j, w, a) ==
    /\ w.pc # "off" => j.status \in Working
    /\ w.pc = "turn" => j.prompt = "none"
    /\ w.pc = "sent" => j.prompt = "submitting"
    /\ w.pc \in {"count", "mark", "watch", "observe", "advance", "ask"} => j.prompt = "submitted"
    /\ w.pc = "count" => j.ap.source = "explicit"
    /\ w.pc = "advance" /\ j.phase \in PlanPhases /\ w.out.mark = "plan" =>
         j.ap.state = "boundary" /\ j.ap.gate[1] = a.n
    /\ w.pc = "ask" => /\ j.phase = "reviewing" /\ j.review.of = j.plan.n /\ j.review.round = j.round
                       /\ j.review.decision = "revise" /\ j.src = "none"
                       /\ j.tier = "medium" \/ j.round >= MaxRound
    /\ w.pc = "finish" => j.pending \/ (j.phase = "implementing" /\ j.prompt = "submitted")

\* What the question that is asked, or was answered, says of the job.
QuestionTells(j, k, w, h) ==
    /\ k.dispatch <= j.turn
    /\ j.status = "awaiting" => /\ k.state = "pending" /\ w.pc = "off" /\ ~j.reconcile
                                /\ j.phase = "finished" => k.owner = "auto_offer"
                                /\ k.id \in 1..Len(h.shown)
    /\ k.state = "pending" => j.status = "awaiting"
    /\ k.state = "answered" => /\ j.status \in {"queued", "routing"} \cup Terminal
                               /\ w.pc \in {"off", "start"} /\ ~j.reconcile
                               /\ j.cont => k.owner \in {"workflow", "review"}
    /\ k.state = "dispatching" => k.owner \in {"workflow", "review"}
    /\ k.state = "cancelled" => j.status \in Terminal
    /\ j.status = "awaiting" /\ k.owner \in {"review", "exhausted", "plan_approval"} =>
         /\ j.phase = "reviewing" /\ j.role = "reviewer" /\ ~k.routine
         /\ h.shown[k.id] = j.plan.n /\ j.review.of = j.plan.n /\ j.review.round = j.round
    /\ j.status = "awaiting" /\ k.owner = "exhausted" =>
         j.tier = "high" /\ j.review.decision = "revise" /\ j.round >= MaxRound
    /\ j.status = "awaiting" /\ k.owner = "review" => j.src = "none"
    /\ k.owner = "plan_approval" /\ k.state \in {"pending", "answered"} => j.ap.state # "none"

\* The ledger holds at most OfferAfter approvals, a full one offers or has offered.
PrefsTell(p) ==
    /\ IsFiniteSet(p.ids) /\ Cardinality(p.ids) <= OfferAfter
    /\ Cardinality(p.ids) = OfferAfter => p.done \/ p.offer # NoGate
    /\ p.offer # NoGate => p.offer \in p.ids /\ ~p.done

Inv == /\ Types
       /\ PhaseTells(job, hist) /\ ApprovalTells(job, hist) /\ AgentTells(job, ag, hist)
       /\ EffectTells(job, eff, ag) /\ WorkerTells(job, wk, ag) /\ QuestionTells(job, q, wk, hist)
       /\ PrefsTell(prefs) /\ LedgerHonest

-----------------------------------------------------------------------------

USE DEF At, Owns, Open, Goes, Working, Terminal

\* Two versions of a job that agree on its work, and on its turn.
SameWork(j, k) ==
    /\ k.phase = j.phase /\ k.tier = j.tier /\ k.round = j.round /\ k.plan = j.plan
    /\ k.review = j.review /\ k.src = j.src /\ k.role = j.role
SameTurn(j, k) == k.turn = j.turn /\ k.token = j.token /\ k.turnPhase = j.turnPhase

\* What the invariant says of the variables' types.
LEMMA Typed ==
    ASSUME Inv
    PROVE  /\ job \in Jobs /\ q \in VoiceQuestions /\ wk \in Workers /\ eff \in Effects
           /\ ag \in Agents /\ prefs \in Preferences /\ hist \in Histories /\ spent \in Spendings
           /\ job.turn \in Nat /\ job.token \in Nat /\ q.dispatch \in Nat
    BY DEF Inv, Types, Jobs, VoiceQuestions

\* The invariant of the next state, from its parts.
LEMMA InvNext ==
    ASSUME job' \in Jobs, q' \in VoiceQuestions, wk' \in Workers, eff' \in Effects, ag' \in Agents,
           prefs' \in Preferences, hist' \in Histories, spent' \in Spendings,
           PhaseTells(job, hist)', ApprovalTells(job, hist)', AgentTells(job, ag, hist)',
           EffectTells(job, eff, ag)', WorkerTells(job, wk, ag)', QuestionTells(job, q, wk, hist)',
           PrefsTell(prefs)', LedgerHonest'
    PROVE  Inv'
    BY DEF Inv, Types

\* The constant records have their shapes.
LEMMA StartTyped ==
    /\ NoOut \in Outs /\ Off \in Workers /\ NoAgent \in Agents /\ NoEffect \in Effects
    /\ NoQuestion \in VoiceQuestions /\ NoPlan \in Plans /\ NoReview \in Reviews
    /\ NoApproval \in Approvals /\ Off.pc = "off" /\ Off.out = NoOut
<1>1. NoOut \in Outs
    BY DEF NoOut, Outs, Marks
<1>2. Off \in Workers /\ Off.pc = "off" /\ Off.out = NoOut
    BY <1>1 DEF Off, Workers, WorkerPcs
<1>3. NoAgent \in Agents
    BY <1>1 DEF NoAgent, Agents
<1> QED
    BY <1>1, <1>2, <1>3 DEF NoEffect, Effects, NoQuestion, VoiceQuestions, Owners, QuestionStates,
       NoPlan, Plans, NoReview, Reviews, NoApproval, Approvals, ApprovalStates, NoGate

\* The ranks of the tiers.
LEMMA Ranks == Rank("simple") = 1 /\ Rank("medium") = 2 /\ Rank("high") = 3
    BY DEF Rank, TierOrder

\* A worker that moves on.
LEMMA WorkerGoes ==
    ASSUME Inv, NEW pc \in WorkerPcs, NEW b \in BOOLEAN
    PROVE  /\ [wk EXCEPT !.pc = pc, !.outer = b] \in Workers /\ [wk EXCEPT !.pc = pc] \in Workers
           /\ [wk EXCEPT !.pc = pc, !.outer = b].pc = pc /\ [wk EXCEPT !.pc = pc].pc = pc
           /\ [wk EXCEPT !.pc = pc, !.outer = b].out = wk.out /\ [wk EXCEPT !.pc = pc].out = wk.out
    BY Typed DEF Workers

\* An approval is recorded in the ledger as long as it has room.
LEMMA RecordedKeeps ==
    ASSUME NEW p \in Preferences, NEW id \in Nat \X Nat, id # NoGate, PrefsTell(p)
    PROVE  /\ Recorded(p, id) \in Preferences /\ PrefsTell(Recorded(p, id))
           /\ Recorded(p, id).ids \subseteq p.ids \cup {id}
<1>1. CASE id \in p.ids
    BY <1>1 DEF Recorded
<1>2. CASE id \notin p.ids
    <2> DEFINE ids == IF Cardinality(p.ids) < OfferAfter THEN p.ids \cup {id} ELSE p.ids
               offer == IF Cardinality(ids) = OfferAfter /\ ~p.done /\ p.offer = NoGate
                        THEN id ELSE p.offer
    <2>1. Recorded(p, id) = [p EXCEPT !.ids = ids, !.offer = offer]
        BY <1>2 DEF Recorded
    <2>2. /\ IsFiniteSet(p.ids) /\ Cardinality(p.ids) \in Nat
          /\ IsFiniteSet(p.ids \cup {id}) /\ Cardinality(p.ids \cup {id}) = Cardinality(p.ids) + 1
        BY <1>2, FS_AddElement, FS_CardinalityType DEF PrefsTell
    <2>3. OfferAfter \in Nat
        BY WorkflowConstants
    <2>4. /\ IsFiniteSet(ids) /\ Cardinality(ids) <= OfferAfter /\ ids \subseteq p.ids \cup {id}
          /\ p.ids \subseteq ids /\ Cardinality(ids) \in Nat
        BY <2>2, <2>3 DEF PrefsTell
    <2>5. ids \in SUBSET (Nat \X Nat) /\ offer \in Nat \X Nat
        BY <2>4 DEF Preferences
    <2>6. Cardinality(ids) = OfferAfter => p.done \/ offer # NoGate
        OBVIOUS
    <2>7. offer # NoGate => offer \in ids /\ ~p.done
        <3>1. CASE Cardinality(ids) = OfferAfter /\ ~p.done /\ p.offer = NoGate
            <4>1. Cardinality(p.ids) < OfferAfter
                BY <3>1, <2>2, <2>3 DEF PrefsTell
            <4> QED
                BY <3>1, <4>1
        <3>2. CASE ~(Cardinality(ids) = OfferAfter /\ ~p.done /\ p.offer = NoGate)
            BY <3>2, <2>4 DEF PrefsTell
        <3> QED
            BY <3>1, <3>2
    <2> HIDE DEF ids, offer
    <2>8. /\ Recorded(p, id) \in Preferences /\ Recorded(p, id).ids = ids
          /\ Recorded(p, id).offer = offer /\ (Recorded(p, id).done <=> p.done)
        BY <2>1, <2>5 DEF Preferences
    <2> QED
        BY <2>4, <2>6, <2>7, <2>8 DEF PrefsTell
<1> QED
    BY <1>1, <1>2

\* A new turn of a job.
LEMMA TurnTyped == ASSUME NEW j \in Jobs PROVE TurnOf(j) \in Jobs
<1>1. PICK n \in Nat : n = j.turn + 1
    BY DEF Jobs
<1>2. PICK p \in Phases : p = j.phase
    BY DEF Jobs
<1>3. TurnOf(j) = [j EXCEPT !.turn = n, !.token = n, !.turnPhase = p, !.prompt = "none"]
    BY <1>1, <1>2 DEF TurnOf
<1> QED
    BY <1>3 DEF Jobs, Prompts

\* The worker that claimed the job fails it, or finds its snapshot old and only ends.
LEMMA RaiseKeeps == ASSUME Inv, Raise, wk.pc # "off", UNCHANGED <<q, eff, ag, prefs, hist, spent>> PROVE Inv'
<1>0. /\ job \in Jobs /\ wk \in Workers /\ job.turn \in Nat /\ q.dispatch \in Nat
      /\ Off \in Workers /\ Off.pc = "off"
    BY Typed, StartTyped
<1>1. job' \in Jobs
    BY <1>0, Typed DEF Raise, Jobs, Statuses
<1>2. wk' \in Workers
    BY <1>0, Typed DEF Raise, Workers, WorkerPcs
<1>3. PhaseTells(job, hist)'
    BY <1>0 DEF Inv, Raise, Jobs, PhaseTells, Cleared
<1>4. ApprovalTells(job, hist)'
    BY <1>0 DEF Inv, Raise, Jobs, ApprovalTells
<1>5. AgentTells(job, ag, hist)'
    BY <1>0 DEF Inv, Raise, Jobs, AgentTells
<1>6. EffectTells(job, eff, ag)'
    BY <1>0 DEF Inv, Raise, Jobs, EffectTells
<1>7. WorkerTells(job, wk, ag)'
    BY <1>0 DEF Inv, Raise, Jobs, Workers, WorkerTells
<1>8. QuestionTells(job, q, wk, hist)'
    BY <1>0 DEF Inv, Raise, Jobs, Workers, QuestionTells
<1>9. PrefsTell(prefs)' /\ LedgerHonest'
    BY DEF Inv, Raise, LedgerHonest
<1> QED
    BY <1>1, <1>2, <1>3, <1>4, <1>5, <1>6, <1>7, <1>8, <1>9, Typed, InvNext DEF Raise

\* A worker claims the job.
LEMMA ClaimKeeps == ASSUME Inv, Claim PROVE Inv'
<1>0. /\ job \in Jobs /\ wk \in Workers /\ job.turn \in Nat /\ q.dispatch \in Nat
      /\ Off \in Workers /\ Off.pc = "off"
    BY Typed, StartTyped
<1>1. wk'.pc \in {"start", "loop"} /\ job'.status \in Working
    BY <1>0 DEF Claim, Jobs, Workers
<1>2. job' \in Jobs
    BY <1>0, Typed DEF Claim, Jobs, Statuses
<1>3. wk' \in Workers
    BY <1>0, Typed DEF Claim, Workers, WorkerPcs
<1>4. PhaseTells(job, hist)'
    BY <1>0 DEF Inv, Claim, Jobs, PhaseTells, Cleared
<1>5. ApprovalTells(job, hist)'
    BY <1>0 DEF Inv, Claim, Jobs, ApprovalTells
<1>6. AgentTells(job, ag, hist)'
    BY <1>0 DEF Inv, Claim, Jobs, AgentTells
<1>7. EffectTells(job, eff, ag)'
    BY <1>0 DEF Inv, Claim, Jobs, EffectTells
<1>8. WorkerTells(job, wk, ag)'
    BY <1>1 DEF WorkerTells
<1>9. QuestionTells(job, q, wk, hist)'
    <2>1. /\ SameTurn(job, job') /\ job'.reconcile = job.reconcile /\ job'.cont = job.cont
          /\ job'.ap = job.ap
        BY <1>0 DEF Claim, Jobs, SameTurn
    <2>2. /\ job.status = "queued" /\ q' = q
          /\ job.reconcile \/ (job'.status = "routing" /\ wk'.pc = "start")
        BY <1>0 DEF Claim, Jobs, Workers
    <2> QED
        BY <1>1, <2>1, <2>2 DEF Inv, QuestionTells, SameTurn
<1>10. PrefsTell(prefs)' /\ LedgerHonest'
    BY DEF Inv, Claim, LedgerHonest
<1> QED
    BY <1>2, <1>3, <1>4, <1>5, <1>6, <1>7, <1>8, <1>9, <1>10, Typed, InvNext DEF Claim

\* The infrastructure is there.
LEMMA MarkRunningKeeps == ASSUME Inv, MarkRunning PROVE Inv'
<1>0. /\ job \in Jobs /\ wk \in Workers /\ job.turn \in Nat /\ q.dispatch \in Nat
      /\ Off \in Workers /\ Off.pc = "off"
    BY Typed, StartTyped
<1>1. job' \in Jobs
    BY <1>0, Typed DEF MarkRunning, Jobs, Statuses
<1>2. wk' \in Workers
    BY <1>0, Typed DEF MarkRunning, Workers, WorkerPcs
<1>3. PhaseTells(job, hist)'
    BY <1>0 DEF Inv, MarkRunning, Jobs, PhaseTells, Cleared
<1>4. ApprovalTells(job, hist)'
    BY <1>0 DEF Inv, MarkRunning, Jobs, ApprovalTells
<1>5. AgentTells(job, ag, hist)'
    BY <1>0 DEF Inv, MarkRunning, Jobs, AgentTells
<1>6. EffectTells(job, eff, ag)'
    BY <1>0 DEF Inv, MarkRunning, Jobs, EffectTells
<1>7. WorkerTells(job, wk, ag)'
    BY <1>0 DEF Inv, MarkRunning, Jobs, Workers, WorkerTells
<1>8. QuestionTells(job, q, wk, hist)'
    BY <1>0 DEF Inv, MarkRunning, Jobs, Workers, QuestionTells
<1>9. PrefsTell(prefs)' /\ LedgerHonest'
    BY DEF Inv, MarkRunning, LedgerHonest
<1> QED
    BY <1>1, <1>2, <1>3, <1>4, <1>5, <1>6, <1>7, <1>8, <1>9, Typed, InvNext DEF MarkRunning

\* A turn begins for the phase the workflow moved to.
LEMMA NextTurnKeeps == ASSUME Inv, NextTurn PROVE Inv'
<1>0. /\ job \in Jobs /\ wk \in Workers /\ job.turn \in Nat /\ q.dispatch \in Nat
      /\ Off \in Workers /\ Off.pc = "off"
    BY Typed, StartTyped
<1>1. eff.st = "none"
    BY <1>0 DEF Inv, NextTurn, EffectTells, WorkerTells
<1>2. job' \in Jobs
    BY Typed, TurnTyped DEF NextTurn, PhaseTurn
<1>3. wk' \in Workers
    BY <1>0, <1>1, Typed DEF NextTurn, TurnOf, Workers, WorkerPcs
<1>4. PhaseTells(job, hist)'
    BY <1>0, <1>1 DEF Inv, NextTurn, TurnOf, Jobs, PhaseTells, Cleared
<1>5. ApprovalTells(job, hist)'
    BY <1>0, <1>1 DEF Inv, NextTurn, TurnOf, Jobs, ApprovalTells
<1>6. AgentTells(job, ag, hist)'
    BY <1>0, <1>1 DEF Inv, NextTurn, TurnOf, Jobs, AgentTells
<1>7. EffectTells(job, eff, ag)'
    BY <1>0, <1>1 DEF Inv, NextTurn, TurnOf, Jobs, EffectTells
<1>8. WorkerTells(job, wk, ag)'
    BY <1>0, <1>1 DEF Inv, NextTurn, TurnOf, Jobs, Workers, WorkerTells
<1>9. QuestionTells(job, q, wk, hist)'
    BY <1>0, <1>1 DEF Inv, NextTurn, TurnOf, Jobs, Workers, QuestionTells
<1>10. PrefsTell(prefs)' /\ LedgerHonest'
    BY DEF Inv, NextTurn, LedgerHonest
<1> QED
    BY <1>2, <1>3, <1>4, <1>5, <1>6, <1>7, <1>8, <1>9, <1>10, Typed, InvNext DEF NextTurn, TurnOf

\* Another role gets a fresh session.
LEMMA HandOverKeeps == ASSUME Inv, HandOver PROVE Inv'
<1>0. /\ job \in Jobs /\ wk \in Workers /\ job.turn \in Nat /\ q.dispatch \in Nat
      /\ Off \in Workers /\ Off.pc = "off"
    BY Typed, StartTyped
<1>1. eff.st = "none"
    BY <1>0 DEF Inv, HandOver, EffectTells, AgentTells
<1>2. job' \in Jobs
    BY ZenonT(30), <1>0, <1>1, Typed DEF HandOver, NoAgent, RoleOf, Jobs, Roles
<1>3. wk' \in Workers
    BY <1>0, <1>1, Typed DEF HandOver, NoAgent, RoleOf, Workers, WorkerPcs
<1>4. ag' \in Agents
    BY StartTyped DEF HandOver
<1>5. PhaseTells(job, hist)'
    BY <1>0, <1>1 DEF Inv, HandOver, NoAgent, RoleOf, Jobs, PhaseTells, Cleared
<1>6. ApprovalTells(job, hist)'
    BY <1>0, <1>1 DEF Inv, HandOver, NoAgent, RoleOf, Jobs, ApprovalTells
<1>7. AgentTells(job, ag, hist)'
    BY <1>0, <1>1 DEF Inv, HandOver, NoAgent, RoleOf, Jobs, Agents, AgentTells
<1>8. EffectTells(job, eff, ag)'
    BY <1>0, <1>1 DEF Inv, HandOver, NoAgent, RoleOf, Jobs, Agents, EffectTells
<1>9. WorkerTells(job, wk, ag)'
    BY <1>0, <1>1 DEF Inv, HandOver, NoAgent, RoleOf, Jobs, Workers, Agents, WorkerTells
<1>10. QuestionTells(job, q, wk, hist)'
    BY <1>0, <1>1 DEF Inv, HandOver, NoAgent, RoleOf, Jobs, Workers, QuestionTells
<1>11. PrefsTell(prefs)' /\ LedgerHonest'
    BY DEF Inv, HandOver, LedgerHonest
<1> QED
    BY <1>2, <1>3, <1>4, <1>5, <1>6, <1>7, <1>8, <1>9, <1>10, <1>11, Typed, InvNext DEF HandOver,
       NoAgent, RoleOf

\* A turn begun for another phase is not used.
LEMMA PhaseTurnKeeps == ASSUME Inv, PhaseTurn PROVE Inv'
<1>0. /\ job \in Jobs /\ wk \in Workers /\ job.turn \in Nat /\ q.dispatch \in Nat
      /\ Off \in Workers /\ Off.pc = "off"
    BY Typed, StartTyped
<1>1. eff.st = "none"
    BY <1>0 DEF Inv, PhaseTurn, EffectTells, AgentTells
<1>2. job' \in Jobs
    BY Typed, TurnTyped DEF NextTurn, PhaseTurn
<1>3. wk' \in Workers
    BY <1>0, <1>1, Typed DEF PhaseTurn, TurnOf, Workers, WorkerPcs
<1>4. PhaseTells(job, hist)'
    BY <1>0, <1>1 DEF Inv, PhaseTurn, TurnOf, Jobs, PhaseTells, Cleared
<1>5. ApprovalTells(job, hist)'
    BY <1>0, <1>1 DEF Inv, PhaseTurn, TurnOf, Jobs, ApprovalTells
<1>6. AgentTells(job, ag, hist)'
    BY <1>0, <1>1 DEF Inv, PhaseTurn, TurnOf, Jobs, AgentTells
<1>7. EffectTells(job, eff, ag)'
    BY <1>0, <1>1 DEF Inv, PhaseTurn, TurnOf, Jobs, EffectTells
<1>8. WorkerTells(job, wk, ag)'
    BY <1>0, <1>1 DEF Inv, PhaseTurn, TurnOf, Jobs, Workers, WorkerTells
<1>9. QuestionTells(job, q, wk, hist)'
    BY <1>0, <1>1 DEF Inv, PhaseTurn, TurnOf, Jobs, Workers, QuestionTells
<1>10. PrefsTell(prefs)' /\ LedgerHonest'
    BY DEF Inv, PhaseTurn, LedgerHonest
<1> QED
    BY <1>2, <1>3, <1>4, <1>5, <1>6, <1>7, <1>8, <1>9, <1>10, Typed, InvNext DEF PhaseTurn, TurnOf

\* A prompt is planned.
LEMMA PlanPromptKeeps == ASSUME Inv, PlanPrompt PROVE Inv'
<1>0. /\ job \in Jobs /\ wk \in Workers /\ job.turn \in Nat /\ q.dispatch \in Nat
      /\ Off \in Workers /\ Off.pc = "off"
    BY Typed, StartTyped
<1>1. job' \in Jobs
    BY ZenonT(30), <1>0, Typed DEF PlanPrompt, InTurn, Settled, Jobs, Prompts
<1>2. wk' \in Workers
    BY <1>0, Typed DEF PlanPrompt, InTurn, Settled, Workers, WorkerPcs
<1>3. PhaseTells(job, hist)'
    BY <1>0 DEF Inv, PlanPrompt, InTurn, Settled, Jobs, PhaseTells, Cleared
<1>4. ApprovalTells(job, hist)'
    BY <1>0 DEF Inv, PlanPrompt, InTurn, Settled, Jobs, ApprovalTells
<1>5. AgentTells(job, ag, hist)'
    BY <1>0 DEF Inv, PlanPrompt, InTurn, Settled, Jobs, AgentTells
<1>6. EffectTells(job, eff, ag)'
    BY <1>0 DEF Inv, PlanPrompt, InTurn, Settled, Jobs, EffectTells
<1>7. WorkerTells(job, wk, ag)'
    BY <1>0 DEF Inv, PlanPrompt, InTurn, Settled, Jobs, Workers, WorkerTells
<1>8. QuestionTells(job, q, wk, hist)'
    BY <1>0 DEF Inv, PlanPrompt, InTurn, Settled, Jobs, Workers, QuestionTells
<1>9. PrefsTell(prefs)' /\ LedgerHonest'
    BY DEF Inv, PlanPrompt, LedgerHonest
<1> QED
    BY <1>1, <1>2, <1>3, <1>4, <1>5, <1>6, <1>7, <1>8, <1>9, Typed, InvNext DEF PlanPrompt, InTurn, Settled

\* A turn begins with a token of its own, or with the one its clarification was dispatched with.
LEMMA TurnBegins == ASSUME Inv, BeginTurn,
    ~(job.cont /\ ~Redispatched /\ ~(q.state = "answered" /\ q.token = job.token)) PROVE Inv'
<1>0. /\ job \in Jobs /\ wk \in Workers /\ job.turn \in Nat /\ q.dispatch \in Nat
      /\ Off \in Workers /\ Off.pc = "off"
    BY Typed, StartTyped
<1>1. PICK turn \in Nat, token \in Nat :
        /\ turn >= job.turn /\ token <= turn
        /\ job' = [job EXCEPT !.turn = turn, !.token = token, !.turnPhase = job.phase]
        /\ \/ q' = q /\ q.state # "answered"
           \/ q' = [q EXCEPT !.state = "dispatching", !.dispatch = token] /\ q.state = "answered" /\ job.cont
           \/ q' = [q EXCEPT !.state = "resolved"] /\ q.state = "answered"
    <2>1. q.dispatch <= job.turn
        BY DEF Inv, QuestionTells
    <2>2. CASE Redispatched
        <3>1. /\ job' = [job EXCEPT !.turn = job.turn, !.token = q.dispatch, !.turnPhase = job.phase]
              /\ q' = q
            BY <2>2 DEF BeginTurn, Redispatched
        <3>2. job.turn >= job.turn /\ q.state # "answered"
            BY <1>0, <2>2 DEF Redispatched
        <3> QED
            BY <1>0, <2>1, <3>1, <3>2
    <2>3. CASE ~Redispatched
        <3>1. /\ job' = [job EXCEPT !.turn = job.turn + 1, !.token = job.turn + 1, !.turnPhase = job.phase]
              /\ q' = IF q.state # "answered" THEN q
                      ELSE IF job.cont
                      THEN [q EXCEPT !.state = "dispatching", !.dispatch = job.turn + 1]
                      ELSE [q EXCEPT !.state = "resolved"]
            BY <2>3 DEF BeginTurn
        <3>2. PICK n \in Nat : n = job.turn + 1
            BY <1>0
        <3>3. n >= job.turn /\ n <= n
            BY <1>0, <3>2
        <3> QED
            BY <3>1, <3>2, <3>3
    <2> QED
        BY <2>2, <2>3
<1>2. wk' = [wk EXCEPT !.pc = "ready"] /\ wk.pc = "start" /\ job.status \in Working
      /\ UNCHANGED <<eff, ag, prefs, hist, spent>>
    BY DEF BeginTurn
<1>3. job'.status = job.status /\ job'.turn = turn /\ q.state \notin {"pending", "cancelled"}
    BY <1>0, <1>1, <1>2 DEF Inv, QuestionTells, Jobs
<1>4. /\ q'.owner = q.owner /\ q'.dispatch \in {q.dispatch, token}
      /\ q'.state \in {"none", "dispatching", "resolved"}
      /\ q'.state = "dispatching" => q.state = "dispatching" \/ (job.cont /\ q.state = "answered")
    <2>1. q \in VoiceQuestions
        BY Typed
    <2>2. CASE q' = q /\ q.state # "answered"
        BY <1>3, <2>1, <2>2 DEF VoiceQuestions, QuestionStates
    <2>3. CASE q' = [q EXCEPT !.state = "dispatching", !.dispatch = token] /\ q.state = "answered" /\ job.cont
        BY <2>1, <2>3 DEF VoiceQuestions
    <2>4. CASE q' = [q EXCEPT !.state = "resolved"] /\ q.state = "answered"
        BY <2>1, <2>4 DEF VoiceQuestions
    <2> QED
        BY <1>1, <2>2, <2>3, <2>4
<1>5. job' \in Jobs
    BY <1>0, <1>1, <1>2, Typed DEF Jobs
<1>6. q' \in VoiceQuestions
    BY <1>0, <1>1, <1>2, Typed DEF VoiceQuestions, QuestionStates, Owners
<1>7. wk' \in Workers
    BY <1>0, <1>1, <1>2, Typed DEF Workers, WorkerPcs
<1>8. PhaseTells(job, hist)'
    BY <1>0, <1>1, <1>2 DEF Inv, Jobs, PhaseTells, Cleared
<1>9. ApprovalTells(job, hist)'
    BY <1>0, <1>1, <1>2 DEF Inv, Jobs, ApprovalTells
<1>10. AgentTells(job, ag, hist)'
    BY <1>0, <1>1, <1>2 DEF Inv, Jobs, AgentTells
<1>11. EffectTells(job, eff, ag)'
    BY <1>0, <1>1, <1>2 DEF Inv, Jobs, EffectTells
<1>12. WorkerTells(job, wk, ag)'
    BY <1>0, <1>1, <1>2 DEF Inv, Jobs, Workers, WorkerTells
<1>13. QuestionTells(job, q, wk, hist)'
    BY <1>0, <1>1, <1>2, <1>3, <1>4 DEF Inv, QuestionTells
<1>14. PrefsTell(prefs)' /\ LedgerHonest'
    BY DEF Inv, BeginTurn, LedgerHonest
<1> QED
    BY <1>5, <1>6, <1>7, <1>8, <1>9, <1>10, <1>11, <1>12, <1>13, <1>14, Typed, InvNext DEF BeginTurn

\* A turn begins, or its clarification is not the one that was answered and the job fails.
LEMMA BeginTurnKeeps == ASSUME Inv, BeginTurn PROVE Inv'
    BY TurnBegins, RaiseKeeps DEF BeginTurn

\* The prompt is admitted to the outbox.
LEMMA PromptAdmitted == ASSUME Inv, Admit, Key \notin adm PROVE Inv'
<1>0. /\ job \in Jobs /\ wk \in Workers /\ job.turn \in Nat /\ q.dispatch \in Nat
      /\ Off \in Workers /\ Off.pc = "off"
    BY Typed, StartTyped
<1>1. job' \in Jobs
    BY <1>0, Typed DEF Admit, InTurn, Settled, NoEffect, Jobs, Prompts
<1>2. wk' \in Workers
    BY <1>0, Typed DEF Admit, InTurn, Settled, NoEffect, Workers, WorkerPcs
<1>3. eff' \in Effects
    BY <1>0, Typed DEF Admit, InTurn, Settled, NoEffect, Effects
<1>4. PhaseTells(job, hist)'
    BY <1>0 DEF Inv, Admit, InTurn, Settled, NoEffect, Jobs, PhaseTells, Cleared
<1>5. ApprovalTells(job, hist)'
    BY <1>0 DEF Inv, Admit, InTurn, Settled, NoEffect, Jobs, ApprovalTells
<1>6. AgentTells(job, ag, hist)'
    BY <1>0 DEF Inv, Admit, InTurn, Settled, NoEffect, Jobs, AgentTells
<1>7. EffectTells(job, eff, ag)'
    BY <1>0 DEF Inv, Admit, InTurn, Settled, NoEffect, Jobs, Effects, EffectTells
<1>8. WorkerTells(job, wk, ag)'
    BY ZenonT(30), <1>0 DEF Inv, Admit, InTurn, Settled, NoEffect, Jobs, Workers, WorkerTells
<1>9. QuestionTells(job, q, wk, hist)'
    BY <1>0 DEF Inv, Admit, InTurn, Settled, NoEffect, Jobs, Workers, QuestionTells
<1>10. PrefsTell(prefs)' /\ LedgerHonest'
    BY DEF Inv, Admit, LedgerHonest
<1> QED
    BY <1>1, <1>2, <1>3, <1>4, <1>5, <1>6, <1>7, <1>8, <1>9, <1>10, Typed, InvNext DEF Admit, InTurn,
       Settled, NoEffect

\* A prompt is admitted once.
LEMMA AdmitKeeps == ASSUME Inv, Admit PROVE Inv'
    BY PromptAdmitted, RaiseKeeps DEF Admit, InTurn

\* The agent is given the prompt, and an implementer its plan.
LEMMA DeliverKeeps == ASSUME Inv, NEW by \in {"worker", "scan"}, Deliver(by),
    UNCHANGED <<job, q, wk, adm, prefs, spent>> PROVE Inv'
<1>0. /\ job \in Jobs /\ wk \in Workers /\ job.turn \in Nat /\ q.dispatch \in Nat
      /\ Off \in Workers /\ Off.pc = "off"
    BY Typed, StartTyped
<1>1. /\ hist.sent + 1 \in Nat /\ job.token \in Nat /\ job.plan.n \in Nat /\ ag.plan \in Nat
      /\ job.phase \in Phases
    BY Typed DEF Jobs, Agents, Histories, Plans
<1>2. job.prompt = "submitting" /\ job.status \in Working
    BY DEF Inv, EffectTells, Deliver
<1>3. /\ ag'.phase = job.phase /\ ag'.plan = (IF job.full THEN job.plan.n ELSE ag.plan)
      /\ job.phase = "implementing" => job.plan.n \in hist'.built
    BY <1>1, Typed DEF Deliver, Given, Histories
<1>4. /\ job.phase \notin {"none", "finished"} /\ job.role = RoleOf(job.phase) /\ job.turnPhase = job.phase
      /\ ~job.full => job.role = RoleOf(ag.phase)
    BY <1>1, <1>2 DEF Inv, PhaseTells, AgentTells, Phases
<1>5. ~job.full /\ job.phase \in {"reviewing", "implementing"} => ag.plan = job.plan.n
    BY <1>2, <1>4 DEF Inv, AgentTells, RoleOf
<1>6. job' = job
    OBVIOUS
<1>7. eff' \in Effects
    BY <1>0, <1>1, <1>2, StartTyped, Typed DEF Deliver, Given, Effects
<1>8. ag' \in Agents
    BY <1>0, <1>1, <1>2, StartTyped, Typed DEF Deliver, Given, Agents
<1>9. hist' \in Histories
    BY <1>0, <1>1, <1>2, StartTyped, Typed DEF Deliver, Given, Histories
<1>10. PhaseTells(job, hist)'
    BY <1>0, <1>1, <1>2, StartTyped DEF Inv, Deliver, Given, Histories, PhaseTells, Cleared
<1>11. ApprovalTells(job, hist)'
    BY <1>0, <1>1, <1>2, StartTyped DEF Inv, Deliver, Given, Histories, ApprovalTells
<1>12. AgentTells(job, ag, hist)'
    BY <1>2, <1>3, <1>4, <1>5, <1>6 DEF Inv, AgentTells
<1>13. EffectTells(job, eff, ag)'
    BY <1>0, <1>1, <1>2, StartTyped DEF Inv, Deliver, Given, Effects, Agents, EffectTells
<1>14. WorkerTells(job, wk, ag)'
    BY <1>0, <1>1, <1>2, StartTyped DEF Inv, Deliver, Given, Agents, WorkerTells
<1>15. QuestionTells(job, q, wk, hist)'
    BY <1>0, <1>1, <1>2, StartTyped DEF Inv, Deliver, Given, Histories, QuestionTells
<1>16. PrefsTell(prefs)' /\ LedgerHonest'
    BY <1>0, <1>1, <1>2, StartTyped, Typed DEF Inv, Deliver, Given, LedgerHonest, Histories
<1> QED
    BY <1>7, <1>8, <1>9, <1>10, <1>11, <1>12, <1>13, <1>14, <1>15, <1>16, Typed, InvNext DEF Deliver, Given

\* A scan took the row: the job fails.
LEMMA MissedKeeps == ASSUME Inv, Missed PROVE Inv'
<1>0. /\ job \in Jobs /\ wk \in Workers /\ job.turn \in Nat /\ q.dispatch \in Nat
      /\ Off \in Workers /\ Off.pc = "off"
    BY Typed, StartTyped
<1>1. job' \in Jobs
    BY <1>0, Typed DEF Missed, Jobs, Statuses
<1>2. wk' \in Workers
    BY <1>0, Typed DEF Missed, Workers, WorkerPcs
<1>3. PhaseTells(job, hist)'
    BY <1>0 DEF Inv, Missed, Jobs, PhaseTells, Cleared
<1>4. ApprovalTells(job, hist)'
    BY <1>0 DEF Inv, Missed, Jobs, ApprovalTells
<1>5. AgentTells(job, ag, hist)'
    BY <1>0 DEF Inv, Missed, Jobs, AgentTells
<1>6. EffectTells(job, eff, ag)'
    BY <1>0 DEF Inv, Missed, Jobs, EffectTells
<1>7. WorkerTells(job, wk, ag)'
    BY <1>0 DEF Inv, Missed, Jobs, Workers, WorkerTells
<1>8. QuestionTells(job, q, wk, hist)'
    BY <1>0 DEF Inv, Missed, Jobs, Workers, QuestionTells
<1>9. PrefsTell(prefs)' /\ LedgerHonest'
    BY DEF Inv, Missed, LedgerHonest
<1> QED
    BY <1>1, <1>2, <1>3, <1>4, <1>5, <1>6, <1>7, <1>8, <1>9, Typed, InvNext DEF Missed

\* The worker consumes the result of its prompt.
LEMMA ConsumeKeeps == ASSUME Inv, Consume PROVE Inv'
<1>0. /\ job \in Jobs /\ wk \in Workers /\ job.turn \in Nat /\ q.dispatch \in Nat
      /\ Off \in Workers /\ Off.pc = "off"
    BY Typed, StartTyped
<1>1. eff' = NoEffect /\ NoEffect \in Effects /\ NoEffect.st = "none"
    BY StartTyped DEF Consume, NoEffect
<1>2. \/ /\ job' = [job EXCEPT !.prompt = "submitted", !.seen = TRUE]
         /\ wk' = [Off EXCEPT !.pc = IF Uncounted THEN "count" ELSE "observe",
                              !.got = TRUE, !.out = ag.out, !.settled = eff.settled]
      \/ job' = [[job EXCEPT !.prompt = "ambiguous"] EXCEPT !.status = "failed"] /\ wk' = Off
    <2>1. CASE eff.st = "confirmed"
        BY <2>1 DEF Consume, Reduced
    <2>2. CASE eff.st # "confirmed"
        BY <2>2 DEF Consume, Reduced
    <2> QED
        BY <2>1, <2>2
<1>3. /\ wk.pc = "sent" /\ job.status \in Working /\ eff.st \in {"confirmed", "unknown"}
      /\ UNCHANGED <<q, ag, prefs, hist, spent>>
    BY DEF Consume
<1>4. ag.phase = job.phase /\ job.prompt = "submitting"
    BY <1>3 DEF Inv, EffectTells
<1>5. /\ Off.out = NoOut /\ job.phase # "none" /\ (wk'.pc = "count" => job.ap.source = "explicit")
      /\ wk'.pc \in {"off", "count", "observe"}
      /\ wk'.pc # "off" => job'.prompt = "submitted" /\ job'.status = job.status
    BY <1>0, <1>2, StartTyped DEF Workers, Uncounted, Jobs, Phases
<1>6. /\ SameWork(job, job') /\ job'.ap = job.ap /\ SameTurn(job, job') /\ job'.full = job.full
      /\ job'.cont = job.cont /\ (job'.pending <=> job.pending)
      /\ job'.reconcile = job.reconcile /\ (job'.seen => job.seen \/ job'.prompt = "submitted")
      /\ job'.prompt \in {"submitted", "ambiguous"} /\ job'.status \in {job.status, "failed"}
    BY <1>0, <1>2 DEF Jobs, SameWork, SameTurn
<1>7. job' \in Jobs
    <2>1. \A p \in Prompts : [job EXCEPT !.prompt = p] \in Jobs
        BY <1>0 DEF Jobs
    <2>2. \A k \in Jobs : [k EXCEPT !.status = "failed"] \in Jobs
        BY DEF Jobs, Statuses
    <2>3. [job EXCEPT !.prompt = "submitted", !.seen = TRUE] \in Jobs
        BY <1>0 DEF Jobs, Prompts
    <2> QED
        BY <1>2, <2>1, <2>2, <2>3 DEF Prompts
<1>8. wk' \in Workers
    BY <1>0, <1>2, Typed DEF Workers, WorkerPcs, Agents, Effects
<1>9. eff' \in Effects
    BY <1>0, <1>1, <1>3, <1>4, <1>5, <1>6, Typed DEF SameWork, SameTurn, Effects
<1>10. PhaseTells(job, hist)'
    BY <1>0, <1>1, <1>3, <1>4, <1>5, <1>6 DEF Inv, SameWork, SameTurn, Jobs, PhaseTells, Cleared
<1>11. ApprovalTells(job, hist)'
    BY <1>0, <1>1, <1>3, <1>4, <1>5, <1>6 DEF Inv, SameWork, SameTurn, Jobs, ApprovalTells
<1>12. AgentTells(job, ag, hist)'
    BY <1>0, <1>1, <1>3, <1>4, <1>5, <1>6 DEF Inv, SameWork, SameTurn, Jobs, AgentTells
<1>13. EffectTells(job, eff, ag)'
    BY <1>0, <1>1, <1>3, <1>4, <1>5, <1>6 DEF Inv, SameWork, SameTurn, Jobs, Effects, EffectTells
<1>14. WorkerTells(job, wk, ag)'
    BY <1>3, <1>5, <1>6 DEF Inv, WorkerTells
<1>15. QuestionTells(job, q, wk, hist)'
    BY <1>0, <1>1, <1>3, <1>4, <1>5, <1>6 DEF Inv, SameWork, SameTurn, Jobs, Workers, QuestionTells
<1>16. PrefsTell(prefs)' /\ LedgerHonest'
    BY DEF Inv, Consume, LedgerHonest
<1> QED
    BY <1>7, <1>8, <1>9, <1>10, <1>11, <1>12, <1>13, <1>14, <1>15, <1>16, Typed, InvNext DEF Consume, Reduced

\* A worker waits for the output of its own turn.
LEMMA WaitKeeps == ASSUME Inv, Wait PROVE Inv'
<1>0. /\ job \in Jobs /\ wk \in Workers /\ job.turn \in Nat /\ q.dispatch \in Nat
      /\ Off \in Workers /\ Off.pc = "off"
    BY Typed, StartTyped
<1>1. wk' \in Workers
    BY <1>0, Typed DEF Wait, InTurn, Uncounted, Workers, WorkerPcs
<1>2. WorkerTells(job, wk, ag)'
    BY <1>0 DEF Inv, Wait, InTurn, Uncounted, Workers, WorkerTells
<1>3. QuestionTells(job, q, wk, hist)'
    BY <1>0 DEF Inv, Wait, InTurn, Uncounted, Workers, QuestionTells
<1>4. /\ PhaseTells(job, hist)' /\ ApprovalTells(job, hist)' /\ AgentTells(job, ag, hist)'
      /\ EffectTells(job, eff, ag)' /\ PrefsTell(prefs)' /\ LedgerHonest'
    BY DEF Inv, Wait, LedgerHonest
<1> QED
    BY <1>1, <1>2, <1>3, <1>4, Typed, InvNext DEF Wait, InTurn, Uncounted

\* The approval is recorded, or the preferences cannot be written.
LEMMA CountFileKeeps == ASSUME Inv, CountFile PROVE Inv'
<1>0. /\ job \in Jobs /\ wk \in Workers /\ job.turn \in Nat /\ q.dispatch \in Nat
      /\ Off \in Workers /\ Off.pc = "off"
    BY Typed, StartTyped
<1>1. job.ap.gate \in Nat \X Nat /\ job.ap.gate # NoGate
    BY <1>0 DEF Inv, CountFile, Jobs, Approvals, ApprovalTells, WorkerTells
<1>2. job.ap.gate[1] \in hist.yes \cap hist.built
    BY <1>0 DEF Inv, CountFile, WorkerTells, ApprovalTells, AgentTells, PhaseTells
<1>3. prefs' = prefs \/ prefs' = Recorded(prefs, job.ap.gate)
    BY DEF CountFile
<1>4. wk' \in Workers
    BY <1>0, Typed DEF CountFile, AfterCount, Workers, WorkerPcs
<1>5. prefs' \in Preferences
    BY <1>1, <1>3, Typed, RecordedKeeps DEF Inv
<1>6. spent' \in Spendings
    BY <1>0, Typed DEF CountFile, AfterCount, Spendings
<1>7. WorkerTells(job, wk, ag)'
    BY <1>0 DEF Inv, CountFile, AfterCount, Workers, WorkerTells
<1>8. QuestionTells(job, q, wk, hist)'
    BY <1>0 DEF Inv, CountFile, AfterCount, Workers, QuestionTells
<1>9. PrefsTell(prefs)' /\ LedgerHonest'
    BY <1>1, <1>2, <1>3, Typed, RecordedKeeps DEF Inv, LedgerHonest, CountFile
<1>10. /\ PhaseTells(job, hist)' /\ ApprovalTells(job, hist)' /\ AgentTells(job, ag, hist)'
       /\ EffectTells(job, eff, ag)'
    BY DEF Inv, CountFile, LedgerHonest
<1> QED
    BY <1>4, <1>5, <1>6, <1>7, <1>8, <1>9, <1>10, Typed, InvNext DEF CountFile, AfterCount

\* The job knows its approval is counted.
LEMMA CountJobKeeps == ASSUME Inv, CountJob PROVE Inv'
<1>0. /\ job \in Jobs /\ wk \in Workers /\ job.turn \in Nat /\ q.dispatch \in Nat
      /\ Off \in Workers /\ Off.pc = "off"
    BY Typed, StartTyped
<1>1. /\ job'.ap = [job.ap EXCEPT !.counted = TRUE] /\ job.ap \in Approvals
    BY <1>0 DEF CountJob, Jobs
<1>2. /\ job'.ap.state = job.ap.state /\ job'.ap.gate = job.ap.gate /\ job'.ap.source = job.ap.source
    BY <1>1 DEF Approvals
<1>3. job' \in Jobs
    BY <1>0, <1>2, Typed DEF CountJob, AfterCount, Jobs, Approvals
<1>4. wk' \in Workers
    BY <1>0, <1>2, Typed DEF CountJob, AfterCount, Workers, WorkerPcs
<1>5. PhaseTells(job, hist)'
    BY <1>0, <1>2 DEF Inv, CountJob, AfterCount, Jobs, PhaseTells, Cleared
<1>6. ApprovalTells(job, hist)'
    BY <1>0, <1>2 DEF Inv, CountJob, AfterCount, Jobs, ApprovalTells
<1>7. AgentTells(job, ag, hist)'
    BY <1>0, <1>2 DEF Inv, CountJob, AfterCount, Jobs, AgentTells
<1>8. EffectTells(job, eff, ag)'
    BY <1>0, <1>2 DEF Inv, CountJob, AfterCount, Jobs, EffectTells
<1>9. WorkerTells(job, wk, ag)'
    BY <1>0, <1>2 DEF Inv, CountJob, AfterCount, Jobs, Workers, WorkerTells
<1>10. QuestionTells(job, q, wk, hist)'
    BY <1>0, <1>2 DEF Inv, CountJob, AfterCount, Jobs, Workers, QuestionTells
<1>11. PrefsTell(prefs)' /\ LedgerHonest'
    BY DEF Inv, CountJob, LedgerHonest
<1> QED
    BY <1>3, <1>4, <1>5, <1>6, <1>7, <1>8, <1>9, <1>10, <1>11, Typed, InvNext DEF CountJob, AfterCount

\* The worker sees the output of its turn.
LEMMA WatchKeeps == ASSUME Inv, Watch PROVE Inv'
<1>0. /\ job \in Jobs /\ wk \in Workers /\ job.turn \in Nat /\ q.dispatch \in Nat
      /\ Off \in Workers /\ Off.pc = "off"
    BY Typed, StartTyped
<1>1. wk' \in Workers
    BY <1>0, StartTyped, Typed DEF Watch, Workers, WorkerPcs, Agents
<1>2. WorkerTells(job, wk, ag)'
    BY <1>0 DEF Inv, Watch, Workers, WorkerTells
<1>3. QuestionTells(job, q, wk, hist)'
    BY <1>0 DEF Inv, Watch, Workers, QuestionTells
<1>4. /\ PhaseTells(job, hist)' /\ ApprovalTells(job, hist)' /\ AgentTells(job, ag, hist)'
      /\ EffectTells(job, eff, ag)' /\ PrefsTell(prefs)' /\ LedgerHonest'
    BY DEF Inv, Watch, LedgerHonest
<1> QED
    BY <1>1, <1>2, <1>3, <1>4, Typed, InvNext DEF Watch

\* The watch fails, and the job is to be reconciled.
LEMMA WatchFailsKeeps == ASSUME Inv, WatchFails PROVE Inv'
<1>0. /\ job \in Jobs /\ wk \in Workers /\ job.turn \in Nat /\ q.dispatch \in Nat
      /\ Off \in Workers /\ Off.pc = "off"
    BY Typed, StartTyped
<1>1. eff.st = "none"
    BY <1>0 DEF Inv, WatchFails, EffectTells, WorkerTells
<1>2. job' \in Jobs
    BY <1>0, <1>1, Typed DEF WatchFails, Jobs, Statuses
<1>3. wk' \in Workers
    BY <1>0, <1>1, Typed DEF WatchFails, Workers, WorkerPcs
<1>4. spent' \in Spendings
    BY <1>0, <1>1, Typed DEF WatchFails, Spendings
<1>5. PhaseTells(job, hist)'
    BY <1>0, <1>1 DEF Inv, WatchFails, Jobs, PhaseTells, Cleared
<1>6. ApprovalTells(job, hist)'
    BY <1>0, <1>1 DEF Inv, WatchFails, Jobs, ApprovalTells
<1>7. AgentTells(job, ag, hist)'
    BY <1>0, <1>1 DEF Inv, WatchFails, Jobs, AgentTells
<1>8. EffectTells(job, eff, ag)'
    BY <1>0, <1>1 DEF Inv, WatchFails, Jobs, EffectTells
<1>9. WorkerTells(job, wk, ag)'
    BY <1>0, <1>1 DEF Inv, WatchFails, Jobs, Workers, WorkerTells
<1>10. QuestionTells(job, q, wk, hist)'
    BY <1>0, <1>1 DEF Inv, WatchFails, Jobs, Workers, QuestionTells
<1>11. PrefsTell(prefs)' /\ LedgerHonest'
    BY DEF Inv, WatchFails, LedgerHonest
<1> QED
    BY <1>2, <1>3, <1>4, <1>5, <1>6, <1>7, <1>8, <1>9, <1>10, <1>11, Typed, InvNext DEF WatchFails

\* What holds once the worker knows its prompt to be submitted.
LEMMA Submitted ==
    ASSUME Inv, wk.pc \in {"count", "mark", "watch", "observe", "advance", "ask"}
    PROVE  /\ job.prompt = "submitted" /\ job.status \in Working /\ eff.st = "none"
           /\ ag.phase = job.phase /\ job.phase \notin {"none", "finished"} /\ ~job.pending
           /\ job.role = RoleOf(job.phase) /\ job.turnPhase = job.phase
           /\ q.state \in {"none", "dispatching", "resolved"}
<1>1. job.prompt = "submitted" /\ job.status \in Working
    BY DEF Inv, WorkerTells
<1>2. eff.st = "none"
    BY <1>1 DEF Inv, EffectTells
<1>3. job.phase \in Phases /\ q.state \in QuestionStates
    BY Typed DEF Jobs, VoiceQuestions
<1>4. /\ ag.phase = job.phase /\ job.phase \notin {"none", "finished"} /\ ~job.pending
      /\ job.role = RoleOf(job.phase) /\ job.turnPhase = job.phase
    BY <1>1, <1>3 DEF Inv, AgentTells, PhaseTells, Phases
<1> QED
    BY <1>1, <1>2, <1>3, <1>4 DEF Inv, QuestionTells, QuestionStates

\* A question is asked: the worker ends, and what the user is shown is remembered.
LEMMA AskKeeps ==
    ASSUME Inv, NEW j \in Jobs, NEW owner \in Owners, NEW routine \in BOOLEAN, NEW n \in Nat,
           AskFor(j, owner, routine, n), UNCHANGED <<eff, ag, prefs>>, spent' \in Spendings,
           eff.st = "none", SameTurn(job, j),
           PhaseTells(job', hist), ApprovalTells(job', hist), AgentTells(job', ag, hist),
           j.phase = "finished" => owner = "auto_offer",
           owner \in {"review", "exhausted", "plan_approval"} =>
               /\ j.phase = "reviewing" /\ j.role = "reviewer" /\ ~routine /\ n = j.plan.n
               /\ j.review.of = j.plan.n /\ j.review.round = j.round /\ j.ap.state # "none",
           owner = "exhausted" => j.tier = "high" /\ j.review.decision = "revise" /\ j.round >= MaxRound,
           owner = "review" => j.src = "none"
    PROVE  Inv'
<1>0. /\ job \in Jobs /\ hist \in Histories /\ Off \in Workers /\ Off.pc = "off" /\ job.turn \in Nat
      /\ job.token \in Nat
    BY Typed, StartTyped
<1>1. /\ job' = [j EXCEPT !.status = "awaiting", !.reconcile = FALSE, !.prompt = "none"]
      /\ q' = [id |-> Len(hist.shown) + 1, owner |-> owner, token |-> job.token,
               state |-> "pending", dispatch |-> 0, routine |-> routine]
      /\ hist' = [hist EXCEPT !.shown = Append(@, n)] /\ wk' = Off
    BY DEF AskFor
<1>2. job' \in Jobs
    BY <1>1 DEF Jobs, Statuses, Prompts
<1>3. /\ job'.status = "awaiting" /\ job'.phase = j.phase /\ job'.role = j.role /\ job'.plan = j.plan
      /\ job'.review = j.review /\ job'.round = j.round /\ job'.tier = j.tier /\ job'.src = j.src
      /\ job'.ap = j.ap /\ job'.turn = job.turn /\ ~job'.reconcile
    BY <1>1 DEF Jobs, SameTurn
<1>4. hist.shown \in Seq(Nat)
    BY <1>0 DEF Histories
<1>5. /\ Append(hist.shown, n) \in Seq(Nat) /\ Len(hist.shown) \in Nat
      /\ Len(Append(hist.shown, n)) = Len(hist.shown) + 1
      /\ Append(hist.shown, n)[Len(hist.shown) + 1] = n
    BY <1>4
<1>6. /\ hist' \in Histories /\ hist'.yes = hist.yes /\ hist'.auto = hist.auto
      /\ hist'.built = hist.built /\ hist'.shown = Append(hist.shown, n)
    BY <1>0, <1>1, <1>5 DEF Histories
<1>7. q' \in VoiceQuestions
    BY <1>0, <1>1, <1>5 DEF VoiceQuestions, QuestionStates
<1>8. PhaseTells(job, hist)' /\ ApprovalTells(job, hist)' /\ AgentTells(job, ag, hist)'
    BY <1>6 DEF PhaseTells, ApprovalTells, AgentTells, Cleared
<1>9. EffectTells(job, eff, ag)' /\ WorkerTells(job, wk, ag)'
    BY <1>0, <1>1 DEF EffectTells, WorkerTells
<1>10. QuestionTells(job, q, wk, hist)'
    BY <1>0, <1>1, <1>3, <1>5, <1>6 DEF QuestionTells
<1>11. PrefsTell(prefs)' /\ LedgerHonest'
    BY <1>6 DEF Inv, LedgerHonest
<1> QED
    BY <1>0, <1>1, <1>2, <1>6, <1>7, <1>8, <1>9, <1>10, <1>11, Typed, InvNext

\* A question that leaves the job's work as it is.
LEMMA AsksKeeps ==
    ASSUME Inv, wk.pc \in {"advance", "ask"}, NEW owner \in Owners, NEW routine \in BOOLEAN, NEW n \in Nat,
           AskFor(job, owner, routine, n), UNCHANGED <<eff, ag, prefs, spent>>,
           owner \in {"review", "exhausted", "plan_approval"} =>
               /\ job.phase = "reviewing" /\ ~routine /\ n = job.plan.n
               /\ job.review.of = job.plan.n /\ job.review.round = job.round,
           owner = "exhausted" =>
               job.tier = "high" /\ job.review.decision = "revise" /\ job.round >= MaxRound,
           owner = "review" => job.src = "none"
    PROVE  Inv'
<1>0. job \in Jobs
    BY Typed
<1>1. job' = [job EXCEPT !.status = "awaiting", !.reconcile = FALSE, !.prompt = "none"]
    BY DEF AskFor
<1>2. PhaseTells(job', hist) /\ ApprovalTells(job', hist)
    BY <1>0, <1>1, Submitted DEF Inv, Jobs, PhaseTells, Cleared, ApprovalTells
<1>3. AgentTells(job', ag, hist)
    BY <1>0, <1>1 DEF Inv, Jobs, AgentTells
<1>4. owner \in {"review", "exhausted", "plan_approval"} => job.role = "reviewer" /\ job.ap.state # "none"
    BY Submitted DEF RoleOf, Inv, PhaseTells
<1> QED
    BY <1>0, <1>2, <1>3, <1>4, Submitted, AskKeeps, Typed DEF SameTurn

\* The agent asks.
LEMMA AgentAsksKeeps == ASSUME Inv, AgentAsks PROVE Inv'
<1>1. (wk.out.asks = "routine") \in BOOLEAN /\ "workflow" \in Owners /\ 0 \in Nat
    BY DEF Owners
<1> QED
    BY <1>1, AsksKeeps DEF AgentAsks

\* The review that needs the user is asked about.
LEMMA AskReviewKeeps == ASSUME Inv, AskReview PROVE Inv'
<1>1. /\ job.phase = "reviewing" /\ job.review.of = job.plan.n /\ job.review.round = job.round
      /\ job.review.decision = "revise" /\ job.src = "none" /\ job.tier \in {"medium", "high"}
      /\ job.tier = "medium" \/ job.round >= MaxRound
    BY DEF Inv, AskReview, WorkerTells, PhaseTells
<1>2. job.plan.n \in Nat /\ "review" \in Owners /\ "exhausted" \in Owners /\ FALSE \in BOOLEAN
    BY Typed DEF Jobs, Plans, Owners
<1>3. CASE job.tier = "medium"
    BY <1>1, <1>2, <1>3, AsksKeeps DEF AskReview
<1>4. CASE job.tier # "medium"
    BY <1>1, <1>2, <1>4, AsksKeeps DEF AskReview
<1> QED
    BY <1>3, <1>4

\* A job whose worker goes on to the next turn: the parts of the invariant that follow from what
\* the prompt that was answered says, and from the fields that stay.
LEMMA GoesOn ==
    ASSUME Inv, wk.pc \in {"observe", "advance"}, job' \in Jobs, NEW pc \in WorkerPcs, Goes(pc),
           UNCHANGED <<q, eff, ag, prefs, spent>>, hist' \in Histories,
           hist.yes \subseteq hist'.yes, hist'.built = hist.built, hist'.shown = hist.shown,
           SameTurn(job, job'), job'.status = job.status, job'.role = job.role, job'.seen = job.seen,
           job'.prompt \in {"none", job.prompt}, pc \notin {"off", "start"},
           job'.prompt = job.prompt => job'.phase = job.phase /\ job'.plan = job.plan,
           job'.phase \in {"reviewing", "implementing"} /\ job'.phase = job.phase =>
               job'.plan = job.plan,
           PhaseTells(job', hist'), ApprovalTells(job', hist'), WorkerTells(job', wk', ag)
    PROVE  Inv'
<1>0. wk \in Workers /\ wk' \in Workers /\ wk'.pc = pc
    BY Typed, WorkerGoes
<1>1. /\ job.prompt = "submitted" /\ job.status \in Working /\ eff.st = "none"
      /\ ag.phase = job.phase /\ job.phase \notin {"none", "finished"} /\ ~job.pending
      /\ job.role = RoleOf(job.phase) /\ job.turnPhase = job.phase
      /\ q.state \in {"none", "dispatching", "resolved"}
    BY Submitted
<1>2. AgentTells(job, ag, hist)'
    BY <1>1 DEF Inv, AgentTells, SameTurn
<1>3. EffectTells(job, eff, ag)'
    BY <1>1 DEF EffectTells
<1>4. QuestionTells(job, q, wk, hist)'
    BY <1>0, <1>1 DEF Inv, QuestionTells, SameTurn
<1>5. PrefsTell(prefs)' /\ LedgerHonest'
    BY DEF Inv, LedgerHonest
<1> QED
    BY <1>0, <1>2, <1>3, <1>4, <1>5, Typed, InvNext

\* The output of a planner is classified.
LEMMA ClassifyKeeps == ASSUME Inv, Classify PROVE Inv'
<1>0. /\ job \in Jobs /\ wk \in Workers /\ hist \in Histories /\ wk.pc = "advance"
      /\ job.phase = "classifying" /\ "turn" \in WorkerPcs
    BY Typed DEF Classify, Advances, WorkerPcs
<1>1. PICK t \in Tiers : t = ClassifiedTier(wk.out)
    BY <1>0 DEF Workers, Outs, ClassifiedTier, Classify, Advances, Tiers
<1>2. PICK r \in Reviews : r = [job.review EXCEPT !.decision = "none"]
    BY <1>0 DEF Jobs, Reviews
<1>3. /\ job' = [job EXCEPT !.tier = t, !.phase = IF t = "simple" THEN "implementing" ELSE "planning",
                            !.prompt = "none", !.review = r, !.src = "none"]
      /\ Goes("turn") /\ UNCHANGED <<q, eff, ag, prefs, hist, spent>>
    BY <1>0, <1>1, <1>2 DEF Classify, Jobs
<1>4. job' \in Jobs
    BY ZenonT(30), <1>0, <1>3 DEF Jobs, Phases, Prompts
<1>5. /\ SameTurn(job, job') /\ job'.status = job.status /\ job'.role = job.role /\ job'.seen = job.seen
      /\ job'.prompt = "none" /\ job'.phase = (IF t = "simple" THEN "implementing" ELSE "planning")
      /\ job'.tier = t /\ job'.plan = job.plan /\ job'.round = job.round /\ job'.ap = job.ap
      /\ job'.src = "none" /\ ~job'.pending
    BY <1>0, <1>3, Submitted DEF Jobs, SameTurn
<1>6. PhaseTells(job', hist')
    BY <1>0, <1>1, <1>3, <1>5 DEF Inv, PhaseTells, Cleared, SameTurn, Tiers, PlanPhases
<1>7. ApprovalTells(job', hist')
    BY <1>0, <1>3, <1>5 DEF Inv, PhaseTells, ApprovalTells
<1>8. WorkerTells(job', wk', ag)
    BY <1>0, <1>3, <1>5, WorkerGoes DEF Inv, WorkerTells
<1> QED
    BY <1>0, <1>3, <1>4, <1>5, <1>6, <1>7, <1>8, Submitted, GoesOn

\* A plan is published and is to be reviewed.
LEMMA PublishPlanKeeps == ASSUME Inv, PublishPlan PROVE Inv'
<1>0. /\ job \in Jobs /\ wk \in Workers /\ hist \in Histories /\ wk.pc = "advance"
      /\ job.phase \in PlanPhases /\ "turn" \in WorkerPcs /\ wk.out.mark = "plan"
    BY Typed DEF PublishPlan, Advances, WorkerPcs
<1>1. /\ PlanArtifact \in Plans /\ NoReview \in Reviews /\ PlanArtifact.n = ag.n
      /\ PlanArtifact.round = job.round
    BY <1>0, Typed, StartTyped DEF PlanArtifact, Plans, Agents, Jobs, Workers, Outs
<1>2. /\ job' = [job EXCEPT !.plan = PlanArtifact, !.review = NoReview, !.src = "none",
                            !.phase = "reviewing", !.prompt = "none"]
      /\ Goes("turn") /\ UNCHANGED <<q, eff, ag, prefs, hist, spent>>
    BY DEF PublishPlan
<1>3. job' \in Jobs
    BY <1>0, <1>1, <1>2 DEF Jobs, Phases, Prompts
<1>4. /\ SameTurn(job, job') /\ job'.status = job.status /\ job'.role = job.role /\ job'.seen = job.seen
      /\ job'.prompt = "none" /\ job'.phase = "reviewing" /\ job'.tier = job.tier
      /\ job'.plan = PlanArtifact /\ job'.round = job.round /\ job'.ap = job.ap
      /\ job'.src = "none" /\ ~job'.pending
    BY <1>0, <1>2, Submitted DEF Jobs, SameTurn
<1>5. job.ap.state = "boundary" /\ job.ap.gate[1] = ag.n
    BY <1>0 DEF Inv, WorkerTells
<1>6. PhaseTells(job', hist')
    BY <1>0, <1>1, <1>2, <1>4, <1>5 DEF Inv, PhaseTells, SameTurn, PlanPhases
<1>7. ApprovalTells(job', hist')
    BY <1>0, <1>2, <1>4 DEF Inv, ApprovalTells, PlanPhases
<1>8. WorkerTells(job', wk', ag)
    BY <1>0, <1>2, <1>4, WorkerGoes DEF Inv, WorkerTells
<1>9. job.prompt = "submitted" /\ job.phase # "reviewing"
    BY <1>0, Submitted DEF PlanPhases
<1> QED
    BY <1>0, <1>2, <1>3, <1>4, <1>6, <1>7, <1>8, <1>9, GoesOn

\* The plan's boundary, or the approval's, is recorded from the output that was seen.
LEMMA ObserveKeeps == ASSUME Inv, Observe PROVE Inv'
<1>0. /\ job \in Jobs /\ wk \in Workers /\ hist \in Histories /\ wk.pc = "observe"
      /\ "advance" \in WorkerPcs /\ UNCHANGED <<q, eff, ag, prefs, hist, spent>>
    BY Typed DEF Observe, WorkerPcs
<1> DEFINE gate == <<ag.n, IF wk.settled THEN 2 ELSE 1>>
<1>1. ASSUME job.phase \in PlanPhases, wk.out.mark = "plan" PROVE Inv'
    <2>1. CASE job.ap.gate \notin {NoGate, gate}
        BY <1>0, <1>1, <2>1, RaiseKeeps DEF Observe
    <2>2. CASE job.ap.gate \in {NoGate, gate}
        <3>1. PICK g \in Nat \X Nat : g = gate /\ g[1] = ag.n /\ g # NoGate
            <4>1. ag.n \in Nat
                BY Typed DEF Agents
            <4>2. gate \in Nat \X Nat /\ gate[1] = ag.n /\ gate[2] # 0
                BY <4>1
            <4> QED
                BY <4>2 DEF NoGate
        <3>2. PICK a \in Approvals : /\ a = [NoApproval EXCEPT !.state = "boundary", !.gate = g]
                                     /\ a.state = "boundary" /\ a.gate = g /\ a.source = "none"
            <4> DEFINE b == [NoApproval EXCEPT !.state = "boundary", !.gate = g]
            <4>1. b \in Approvals /\ b.state = "boundary" /\ b.gate = g /\ b.source = "none"
                BY StartTyped DEF NoApproval, Approvals, ApprovalStates
            <4> QED
                BY <4>1
        <3>3. job' = [job EXCEPT !.ap = a] /\ Goes("advance")
            BY <1>1, <2>2, <3>1, <3>2 DEF Observe
        <3>4. job' \in Jobs
            BY <1>0, <3>3 DEF Jobs
        <3>5. /\ SameTurn(job, job') /\ SameWork(job, job') /\ job'.status = job.status
              /\ job'.seen = job.seen /\ job'.prompt = job.prompt /\ (job'.pending <=> job.pending)
              /\ job'.ap = a
            BY <1>0, <3>3 DEF Jobs, SameTurn, SameWork
        <3>6. PhaseTells(job', hist')
            BY <1>0, <1>1, <3>2, <3>5, Submitted DEF Inv, PhaseTells, Cleared, SameTurn, SameWork, PlanPhases
        <3>7. ApprovalTells(job', hist')
            BY <3>1, <3>2, <3>5 DEF Inv, ApprovalTells
        <3>8. WorkerTells(job', wk', ag)
            <4>1. wk'.pc = "advance" /\ job.status \in Working /\ job.prompt = "submitted"
                BY <1>0, <3>3, WorkerGoes, Submitted
            <4> QED
                BY <3>1, <3>2, <3>5, <4>1 DEF WorkerTells
        <3> QED
            BY <1>0, <3>3, <3>4, <3>5, <3>6, <3>7, <3>8, GoesOn DEF SameWork
    <2> QED
        BY <2>1, <2>2
<1>2. ASSUME ~(job.phase \in PlanPhases /\ wk.out.mark = "plan"),
             job.phase = "implementing", job.ap.state = "approved"
      PROVE  Inv'
    <2>1. PICK a \in Approvals : /\ a = [job.ap EXCEPT !.state = "observed"] /\ a.state = "observed"
                                 /\ a.gate = job.ap.gate /\ a.source = job.ap.source
        <3> DEFINE b == [job.ap EXCEPT !.state = "observed"]
        <3>1. b \in Approvals /\ b.state = "observed" /\ b.gate = job.ap.gate /\ b.source = job.ap.source
            BY <1>0 DEF Jobs, Approvals, ApprovalStates
        <3> QED
            BY <3>1
    <2>2. job' = [job EXCEPT !.ap = a] /\ Goes("advance")
        BY <1>0, <1>2, <2>1 DEF Observe, Jobs
    <2>3. job' \in Jobs
        BY <1>0, <2>2 DEF Jobs
    <2>4. /\ SameTurn(job, job') /\ SameWork(job, job') /\ job'.status = job.status
          /\ job'.seen = job.seen /\ job'.prompt = job.prompt /\ (job'.pending <=> job.pending)
          /\ job'.ap = a
        BY <1>0, <2>2 DEF Jobs, SameTurn, SameWork
    <2>5. PhaseTells(job', hist')
        BY <1>0, <1>2, <2>1, <2>4, Submitted DEF Inv, PhaseTells, Cleared, SameTurn, SameWork, PlanPhases
    <2>6. ApprovalTells(job', hist')
        BY <1>0, <1>2, <2>1, <2>4 DEF Inv, ApprovalTells, SameWork
    <2>7. WorkerTells(job', wk', ag)
        BY <1>0, <1>2, <2>1, <2>2, <2>4, WorkerGoes DEF Inv, WorkerTells, SameWork, PlanPhases
    <2> QED
        BY <1>0, <2>2, <2>3, <2>4, <2>5, <2>6, <2>7, GoesOn DEF SameWork
<1>3. ASSUME ~(job.phase \in PlanPhases /\ wk.out.mark = "plan"),
             ~(job.phase = "implementing" /\ job.ap.state = "approved")
      PROVE  Inv'
    <2>1. wk' = [wk EXCEPT !.pc = "advance"] /\ job' = job
        BY <1>3 DEF Observe
    <2>2. wk' \in Workers /\ wk'.pc = "advance" /\ wk'.out = wk.out
        BY <1>0, <2>1, WorkerGoes
    <2>3. WorkerTells(job, wk, ag)'
        BY <1>0, <1>3, <2>1, <2>2 DEF Inv, WorkerTells
    <2>4. QuestionTells(job, q, wk, hist)'
        BY <1>0, <2>1, <2>2, Submitted DEF Inv, QuestionTells
    <2> QED
        BY <1>0, <2>1, <2>2, <2>3, <2>4, Typed, InvNext DEF Inv, LedgerHonest
<1> QED
    BY <1>1, <1>2, <1>3

\* A review that is published.
LEMMA ReviewFields ==
    ASSUME Inv, wk.pc = "advance", job.phase = "reviewing", NEW d \in {"approve", "revise"}
    PROVE  /\ Reviewed(d) \in Jobs /\ SameTurn(job, Reviewed(d)) /\ Reviewed(d).phase = "reviewing"
           /\ Reviewed(d).status = job.status /\ Reviewed(d).role = job.role
           /\ Reviewed(d).tier = job.tier /\ Reviewed(d).round = job.round
           /\ Reviewed(d).plan = job.plan /\ Reviewed(d).review.of = job.plan.n
           /\ Reviewed(d).review.round = job.round /\ Reviewed(d).review.decision = d
           /\ (Reviewed(d).review.hard <=> wk.out.hard)
           /\ Reviewed(d).src = (IF d = "approve" THEN "reviewer" ELSE "none")
           /\ Reviewed(d).ap = job.ap /\ ~Reviewed(d).pending /\ Reviewed(d).prompt = "submitted"
           /\ Reviewed(d).seen = job.seen /\ job.tier \in {"medium", "high"}
           /\ job.ap.state # "none" /\ job.ap.gate[1] = job.plan.n /\ job.plan.round = job.round
<1>0. job \in Jobs /\ wk \in Workers /\ ag \in Agents
    BY Typed
<1>1. /\ ag.plan = job.plan.n /\ job.tier \in {"medium", "high"} /\ job.ap.state # "none"
      /\ job.ap.gate[1] = job.plan.n /\ job.plan.round = job.round /\ ~job.pending
      /\ job.prompt = "submitted"
    BY Submitted DEF Inv, AgentTells, PhaseTells
<1>2. PICK r \in Reviews :
          /\ r = [of |-> ag.plan, round |-> job.round, decision |-> d, hard |-> wk.out.hard]
          /\ r.of = ag.plan /\ r.round = job.round /\ r.decision = d
          /\ (r.hard <=> wk.out.hard)
    <2> DEFINE b == [of |-> ag.plan, round |-> job.round, decision |-> d, hard |-> wk.out.hard]
    <2>1. ag.plan \in Nat /\ job.round \in Nat /\ wk.out.hard \in BOOLEAN
        BY <1>0 DEF Agents, Workers, Outs, Jobs, MaxRound
    <2>2. b \in Reviews /\ b.of = ag.plan /\ b.round = job.round /\ b.decision = d /\ (b.hard <=> wk.out.hard)
        BY <2>1 DEF Reviews
    <2> QED
        BY <2>2
<1>3. PICK s \in {"none", "reviewer"} : s = IF d = "approve" THEN "reviewer" ELSE "none"
    OBVIOUS
<1>4. Reviewed(d) = [job EXCEPT !.review = r, !.src = s]
    BY <1>2, <1>3 DEF Reviewed
<1>5. PICK k : k = Reviewed(d)
    OBVIOUS
<1>6. k \in Jobs /\ k.review = r /\ k.src = s
    BY <1>0, <1>4, <1>5 DEF Jobs
<1>7. /\ SameTurn(job, k) /\ k.phase = job.phase /\ k.status = job.status /\ k.role = job.role
      /\ k.tier = job.tier /\ k.round = job.round /\ k.plan = job.plan /\ k.ap = job.ap
      /\ k.pending = job.pending /\ k.prompt = job.prompt /\ k.seen = job.seen
    BY <1>0, <1>4, <1>5 DEF Jobs, SameTurn
<1> QED
    BY <1>1, <1>2, <1>3, <1>5, <1>6, <1>7

\* The reviewer rejects what the user has to decide.
LEMMA ReviseAsksKeeps == ASSUME Inv, ReviseAsks PROVE Inv'
<1>0. /\ job \in Jobs /\ wk \in Workers /\ hist \in Histories /\ wk.pc = "advance"
      /\ job.phase = "reviewing" /\ "ask" \in WorkerPcs /\ "revise" \in {"approve", "revise"}
      /\ job.tier = "medium" \/ job.round >= MaxRound
    BY Typed DEF ReviseAsks, Advances, WorkerPcs, Exhausted
<1>1. job' = Reviewed("revise") /\ Goes("ask") /\ UNCHANGED <<q, eff, ag, prefs, hist, spent>>
    BY DEF ReviseAsks
<1>2. PhaseTells(job', hist')
    BY <1>0, <1>1, ReviewFields DEF Inv, PhaseTells, SameTurn
<1>3. ApprovalTells(job', hist')
    BY <1>0, <1>1, ReviewFields DEF Inv, ApprovalTells
<1>4. WorkerTells(job', wk', ag)
    <2>1. wk'.pc = "ask" /\ job.status \in Working
        BY <1>0, <1>1, WorkerGoes, Submitted
    <2> QED
        BY <1>0, <1>1, <2>1, ReviewFields DEF WorkerTells
<1>5. /\ job' \in Jobs /\ SameTurn(job, job') /\ job'.status = job.status /\ job'.role = job.role
      /\ job'.seen = job.seen /\ job'.phase = job.phase /\ job'.plan = job.plan /\ job'.prompt = "submitted"
    BY <1>0, <1>1, ReviewFields
<1>6. job.prompt = "submitted"
    BY <1>0, Submitted
<1> QED
    BY <1>0, <1>1, <1>2, <1>3, <1>4, <1>5, <1>6, GoesOn

\* The planner revises its plan in the next round.
LEMMA ReviseAgainKeeps == ASSUME Inv, ReviseAgain PROVE Inv'
<1>0. /\ job \in Jobs /\ wk \in Workers /\ hist \in Histories /\ wk.pc = "advance"
      /\ job.phase = "reviewing" /\ "turn" \in WorkerPcs /\ "revise" \in {"approve", "revise"}
      /\ job.tier = "high" /\ job.round \in 0..MaxRound /\ job.round < MaxRound
    BY Typed, ReviewFields DEF ReviseAgain, Advances, WorkerPcs, Exhausted, MaxRound, Jobs
<1>1. PICK k \in Jobs : k = Reviewed("revise")
    BY <1>0, ReviewFields
<1>2. PICK n \in 0..MaxRound : n = k.round + 1
    BY <1>0, <1>1, ReviewFields DEF MaxRound
<1>3. /\ job' = [k EXCEPT !.round = n, !.phase = "revising", !.prompt = "none", !.ap = NoApproval]
      /\ Goes("turn") /\ UNCHANGED <<q, eff, ag, prefs, hist, spent>>
    BY <1>1, <1>2 DEF ReviseAgain
<1>4. job' \in Jobs
    BY <1>3, StartTyped DEF Jobs, Phases, Prompts
<1>5. /\ SameTurn(k, job') /\ job'.status = k.status /\ job'.role = k.role /\ job'.seen = k.seen
      /\ job'.prompt = "none" /\ job'.phase = "revising" /\ job'.tier = k.tier /\ job'.round = n
      /\ job'.src = k.src /\ job'.ap = NoApproval /\ (job'.pending <=> k.pending)
    BY <1>3 DEF Jobs, SameTurn
<1>6. PhaseTells(job', hist')
    BY <1>0, <1>1, <1>5, ReviewFields DEF Inv, PhaseTells, SameTurn, Tiers, PlanPhases
<1>7. ApprovalTells(job', hist')
    BY <1>5 DEF ApprovalTells, NoApproval
<1>8. WorkerTells(job', wk', ag)
    <2>1. wk'.pc = "turn" /\ job.status \in Working
        BY <1>0, <1>3, WorkerGoes, Submitted
    <2> QED
        BY <1>0, <1>1, <1>5, <2>1, ReviewFields DEF WorkerTells
<1>9. SameTurn(job, job') /\ job'.status = job.status /\ job'.role = job.role /\ job'.seen = job.seen
    BY <1>0, <1>1, <1>5, ReviewFields DEF SameTurn, Jobs
<1> QED
    BY <1>0, <1>3, <1>4, <1>5, <1>6, <1>7, <1>8, <1>9, Submitted, GoesOn

\* The approved plan of a job.
LEMMA ApprovedFields ==
    ASSUME NEW j \in Jobs, NEW s \in {"explicit", "auto"}
    PROVE  /\ Approved(j, s) \in Jobs /\ SameTurn(j, Approved(j, s))
           /\ Approved(j, s).phase = "implementing" /\ Approved(j, s).prompt = "none"
           /\ Approved(j, s).tier = j.tier /\ Approved(j, s).round = j.round
           /\ Approved(j, s).plan = j.plan /\ Approved(j, s).review = j.review
           /\ Approved(j, s).src = j.src /\ Approved(j, s).role = j.role
           /\ Approved(j, s).status = j.status /\ Approved(j, s).seen = j.seen
           /\ Approved(j, s).pending = j.pending /\ Approved(j, s).reconcile = j.reconcile
           /\ Approved(j, s).ap.state = "approved" /\ Approved(j, s).ap.gate = j.ap.gate
           /\ Approved(j, s).ap.source = s
<1> DEFINE b == [j.ap EXCEPT !.state = "approved", !.source = s, !.plan = j.plan.n]
<1>1. b \in Approvals /\ b.state = "approved" /\ b.gate = j.ap.gate /\ b.source = s
    BY DEF Jobs, Plans, Approvals, ApprovalStates
<1>2. Approved(j, s) = [j EXCEPT !.phase = "implementing", !.prompt = "none", !.ap = b]
    BY DEF Approved, Jobs
<1> HIDE DEF b
<1>3. PICK k : k = Approved(j, s)
    OBVIOUS
<1>4. k \in Jobs /\ k.phase = "implementing" /\ k.prompt = "none" /\ k.ap = b
    BY ZenonT(30), <1>1, <1>2, <1>3 DEF Jobs, Phases, Prompts
<1>5. /\ SameTurn(j, k) /\ k.tier = j.tier /\ k.round = j.round /\ k.plan = j.plan
      /\ k.review = j.review /\ k.src = j.src /\ k.role = j.role /\ k.status = j.status
      /\ k.seen = j.seen /\ k.pending = j.pending /\ k.reconcile = j.reconcile
    BY <1>2, <1>3 DEF Jobs, SameTurn
<1> QED
    BY <1>1, <1>3, <1>4, <1>5

\* The preference approves a reviewed plan of a medium job without a hard risk.
LEMMA AutoApproves ==
    ASSUME Inv, ApproveReview, AutoAllowed, job' = Approved(Reviewed("approve"), "auto"),
           hist' = [hist EXCEPT !.auto = IF prefs.mode = "auto" THEN @ \cup {ag.plan} ELSE @],
           Goes("turn"), UNCHANGED <<q, spent>>
    PROVE  Inv'
<1>0. /\ job \in Jobs /\ wk \in Workers /\ hist \in Histories /\ wk.pc = "advance"
      /\ job.phase = "reviewing" /\ "turn" \in WorkerPcs /\ UNCHANGED <<eff, ag, prefs>>
      /\ "approve" \in {"approve", "revise"} /\ "auto" \in {"explicit", "auto"}
    BY Typed DEF ApproveReview, Advances, WorkerPcs
<1>1. /\ job.tier \in {"simple", "medium"} /\ ~job.plan.hard /\ ~wk.out.hard /\ prefs.mode = "auto"
    BY DEF AutoAllowed
<1>2. PICK k \in Jobs : k = Reviewed("approve")
    BY <1>0, ReviewFields
<1>3. ag.plan = job.plan.n /\ ag.plan \in Nat
    BY <1>0, Submitted, Typed DEF Inv, AgentTells, Agents
<1>4. /\ hist' \in Histories /\ hist'.yes = hist.yes /\ hist'.built = hist.built
      /\ hist'.shown = hist.shown /\ job.plan.n \in hist'.auto
    BY <1>0, <1>1, <1>3 DEF Histories
<1>5. PhaseTells(job', hist')
    BY <1>0, <1>1, <1>2, <1>4, ReviewFields, ApprovedFields DEF Inv, PhaseTells, Cleared, SameTurn,
       Tiers, PlanPhases
<1>6. ApprovalTells(job', hist')
    BY <1>0, <1>2, <1>4, ReviewFields, ApprovedFields DEF Inv, ApprovalTells
<1>7. WorkerTells(job', wk', ag)
    <2>1. wk'.pc = "turn" /\ job.status \in Working
        BY <1>0, WorkerGoes, Submitted
    <2> QED
        BY <1>0, <1>2, <2>1, ReviewFields, ApprovedFields DEF WorkerTells
<1>8. /\ job' \in Jobs /\ SameTurn(job, job') /\ job'.status = job.status /\ job'.role = job.role
      /\ job'.seen = job.seen /\ job'.prompt = "none" /\ job'.phase = "implementing"
    BY <1>0, <1>2, ReviewFields, ApprovedFields DEF SameTurn
<1> QED
    BY <1>0, <1>4, <1>5, <1>6, <1>7, <1>8, Submitted, GoesOn

\* A reviewed plan is approved by the preference, or the user is asked.
LEMMA ApproveReviewKeeps == ASSUME Inv, ApproveReview PROVE Inv'
<1>0. /\ job \in Jobs /\ wk.pc = "advance" /\ job.phase = "reviewing" /\ UNCHANGED <<eff, ag, prefs>>
      /\ "approve" \in {"approve", "revise"} /\ "plan_approval" \in Owners /\ FALSE \in BOOLEAN
    BY Typed DEF ApproveReview, Advances, Owners
<1>1. CASE /\ AutoAllowed /\ job' = Approved(Reviewed("approve"), "auto")
           /\ hist' = [hist EXCEPT !.auto = IF prefs.mode = "auto" THEN @ \cup {ag.plan} ELSE @]
           /\ Goes("turn") /\ UNCHANGED <<q, spent>>
    BY <1>1, AutoApproves
<1>2. ASSUME spent' = [spent EXCEPT !.faults = @ + (IF AutoAllowed THEN 1 ELSE 0)],
             AskFor([Reviewed("approve") EXCEPT !.ap.state = "awaiting", !.ap.plan = job.plan.n],
                    "plan_approval", FALSE, job.plan.n)
      PROVE  Inv'
    <2>1. PICK k \in Jobs : k = Reviewed("approve")
        BY <1>0, ReviewFields
    <2>2. PICK n \in Nat : n = job.plan.n
        BY <1>0 DEF Jobs, Plans
    <2> DEFINE b == [k.ap EXCEPT !.state = "awaiting", !.plan = n]
    <2>3. b \in Approvals /\ b.state = "awaiting" /\ b.gate = k.ap.gate /\ b.source = k.ap.source
        BY DEF Jobs, Approvals, ApprovalStates
    <2>4. PICK m : m = [k EXCEPT !.ap.state = "awaiting", !.ap.plan = n]
        OBVIOUS
    <2>5. m = [k EXCEPT !.ap = b]
        BY <2>4 DEF Jobs, Approvals
    <2> HIDE DEF b
    <2>6. m \in Jobs /\ m.ap = b
        BY <2>3, <2>5 DEF Jobs
    <2>7. /\ SameTurn(k, m) /\ SameWork(k, m) /\ m.pending = k.pending /\ m.seen = k.seen
        BY <2>5 DEF Jobs, SameTurn, SameWork
    <2>8. job' = [m EXCEPT !.status = "awaiting", !.reconcile = FALSE, !.prompt = "none"]
        BY <1>2, <2>1, <2>2, <2>4 DEF AskFor
    <2>9. /\ SameTurn(m, job') /\ SameWork(m, job') /\ job'.pending = m.pending /\ job'.seen = m.seen
          /\ job'.ap = b /\ job'.prompt = "none" /\ job'.status = "awaiting"
        BY <2>6, <2>8 DEF Jobs, SameTurn, SameWork
    <2>10. /\ SameTurn(job, m) /\ m.phase = "reviewing" /\ m.role = "reviewer" /\ m.plan = job.plan
           /\ m.review.of = job.plan.n /\ m.review.round = m.round /\ m.round = job.round
           /\ m.review.decision = "approve" /\ m.src = "reviewer" /\ m.tier = job.tier /\ ~m.pending
           /\ m.seen = job.seen
        BY <1>0, <2>1, <2>7, ReviewFields, Submitted DEF SameTurn, SameWork, RoleOf
    <2>11. k.ap = job.ap /\ job.ap.state # "none" /\ job.ap.gate[1] = job.plan.n /\ job.tier \in {"medium", "high"}
           /\ job.plan.round = job.round
        BY <1>0, <2>1, ReviewFields
    <2>12. PhaseTells(job', hist)
        BY <2>3, <2>9, <2>10, <2>11 DEF Inv, PhaseTells, SameTurn, SameWork, Tiers, PlanPhases
    <2>13. ApprovalTells(job', hist)
        BY <1>0, <2>3, <2>9, <2>10, <2>11 DEF Inv, ApprovalTells, SameWork
    <2>14. AgentTells(job', ag, hist)
        <3>1. ag.phase = "reviewing" /\ ag.plan = job.plan.n
            BY <1>0, Submitted DEF Inv, AgentTells
        <3> QED
            BY <3>1, <2>9, <2>10 DEF AgentTells, SameWork, RoleOf
    <2>15. spent' \in Spendings
        BY <1>2, Typed DEF Spendings
    <2>16. eff.st = "none"
        BY <1>0, Submitted
    <2> QED
        BY <1>0, <1>2, <2>1, <2>2, <2>3, <2>4, <2>6, <2>10, <2>12, <2>13, <2>14, <2>15, <2>16, AskKeeps
<1> QED
    BY <1>1, <1>2 DEF ApproveReview

\* A simple job turns out not to be: it is planned, and its approval was never given.
LEMMA PromoteKeeps == ASSUME Inv, Promote PROVE Inv'
<1>0. /\ job \in Jobs /\ wk \in Workers /\ hist \in Histories /\ wk.pc = "advance"
      /\ job.phase = "implementing" /\ "turn" \in WorkerPcs /\ wk.out.mark = "promote"
      /\ UNCHANGED <<q, eff, ag, prefs, hist, spent>>
    BY Typed DEF Promote, Promotes, Advances, WorkerPcs
<1>1. CASE job.ap.state # "none"
    BY <1>0, <1>1, RaiseKeeps DEF Promote
<1>2. CASE job.ap.state = "none"
    <2>1. PICK t \in Tiers : t = ClassifiedTier(wk.out) /\ t # "simple"
        <3>1. ClassifiedTier(wk.out) \in Tiers
            BY <1>0 DEF ClassifiedTier, Workers, Outs, Tiers
        <3>2. job.tier \in Tiers
            BY <1>0 DEF Inv, PhaseTells
        <3>3. Rank(job.tier) \in 1..3 /\ Rank(ClassifiedTier(wk.out)) > Rank(job.tier)
            BY <3>2, Ranks DEF Tiers, Promote, Promotes
        <3> QED
            BY <3>1, <3>3, Ranks
    <2>2. /\ job' = [job EXCEPT !.tier = t, !.phase = "planning", !.cont = FALSE, !.round = 0,
                                !.plan = NoPlan, !.review = NoReview, !.src = "none", !.prompt = "none"]
          /\ Goes("turn")
        BY <1>2, <2>1 DEF Promote
    <2>3. job' \in Jobs
        <3>1. /\ 0 \in 0..MaxRound /\ "planning" \in Phases /\ "none" \in Prompts /\ NoPlan \in Plans
              /\ NoReview \in Reviews
            BY StartTyped DEF MaxRound, Phases, Prompts
        <3> QED
            BY <1>0, <2>2, <3>1 DEF Jobs
    <2>4. /\ SameTurn(job, job') /\ job'.status = job.status /\ job'.role = job.role /\ job'.seen = job.seen
          /\ job'.prompt = "none" /\ job'.phase = "planning" /\ job'.tier = t /\ job'.round = 0
          /\ job'.src = "none" /\ job'.ap = job.ap /\ job'.pending = job.pending
        BY <1>0, <2>2 DEF Jobs, SameTurn
    <2>5. job.prompt = "submitted" /\ ~job.pending /\ job.status \in Working
        BY <1>0, Submitted
    <2>6. PhaseTells(job', hist')
        BY <1>0, <2>1, <2>4, <2>5 DEF Inv, PhaseTells, SameTurn, Tiers, PlanPhases
    <2>7. ApprovalTells(job', hist')
        BY <1>2, <2>4 DEF Inv, ApprovalTells
    <2>8. WorkerTells(job', wk', ag)
        <3>1. wk'.pc = "turn"
            BY <1>0, <2>2, WorkerGoes
        <3> QED
            BY <2>4, <2>5, <3>1 DEF WorkerTells
    <2> QED
        BY <1>0, <2>2, <2>3, <2>4, <2>5, <2>6, <2>7, <2>8, GoesOn
<1> QED
    BY <1>1, <1>2

\* A worker that ends without a word about the workflow, and leaves the job queued or blocked.
LEMMA Leaves ==
    ASSUME Inv, wk.pc = "advance", job' \in Jobs, wk' = Off, q' \in VoiceQuestions,
           UNCHANGED <<eff, ag, prefs, hist, spent>>,
           SameTurn(job, job'), SameWork(job, job'), job'.ap = job.ap, job'.pending = job.pending,
           job'.seen = job.seen, job'.prompt = "none", job'.status = "blocked",
           q' = q \/ q' = [q EXCEPT !.state = "resolved"]
    PROVE  Inv'
<1>0. Off \in Workers /\ Off.pc = "off" /\ q \in VoiceQuestions
    BY Typed, StartTyped
<1>1. PhaseTells(job, hist)'
    BY Submitted DEF Inv, PhaseTells, Cleared, SameTurn, SameWork
<1>2. ApprovalTells(job, hist)'
    BY DEF Inv, ApprovalTells, SameWork
<1>3. AgentTells(job, ag, hist)'
    BY DEF Inv, AgentTells, SameTurn, SameWork
<1>4. EffectTells(job, eff, ag)' /\ WorkerTells(job, wk, ag)'
    BY <1>0, Submitted DEF EffectTells, WorkerTells
<1>5. q'.state \in {"none", "dispatching", "resolved"} /\ q'.owner = q.owner /\ q'.dispatch = q.dispatch
      /\ (q'.state = "dispatching" => q.state = "dispatching")
    BY <1>0, Submitted DEF VoiceQuestions
<1>6. QuestionTells(job, q, wk, hist)'
    BY <1>5 DEF Inv, QuestionTells, SameTurn
<1> QED
    BY <1>0, <1>1, <1>2, <1>3, <1>4, <1>6, Typed, InvNext DEF Inv, LedgerHonest

\* The output is of no use: the job is blocked.
LEMMA BlockKeeps == ASSUME Inv, Block PROVE Inv'
<1>0. /\ job \in Jobs /\ wk.pc = "advance" /\ wk' = Off /\ UNCHANGED <<q, eff, ag, prefs, hist, spent>>
      /\ job' = [job EXCEPT !.status = "blocked", !.reconcile = FALSE, !.prompt = "none"]
    BY Typed DEF Block, Advances
<1>1. job' \in Jobs
    BY <1>0 DEF Jobs, Statuses, Prompts
<1>2. /\ SameTurn(job, job') /\ SameWork(job, job') /\ job'.ap = job.ap /\ job'.pending = job.pending
      /\ job'.seen = job.seen /\ job'.prompt = "none" /\ job'.status = "blocked"
    BY <1>0 DEF Jobs, SameTurn, SameWork
<1> QED
    BY <1>0, <1>1, <1>2, Leaves, Typed

\* A clarification that is resolved.
LEMMA ResolvedTyped ==
    ASSUME Inv
    PROVE  /\ QuestionResolved \in VoiceQuestions
           /\ QuestionResolved = q \/ QuestionResolved = [q EXCEPT !.state = "resolved"]
           /\ QuestionResolved.state \notin {"answered", "dispatching"}
           /\ QuestionResolved.state \in {"resolved", q.state}
           /\ QuestionResolved.dispatch = q.dispatch
    BY Typed DEF QuestionResolved, VoiceQuestions, QuestionStates

\* The implementer settled without a summary.
LEMMA NoSummaryKeeps == ASSUME Inv, NoSummary PROVE Inv'
<1>0. /\ job \in Jobs /\ wk.pc = "advance" /\ wk' = Off /\ UNCHANGED <<eff, ag, prefs, hist, spent>>
      /\ job' = [job EXCEPT !.status = "blocked", !.reconcile = FALSE, !.cont = FALSE, !.prompt = "none"]
      /\ q' = QuestionResolved
    BY Typed DEF NoSummary, Advances
<1>1. job' \in Jobs
    BY <1>0 DEF Jobs, Statuses, Prompts
<1>2. /\ SameTurn(job, job') /\ SameWork(job, job') /\ job'.ap = job.ap /\ job'.pending = job.pending
      /\ job'.seen = job.seen /\ job'.prompt = "none" /\ job'.status = "blocked"
    BY <1>0 DEF Jobs, SameTurn, SameWork
<1> QED
    BY <1>0, <1>1, <1>2, Leaves, ResolvedTyped

\* What the preferences say of the approval is read, and an approval not yet counted recorded.
LEMMA PrefsReadKeeps == ASSUME Inv, PrefsRead PROVE Inv'
<1>0. job \in Jobs /\ wk \in Workers /\ UNCHANGED <<job, q, eff, ag, hist>>
    BY Typed DEF PrefsRead
<1>1. /\ job.status \in Working /\ wk.pc \notin {"off", "start"}
      /\ job.pending \/ (job.phase = "implementing" /\ job.prompt = "submitted")
    BY Submitted DEF PrefsRead, Completing, Advances
<1>2. wk' \in Workers /\ wk'.pc = "finish"
    BY <1>0 DEF PrefsRead, Workers, WorkerPcs
<1>3. WorkerTells(job, wk, ag)'
    BY <1>0, <1>1, <1>2 DEF WorkerTells
<1>4. QuestionTells(job, q, wk, hist)'
    BY <1>0, <1>1, <1>2 DEF Inv, QuestionTells
<1>5. spent' \in Spendings
    BY Typed DEF PrefsRead, Spendings
<1>6. prefs' \in Preferences /\ PrefsTell(prefs)' /\ LedgerHonest'
    <2>1. CASE prefs' = prefs
        BY <1>0, <2>1, Typed DEF Inv, LedgerHonest
    <2>2. CASE Uncounted /\ prefs' = Recorded(prefs, job.ap.gate)
        <3>1. job.ap.gate \in Nat \X Nat /\ job.ap.gate # NoGate /\ job.ap.gate[1] = job.plan.n
              /\ job.plan.n \in hist.yes
            BY <1>0, <2>2 DEF Inv, ApprovalTells, Uncounted, Jobs, Approvals
        <3>2. job.plan.n \in hist.built
            BY <1>1 DEF Inv, PhaseTells, AgentTells
        <3> QED
            BY <1>0, <2>2, <3>1, <3>2, RecordedKeeps, Typed DEF Inv, LedgerHonest
    <2> QED
        BY <2>1, <2>2 DEF PrefsRead
<1> QED
    BY <1>0, <1>2, <1>3, <1>4, <1>5, <1>6, Typed, InvNext DEF Inv

\* A finished job, whatever it is told to do next.
LEMMA FinishedFields ==
    ASSUME Inv, At("finish"), NEW k \in Jobs,
           k.phase = "finished", k.prompt = "none", k.role = "none", k.tier = job.tier,
           k.round = job.round, k.plan = job.plan, k.review = job.review, k.src = job.src,
           SameTurn(job, k), k.seen = job.seen, k.ap.state = job.ap.state, k.ap.gate = job.ap.gate,
           k.ap.source = job.ap.source, k.pending \/ k.status \in Terminal \cup {"awaiting"}
    PROVE  /\ PhaseTells(k, hist) /\ ApprovalTells(k, hist) /\ AgentTells(k, ag, hist)
           /\ eff.st = "none" /\ q.state \in {"none", "dispatching", "resolved"}
<1>1. job.pending \/ (job.phase = "implementing" /\ job.prompt = "submitted")
    BY DEF Inv, WorkerTells
<1>2. /\ Cleared(job, hist) /\ job.plan.n \in hist.built /\ job.phase \in {"implementing", "finished"}
      /\ job.prompt # "submitting" /\ job.tier \in Tiers
    BY <1>1 DEF Inv, PhaseTells, AgentTells
<1>3. PhaseTells(k, hist)
    BY <1>2 DEF Inv, PhaseTells, Cleared, SameTurn, PlanPhases
<1>4. ApprovalTells(k, hist)
    BY DEF Inv, ApprovalTells
<1>5. AgentTells(k, ag, hist)
    BY DEF Inv, AgentTells
<1>6. eff.st = "none"
    BY <1>2 DEF Inv, EffectTells
<1>7. q.state \in QuestionStates
    BY Typed DEF VoiceQuestions
<1>8. q.state \notin {"pending", "answered", "cancelled"}
    BY DEF Inv, QuestionTells
<1> QED
    BY <1>3, <1>4, <1>5, <1>6, <1>7, <1>8 DEF QuestionStates

\* A finished job that ends, or is put off until the preferences can be read.
LEMMA FinishEnds ==
    ASSUME Inv, At("finish"), NEW k \in Jobs, job' = k, q' = QuestionResolved, wk' = Off,
           UNCHANGED <<eff, ag, prefs, hist, spent>>,
           k.phase = "finished", k.prompt = "none", k.role = "none", k.tier = job.tier,
           k.round = job.round, k.plan = job.plan, k.review = job.review, k.src = job.src,
           SameTurn(job, k), k.seen = job.seen, k.ap.state = job.ap.state, k.ap.gate = job.ap.gate,
           k.ap.source = job.ap.source, k.pending \/ k.status = "completed", k.status # "awaiting"
    PROVE  Inv'
<1>0. Off \in Workers /\ Off.pc = "off" /\ eff.st = "none"
    BY StartTyped, FinishedFields
<1>1. PhaseTells(job, hist)' /\ ApprovalTells(job, hist)' /\ AgentTells(job, ag, hist)'
    BY FinishedFields
<1>2. EffectTells(job, eff, ag)' /\ WorkerTells(job, wk, ag)'
    BY <1>0 DEF EffectTells, WorkerTells
<1>3. q.state \in {"none", "dispatching", "resolved"}
    BY FinishedFields
<1>4. QuestionTells(job, q, wk, hist)'
    BY <1>3, ResolvedTyped DEF Inv, QuestionTells, SameTurn
<1> QED
    BY <1>0, <1>1, <1>2, <1>4, ResolvedTyped, Typed, InvNext DEF Inv, LedgerHonest

\* The workflow is finished, put off, or ends with the offer to approve automatically.
LEMMA FinishKeeps == ASSUME Inv, Finish PROVE Inv'
<1>0. job \in Jobs /\ wk \in Workers /\ At("finish") /\ UNCHANGED <<eff, ag, prefs, spent>>
    BY Typed DEF Finish
<1>1. PICK f : f = Finished
    OBVIOUS
<1>2. f \in Jobs /\ f.phase = "finished" /\ f.prompt = "none" /\ f.role = "none"
    <2>1. "finished" \in Phases /\ "none" \in Prompts /\ "none" \in Roles
        BY DEF Phases, Prompts, Roles
    <2> QED
        BY <1>0, <1>1, <2>1 DEF Finished, Jobs
<1>3. /\ f.tier = job.tier /\ f.round = job.round /\ f.plan = job.plan /\ f.review = job.review
      /\ f.src = job.src /\ SameTurn(job, f) /\ f.seen = job.seen /\ f.ap = job.ap
    BY <1>0, <1>1 DEF Finished, Jobs, SameTurn
<1>4. CASE wk.pref = "failed"
    <2>1. /\ job' = [f EXCEPT !.status = "queued", !.reconcile = TRUE, !.pending = TRUE]
          /\ q' = QuestionResolved /\ wk' = Off /\ UNCHANGED hist
        BY <1>1, <1>4 DEF Finish
    <2>2. job' \in Jobs /\ job'.pending /\ job'.status = "queued"
        BY <1>2, <2>1 DEF Jobs, Statuses
    <2>3. SameWork(f, job') /\ SameTurn(f, job') /\ job'.seen = f.seen /\ job'.ap = f.ap /\ job'.prompt = f.prompt
        BY <1>2, <2>1 DEF Jobs, SameWork, SameTurn
    <2>4. PICK k \in Jobs : k = job'
        BY <2>2
    <2>5. /\ k.phase = "finished" /\ k.prompt = "none" /\ k.role = "none" /\ k.tier = job.tier
          /\ k.round = job.round /\ k.plan = job.plan /\ k.review = job.review /\ k.src = job.src
          /\ SameTurn(job, k) /\ k.seen = job.seen /\ k.ap = job.ap /\ k.pending /\ k.status = "queued"
        BY <1>2, <1>3, <2>2, <2>3, <2>4 DEF SameWork, SameTurn
    <2> QED
        BY <1>0, <2>1, <2>4, <2>5, FinishEnds
<1>5. CASE wk.pref # "failed"
    <2>1. PICK counted \in BOOLEAN : counted = (job.ap.counted \/ wk.pref \in {"known", "offer"})
        OBVIOUS
    <2> DEFINE b == [f.ap EXCEPT !.counted = counted]
               done == [f EXCEPT !.ap.counted = counted, !.pending = FALSE]
    <2>2. b \in Approvals /\ b.state = f.ap.state /\ b.gate = f.ap.gate /\ b.source = f.ap.source
        BY <1>2 DEF Jobs, Approvals
    <2>3. PICK d : d = done
        OBVIOUS
    <2>4. d = [f EXCEPT !.ap = b, !.pending = FALSE]
        BY <1>2, <2>3 DEF Jobs
    <2>5. \/ AskFor(d, "auto_offer", FALSE, 0)
          \/ /\ job' = [d EXCEPT !.status = "completed"]
             /\ q' = QuestionResolved /\ wk' = Off /\ UNCHANGED hist
        BY <1>1, <1>5, <2>1, <2>3 DEF Finish
    <2> HIDE DEF b, done
    <2>6. d \in Jobs /\ d.ap = b
        BY <1>2, <2>2, <2>4 DEF Jobs
    <2>7. SameWork(f, d) /\ SameTurn(f, d) /\ d.seen = f.seen /\ d.prompt = f.prompt
        BY <1>2, <2>4 DEF Jobs, SameWork, SameTurn
    <2>8. CASE AskFor(d, "auto_offer", FALSE, 0)
        <3>1. job' = [d EXCEPT !.status = "awaiting", !.reconcile = FALSE, !.prompt = "none"]
            BY <2>8 DEF AskFor
        <3>2. job' \in Jobs /\ job'.status = "awaiting" /\ job'.prompt = "none"
            BY <2>6, <3>1 DEF Jobs, Statuses, Prompts
        <3>3. SameWork(d, job') /\ SameTurn(d, job') /\ job'.seen = d.seen /\ job'.ap = d.ap
            BY <2>6, <3>1 DEF Jobs, SameWork, SameTurn
        <3>4. PICK k \in Jobs : k = job'
            BY <3>2
        <3>5. PhaseTells(k, hist) /\ ApprovalTells(k, hist) /\ AgentTells(k, ag, hist) /\ eff.st = "none"
            BY <1>0, <1>2, <1>3, <2>2, <2>6, <2>7, <3>2, <3>3, <3>4, FinishedFields DEF SameWork, SameTurn
        <3>6. "auto_offer" \in Owners /\ FALSE \in BOOLEAN /\ 0 \in Nat /\ SameTurn(job, d)
            BY <1>3, <2>7 DEF Owners, SameTurn
        <3> QED
            BY <1>0, <2>6, <2>8, <3>4, <3>5, <3>6, AskKeeps, Typed
    <2>9. CASE /\ job' = [d EXCEPT !.status = "completed"]
               /\ q' = QuestionResolved /\ wk' = Off /\ UNCHANGED hist
        <3>1. job' \in Jobs /\ job'.status = "completed"
            BY <2>6, <2>9 DEF Jobs, Statuses
        <3>2. /\ SameWork(d, job') /\ SameTurn(d, job') /\ job'.seen = d.seen /\ job'.ap = d.ap
              /\ job'.prompt = d.prompt
            BY <2>6, <2>9 DEF Jobs, SameWork, SameTurn
        <3>3. PICK k \in Jobs : k = job'
            BY <3>1
        <3>4. /\ k.phase = "finished" /\ k.prompt = "none" /\ k.role = "none" /\ k.tier = job.tier
              /\ k.round = job.round /\ k.plan = job.plan /\ k.review = job.review /\ k.src = job.src
              /\ SameTurn(job, k) /\ k.seen = job.seen /\ k.ap = b /\ k.status = "completed"
            BY <1>2, <1>3, <2>6, <2>7, <3>1, <3>2, <3>3 DEF SameWork, SameTurn
        <3>5. b.state = job.ap.state /\ b.gate = job.ap.gate /\ b.source = job.ap.source
            BY <1>3, <2>2
        <3> QED
            BY <1>0, <2>9, <3>3, <3>4, <3>5, FinishEnds
    <2> QED
        BY <2>5, <2>8, <2>9
<1> QED
    BY <1>4, <1>5

\* What an answer finds: a job that waits, and the question it waits for.
LEMMA Asked ==
    ASSUME Inv, NEW id, NEW reply \in {"yes", "no", "other"}, NEW byUser \in BOOLEAN, Says(id, reply, byUser)
    PROVE  /\ job.status = "awaiting" /\ q.state = "pending" /\ wk.pc = "off" /\ eff.st = "none"
           /\ q.id \in 1..Len(hist.shown) /\ Meant(id) = q.id
           /\ hist' \in Histories /\ hist.yes \subseteq hist'.yes /\ hist'.built = hist.built
           /\ hist'.auto = hist.auto /\ hist'.shown = hist.shown
           /\ reply = "yes" /\ ~q.routine => hist.shown[q.id] \in hist'.yes
           /\ (job.phase = "finished" => q.owner = "auto_offer")
<1>1. /\ job.status = "awaiting" /\ q.state = "pending" /\ Meant(id) = q.id /\ (q.routine \/ byUser)
      /\ hist' = [hist EXCEPT !.yes = IF reply = "yes" /\ byUser THEN @ \cup {hist.shown[Meant(id)]}
                                      ELSE @]
    BY DEF Says, Addressed, Accepts
<1>2. wk.pc = "off" /\ q.id \in 1..Len(hist.shown) /\ (job.phase = "finished" => q.owner = "auto_offer")
    BY <1>1 DEF Inv, QuestionTells
<1>3. eff.st = "none"
    BY <1>1 DEF Inv, EffectTells
<1>4. hist \in Histories /\ hist.shown \in Seq(Nat)
    BY Typed DEF Histories
<1>5. hist.shown[q.id] \in Nat
    BY <1>2, <1>4
<1> QED
    BY <1>1, <1>2, <1>3, <1>4, <1>5 DEF Histories

\* A job that is queued again with the answer to its question.
LEMMA RequeuedKeeps ==
    ASSUME Inv, NEW j \in Jobs, NEW cont \in BOOLEAN, Requeued(j, cont),
           UNCHANGED <<wk, eff, ag, prefs, spent>>,
           job.status = "awaiting", wk.pc = "off", eff.st = "none",
           hist' \in Histories, hist.yes \subseteq hist'.yes, hist'.built = hist.built,
           hist'.auto = hist.auto, hist'.shown = hist.shown,
           SameTurn(job, j), j.role = job.role, j.seen = job.seen, j.pending = job.pending,
           j.reconcile = job.reconcile, j.phase # "finished",
           \/ j.phase = job.phase /\ j.plan = job.plan
           \/ j.phase = "revising" /\ job.phase # "finished"
           \/ j.phase = "implementing" /\ job.role = "reviewer" /\ job.phase # "finished",
           PhaseTells([j EXCEPT !.status = "queued", !.cont = cont, !.prompt = "none"], hist'),
           ApprovalTells(j, hist'), cont => q.owner \in {"workflow", "review"},
           q.owner = "plan_approval" => j.ap.state # "none"
    PROVE  Inv'
<1>0. q \in VoiceQuestions /\ job \in Jobs /\ ~job.reconcile
    BY Typed DEF Inv, QuestionTells
<1>1. /\ job' = [j EXCEPT !.status = "queued", !.cont = cont, !.prompt = "none"]
      /\ q' = [q EXCEPT !.state = "answered"]
    BY DEF Requeued
<1>2. /\ job' \in Jobs /\ q' \in VoiceQuestions
    <2>1. job' \in Jobs
        BY ZenonT(30), <1>1 DEF Jobs, Statuses, Prompts
    <2>2. q' \in VoiceQuestions
        BY <1>0, <1>1 DEF VoiceQuestions, QuestionStates
    <2> QED
        BY <2>1, <2>2
<1>3. /\ job'.status = "queued" /\ job'.cont = cont /\ job'.prompt = "none" /\ SameTurn(job, job')
      /\ SameWork(j, job') /\ job'.seen = job.seen /\ job'.reconcile = job.reconcile /\ job'.ap = j.ap
    BY <1>1 DEF Jobs, SameTurn, SameWork
<1>4. q'.state = "answered" /\ q'.owner = q.owner /\ q'.dispatch = q.dispatch
    BY <1>0, <1>1 DEF VoiceQuestions
<1>5. PhaseTells(job, hist)' /\ ApprovalTells(job, hist)'
    BY <1>1, <1>3 DEF ApprovalTells, SameWork
<1>6. AgentTells(job, ag, hist)'
    BY <1>3 DEF Inv, AgentTells, SameWork, RoleOf
<1>7. EffectTells(job, eff, ag)' /\ WorkerTells(job, wk, ag)'
    BY DEF EffectTells, WorkerTells
<1>8. QuestionTells(job, q, wk, hist)'
    BY <1>0, <1>3, <1>4 DEF Inv, QuestionTells, SameTurn
<1>9. PrefsTell(prefs)' /\ LedgerHonest'
    BY DEF Inv, LedgerHonest
<1> QED
    BY <1>2, <1>5, <1>6, <1>7, <1>8, <1>9, Typed, InvNext


\* A clarification is answered.
LEMMA AnswerWorkflowKeeps ==
    ASSUME Inv, NEW id, NEW reply \in {"yes", "no", "other"}, NEW byUser \in BOOLEAN,
           AnswerWorkflow(id, reply, byUser)
    PROVE  Inv'
<1>0. /\ job \in Jobs /\ Requeued(job, TRUE) /\ UNCHANGED <<wk, eff, ag, prefs, spent>>
      /\ Says(id, reply, byUser) /\ q.owner = "workflow" /\ TRUE \in BOOLEAN
    BY Typed DEF AnswerWorkflow
<1>1. /\ job.phase # "finished" /\ hist.yes \subseteq hist'.yes /\ hist'.auto = hist.auto
      /\ hist'.built = hist.built
    BY <1>0, Asked
<1>2. PICK k : k = [job EXCEPT !.status = "queued", !.cont = TRUE, !.prompt = "none"]
    OBVIOUS
<1>3. SameWork(job, k) /\ SameTurn(job, k) /\ k.ap = job.ap /\ k.pending = job.pending
    BY <1>0, <1>2 DEF Jobs, SameWork, SameTurn
<1>4. PhaseTells(k, hist')
    BY <1>1, <1>3 DEF Inv, PhaseTells, Cleared, SameWork, SameTurn
<1>5. ApprovalTells(job, hist')
    BY <1>1 DEF Inv, ApprovalTells
<1> QED
    BY <1>0, <1>1, <1>2, <1>4, <1>5, Asked, RequeuedKeeps DEF SameTurn

\* What waits for the user's word on a review or a plan.
LEMMA AskedOfReview ==
    ASSUME Inv, job.status = "awaiting", q.owner \in {"review", "exhausted", "plan_approval"}
    PROVE  /\ job.phase = "reviewing" /\ job.role = "reviewer" /\ ~q.routine
           /\ hist.shown[q.id] = job.plan.n /\ job.review.of = job.plan.n
           /\ job.review.round = job.round /\ job.plan.round = job.round /\ ~job.pending
           /\ job.tier \in {"medium", "high"} /\ job.ap.state # "none" /\ job.ap.gate[1] = job.plan.n
           /\ job.ap.source = "none"
<1>1. job.phase = "reviewing" /\ job.role = "reviewer" /\ ~q.routine
      /\ hist.shown[q.id] = job.plan.n /\ job.review.of = job.plan.n
      /\ job.review.round = job.round
    BY DEF Inv, QuestionTells
<1> QED
    BY <1>1 DEF Inv, PhaseTells, ApprovalTells

\* The user wants the plan revised.
LEMMA AnswerReviewKeeps ==
    ASSUME Inv, NEW id, NEW reply \in {"yes", "no", "other"}, NEW byUser \in BOOLEAN,
           AnswerReview(id, reply, byUser)
    PROVE  Inv'
<1>0. /\ job \in Jobs /\ UNCHANGED <<wk, eff, ag, prefs, spent>>
      /\ Says(id, reply, byUser) /\ q.owner = "review" /\ TRUE \in BOOLEAN
    BY Typed DEF AnswerReview
<1>1. PICK n \in 0..MaxRound : n = IF job.round = 0 THEN 1 ELSE job.round
    BY <1>0 DEF Jobs, MaxRound
<1>2. PICK j : j = [job EXCEPT !.phase = "revising", !.tier = "high", !.round = n, !.ap = NoApproval]
    OBVIOUS
<1>3. Requeued(j, TRUE)
    BY <1>1, <1>2 DEF AnswerReview
<1>4. j \in Jobs /\ j.phase = "revising" /\ j.tier = "high" /\ j.round = n /\ j.ap = NoApproval
    BY <1>0, <1>2, StartTyped DEF Jobs, Phases, Tiers
<1>5. /\ SameTurn(job, j) /\ j.role = job.role /\ j.seen = job.seen /\ j.pending = job.pending
      /\ j.reconcile = job.reconcile /\ j.src = job.src
    BY <1>0, <1>2 DEF Jobs, SameTurn
<1>6. PICK k : k = [j EXCEPT !.status = "queued", !.cont = TRUE, !.prompt = "none"]
    OBVIOUS
<1>7. SameWork(j, k) /\ SameTurn(j, k) /\ k.ap = j.ap /\ k.pending = j.pending
    BY <1>4, <1>6 DEF Jobs, SameWork, SameTurn
<1>8. job.status = "awaiting" /\ job.src = "none" /\ job.phase = "reviewing" /\ ~job.pending
    BY <1>0, Asked, AskedOfReview DEF Inv, QuestionTells
<1>9. PhaseTells(k, hist')
    BY <1>4, <1>5, <1>7, <1>8 DEF Inv, PhaseTells, SameWork, SameTurn, Tiers, PlanPhases
<1>10. ApprovalTells(j, hist')
    BY <1>4 DEF ApprovalTells, NoApproval
<1> QED
    BY <1>0, <1>3, <1>4, <1>5, <1>6, <1>8, <1>9, <1>10, Asked, RequeuedKeeps

\* The user approves the plan he was shown.
LEMMA UserApproves ==
    ASSUME Inv, NEW id, NEW byUser \in BOOLEAN, Says(id, "yes", byUser),
           UNCHANGED <<wk, eff, ag, prefs, spent>>, q.owner \in {"exhausted", "plan_approval"},
           NEW j \in Jobs, Requeued(Approved(j, "explicit"), FALSE), SameTurn(job, j),
           j.tier = job.tier, j.round = job.round, j.plan = job.plan, j.review = job.review,
           j.role = job.role, j.seen = job.seen, j.pending = job.pending, j.reconcile = job.reconcile,
           j.ap = job.ap, j.src = job.src \/ (j.src = "user" /\ q.owner = "exhausted")
    PROVE  Inv'
<1>0. /\ "yes" \in {"yes", "no", "other"} /\ "explicit" \in {"explicit", "auto"} /\ FALSE \in BOOLEAN
      /\ job.status = "awaiting"
    BY Asked
<1>1. PICK a \in Jobs : a = Approved(j, "explicit")
    BY <1>0, ApprovedFields
<1>2. PICK k : k = [a EXCEPT !.status = "queued", !.cont = FALSE, !.prompt = "none"]
    OBVIOUS
<1>3. SameWork(a, k) /\ SameTurn(a, k) /\ k.ap = a.ap /\ k.pending = a.pending
    BY <1>2 DEF Jobs, SameWork, SameTurn
<1>4. job.plan.n \in hist'.yes
    BY <1>0, Asked, AskedOfReview
<1>5. /\ SameTurn(job, a) /\ a.phase = "implementing" /\ a.tier = job.tier /\ a.round = job.round
      /\ a.plan = job.plan /\ a.review = job.review /\ a.src = j.src /\ a.role = job.role
      /\ a.seen = job.seen /\ a.pending = job.pending /\ a.reconcile = job.reconcile
      /\ a.ap.state = "approved" /\ a.ap.gate = job.ap.gate /\ a.ap.source = "explicit"
    BY <1>0, <1>1, ApprovedFields DEF SameTurn
<1>6. job.tier \in {"medium", "high"} /\ job.review.of = job.plan.n /\ ~job.pending
      /\ job.phase = "reviewing" /\ job.role = "reviewer"
      /\ job.plan.round = job.round /\ job.review.round = job.round
    BY <1>0, AskedOfReview
<1>7. q.owner = "exhausted" => /\ job.tier = "high" /\ job.review.decision = "revise"
                               /\ job.round >= MaxRound
    BY <1>0 DEF Inv, QuestionTells
<1>8. PhaseTells(k, hist')
    BY <1>3, <1>4, <1>5, <1>6, <1>7 DEF Inv, PhaseTells, Cleared, SameWork, SameTurn, Tiers, PlanPhases
<1>9. job.ap.state # "none" /\ job.ap.gate[1] = job.plan.n
    BY <1>0, AskedOfReview
<1>10. ApprovalTells(a, hist')
    BY <1>4, <1>5, <1>9 DEF Inv, ApprovalTells
<1> QED
    BY <1>0, <1>1, <1>2, <1>5, <1>6, <1>8, <1>10, Asked, RequeuedKeeps


\* The job is cancelled together with its question.
LEMMA CancelledKeeps ==
    ASSUME Inv, Open, Cancelled, q.state \notin {"none", "resolved"}, wk' \in Workers, wk'.pc = "off",
           UNCHANGED <<eff, ag, prefs, spent>>, hist' \in Histories, hist.yes \subseteq hist'.yes,
           hist'.auto = hist.auto, hist'.built = hist.built
    PROVE  Inv'
<1>0. job \in Jobs /\ q \in VoiceQuestions
    BY Typed
<1>1. q.owner = "plan_approval" => job.ap.state # "none"
    <2>1. q.state \in {"pending", "answered", "dispatching", "cancelled"}
        BY <1>0 DEF VoiceQuestions, QuestionStates
    <2> QED
        BY <2>1 DEF Inv, QuestionTells
<1> DEFINE b == [job.ap EXCEPT !.state = IF q.owner = "plan_approval" THEN "rejected" ELSE job.ap.state]
<1>2. /\ b \in Approvals /\ b.gate = job.ap.gate /\ b.source = job.ap.source
      /\ b.state = (IF q.owner = "plan_approval" THEN "rejected" ELSE job.ap.state)
    BY <1>0 DEF Jobs, Approvals, ApprovalStates
<1>3. job' = [job EXCEPT !.status = "cancelled", !.ap = b]
    BY <1>0 DEF Cancelled, Jobs
<1> HIDE DEF b
<1>4. job' \in Jobs /\ job'.status = "cancelled" /\ job'.ap = b
    BY <1>0, <1>2, <1>3 DEF Jobs, Statuses
<1>5. /\ SameWork(job, job') /\ SameTurn(job, job') /\ job'.seen = job.seen /\ job'.prompt = job.prompt
      /\ job'.full = job.full /\ job'.pending = job.pending /\ job'.cont = job.cont
    BY <1>0, <1>3 DEF Jobs, SameWork, SameTurn
<1>6. q' \in VoiceQuestions /\ q'.state = "cancelled" /\ q'.dispatch = q.dispatch
    BY <1>0 DEF Cancelled, VoiceQuestions, QuestionStates
<1>7. PhaseTells(job, hist)'
    BY <1>1, <1>2, <1>4, <1>5 DEF Inv, PhaseTells, Cleared, SameWork, SameTurn
<1>8. ApprovalTells(job, hist)'
    BY <1>1, <1>2, <1>4, <1>5 DEF Inv, ApprovalTells, SameWork
<1>9. AgentTells(job, ag, hist)'
    BY <1>5 DEF Inv, AgentTells, SameWork, SameTurn
<1>10. EffectTells(job, eff, ag)' /\ WorkerTells(job, wk, ag)'
    BY <1>4 DEF EffectTells, WorkerTells
<1>11. QuestionTells(job, q, wk, hist)'
    BY <1>4, <1>5, <1>6 DEF Inv, QuestionTells, SameTurn
<1>12. PrefsTell(prefs)' /\ LedgerHonest'
    BY DEF Inv, LedgerHonest
<1> QED
    BY <1>4, <1>6, <1>7, <1>8, <1>9, <1>10, <1>11, <1>12, Typed, InvNext

\* The user decides on a plan whose last review rejects it.
LEMMA AnswerExhaustedKeeps ==
    ASSUME Inv, NEW id, NEW reply \in {"yes", "no", "other"}, NEW byUser \in BOOLEAN,
           AnswerExhausted(id, reply, byUser)
    PROVE  Inv'
<1>0. /\ job \in Jobs /\ wk \in Workers /\ UNCHANGED <<wk, eff, ag, prefs, spent>>
      /\ Says(id, reply, byUser) /\ q.owner = "exhausted"
    BY Typed DEF AnswerExhausted
<1>1. CASE reply = "yes" /\ Requeued(Approved([job EXCEPT !.src = "user"], "explicit"), FALSE)
    <2>1. PICK j : j = [job EXCEPT !.src = "user"]
        OBVIOUS
    <2>2. /\ j \in Jobs /\ SameTurn(job, j)
          /\ j.tier = job.tier /\ j.round = job.round /\ j.plan = job.plan /\ j.review = job.review
          /\ j.role = job.role /\ j.seen = job.seen /\ j.pending = job.pending
          /\ j.reconcile = job.reconcile /\ j.ap = job.ap /\ j.src = "user"
        BY <1>0, <2>1 DEF Jobs, SameTurn
    <2> QED
        BY <1>0, <1>1, <2>1, <2>2, UserApproves
<1>2. CASE Cancelled
    BY <1>0, <1>2, Asked, CancelledKeeps
<1> QED
    BY <1>1, <1>2 DEF AnswerExhausted

\* The user approves the plan or rejects it.
LEMMA AnswerApprovalKeeps ==
    ASSUME Inv, NEW id, NEW reply \in {"yes", "no", "other"}, NEW byUser \in BOOLEAN,
           AnswerApproval(id, reply, byUser)
    PROVE  Inv'
<1>0. /\ job \in Jobs /\ wk \in Workers /\ UNCHANGED <<wk, eff, ag, prefs, spent>>
      /\ Says(id, reply, byUser) /\ q.owner = "plan_approval"
    BY Typed DEF AnswerApproval
<1>1. CASE reply = "yes" /\ Requeued(Approved(job, "explicit"), FALSE)
    BY <1>0, <1>1, UserApproves DEF SameTurn
<1>2. CASE Cancelled
    BY <1>0, <1>2, Asked, CancelledKeeps
<1> QED
    BY <1>1, <1>2 DEF AnswerApproval

\* A change of the preferences that is no approval.
LEMMA OfferResolved ==
    ASSUME Inv, NEW m \in {"ask", "auto"}
    PROVE  /\ [prefs EXCEPT !.mode = m] \in Preferences /\ PrefsTell([prefs EXCEPT !.mode = m])
           /\ [prefs EXCEPT !.mode = m].ids = prefs.ids
           /\ [prefs EXCEPT !.mode = m, !.offer = NoGate, !.done = TRUE] \in Preferences
           /\ PrefsTell([prefs EXCEPT !.mode = m, !.offer = NoGate, !.done = TRUE])
           /\ [prefs EXCEPT !.mode = m, !.offer = NoGate, !.done = TRUE].ids = prefs.ids
<1>1. prefs \in Preferences /\ NoGate \in Nat \X Nat
    BY Typed DEF NoGate
<1>2. /\ [prefs EXCEPT !.mode = m] \in Preferences
      /\ [prefs EXCEPT !.mode = m].ids = prefs.ids /\ [prefs EXCEPT !.mode = m].offer = prefs.offer
      /\ [prefs EXCEPT !.mode = m].done = prefs.done
    BY <1>1 DEF Preferences
<1>3. PICK p : p = [prefs EXCEPT !.mode = m, !.offer = NoGate, !.done = TRUE]
    OBVIOUS
<1>4. p \in Preferences /\ p.ids = prefs.ids /\ p.offer = NoGate /\ p.done
    BY <1>1, <1>3 DEF Preferences
<1>5. PrefsTell([prefs EXCEPT !.mode = m])
    BY <1>2 DEF Inv, PrefsTell
<1>6. PrefsTell(p)
    BY <1>4 DEF Inv, PrefsTell
<1> QED
    BY <1>2, <1>3, <1>4, <1>5, <1>6

\* The offer is answered.
LEMMA AnswerOfferKeeps ==
    ASSUME Inv, NEW id, NEW reply \in {"yes", "no", "other"}, NEW byUser \in BOOLEAN,
           AnswerOffer(id, reply, byUser)
    PROVE  Inv'
<1>0. /\ job \in Jobs /\ q \in VoiceQuestions /\ wk \in Workers /\ UNCHANGED <<wk, eff, ag>>
      /\ Says(id, reply, byUser) /\ q.owner = "auto_offer"
    BY Typed DEF AnswerOffer
<1>1. /\ job.status = "awaiting" /\ q.state = "pending" /\ wk.pc = "off" /\ eff.st = "none"
      /\ hist' \in Histories /\ hist.yes \subseteq hist'.yes /\ hist'.built = hist.built
      /\ hist'.auto = hist.auto /\ hist'.shown = hist.shown
    BY <1>0, Asked
<1>2. prefs' \in Preferences /\ PrefsTell(prefs') /\ prefs'.ids = prefs.ids
    <2>1. CASE prefs' = prefs
        BY <2>1, Typed DEF Inv
    <2>2. CASE prefs' # prefs
        <3>1. PICK m \in {"ask", "auto"} : m = IF reply = "yes" THEN "auto" ELSE "ask"
            OBVIOUS
        <3>2. prefs' = [prefs EXCEPT !.mode = m, !.offer = NoGate, !.done = TRUE]
            BY <2>2, <3>1 DEF AnswerOffer
        <3> QED
            BY <3>2, OfferResolved
    <2> QED
        BY <2>1, <2>2
<1>3. LedgerHonest'
    BY <1>1, <1>2 DEF Inv, LedgerHonest
<1>4. CASE /\ job' = [job EXCEPT !.status = "completed"] /\ q' = [q EXCEPT !.state = "resolved"]
           /\ UNCHANGED spent
    <2>1. job' \in Jobs /\ job'.status = "completed" /\ q' \in VoiceQuestions /\ q'.state = "resolved"
          /\ q'.dispatch = q.dispatch
        BY <1>0, <1>4 DEF Jobs, Statuses, VoiceQuestions, QuestionStates
    <2>2. /\ SameWork(job, job') /\ SameTurn(job, job') /\ job'.seen = job.seen /\ job'.prompt = job.prompt
          /\ job'.full = job.full /\ job'.pending = job.pending /\ job'.ap = job.ap
        BY <1>0, <1>4 DEF Jobs, SameWork, SameTurn
    <2>3. PhaseTells(job, hist)'
        BY <1>1, <2>1, <2>2 DEF Inv, PhaseTells, Cleared, SameWork, SameTurn
    <2>4. ApprovalTells(job, hist)'
        BY <1>1, <2>2 DEF Inv, ApprovalTells, SameWork
    <2>5. AgentTells(job, ag, hist)'
        BY <1>0, <1>1, <2>2 DEF Inv, AgentTells, SameWork, SameTurn
    <2>6. EffectTells(job, eff, ag)' /\ WorkerTells(job, wk, ag)'
        BY <1>0, <1>1, <2>1 DEF EffectTells, WorkerTells
    <2>7. QuestionTells(job, q, wk, hist)'
        BY <1>1, <2>1, <2>2 DEF Inv, QuestionTells, SameTurn
    <2> QED
        BY <1>0, <1>1, <1>2, <1>3, <1>4, <2>1, <2>3, <2>4, <2>5, <2>6, <2>7, Typed, InvNext
<1>5. CASE spent' = [spent EXCEPT !.faults = @ + 1] /\ UNCHANGED <<job, q>>
    <2>1. spent' \in Spendings
        BY <1>5, Typed DEF Spendings
    <2>2. PhaseTells(job, hist)'
        BY <1>1, <1>5 DEF Inv, PhaseTells, Cleared
    <2>3. ApprovalTells(job, hist)'
        BY <1>1, <1>5 DEF Inv, ApprovalTells
    <2>4. AgentTells(job, ag, hist)' /\ EffectTells(job, eff, ag)' /\ WorkerTells(job, wk, ag)'
        BY <1>0, <1>1, <1>5 DEF Inv, AgentTells
    <2>5. QuestionTells(job, q, wk, hist)'
        BY <1>0, <1>1, <1>5 DEF Inv, QuestionTells
    <2> QED
        BY <1>0, <1>1, <1>2, <1>3, <1>5, <2>1, <2>2, <2>3, <2>4, <2>5, Typed, InvNext
<1> QED
    BY <1>4, <1>5 DEF AnswerOffer


\* The user cancels the job.
LEMMA CancelKeeps == ASSUME Inv, Cancel PROVE Inv'
<1>0. /\ job \in Jobs /\ Open /\ q.state # "resolved" /\ wk' = Off
      /\ UNCHANGED <<eff, ag, prefs, hist, spent>>
      /\ Off \in Workers /\ Off.pc = "off" /\ hist \in Histories
    BY Typed, StartTyped DEF Cancel
<1>1. CASE q.state # "none"
    BY <1>0, <1>1, CancelledKeeps DEF Cancel
<1>2. CASE q.state = "none"
    <2>1. job' = [job EXCEPT !.status = "cancelled"] /\ UNCHANGED q
        BY <1>2 DEF Cancel
    <2>2. job' \in Jobs /\ job'.status = "cancelled"
        BY <1>0, <2>1 DEF Jobs, Statuses
    <2>3. /\ SameWork(job, job') /\ SameTurn(job, job') /\ job'.seen = job.seen /\ job'.prompt = job.prompt
          /\ job'.full = job.full /\ job'.pending = job.pending /\ job'.ap = job.ap
        BY <1>0, <2>1 DEF Jobs, SameWork, SameTurn
    <2>4. PhaseTells(job, hist)'
        BY <1>0, <2>2, <2>3 DEF Inv, PhaseTells, Cleared, SameWork, SameTurn
    <2>5. ApprovalTells(job, hist)'
        BY <1>0, <2>3 DEF Inv, ApprovalTells, SameWork
    <2>6. AgentTells(job, ag, hist)'
        BY <1>0, <2>3 DEF Inv, AgentTells, SameWork, SameTurn
    <2>7. EffectTells(job, eff, ag)' /\ WorkerTells(job, wk, ag)'
        BY <1>0, <2>2 DEF EffectTells, WorkerTells
    <2>8. QuestionTells(job, q, wk, hist)'
        BY <1>0, <1>2, <2>1, <2>2, <2>3 DEF Inv, QuestionTells, SameTurn
    <2> QED
        BY <1>0, <2>1, <2>2, <2>4, <2>5, <2>6, <2>7, <2>8, Typed, InvNext DEF Inv, LedgerHonest
<1> QED
    BY <1>1, <1>2

\* A step of nobody the invariant watches: the preferences, the agent's output, the row's state.
LEMMA OutsideKeeps ==
    ASSUME Inv, UNCHANGED <<job, q, hist>>, wk' \in Workers, wk' = wk \/ wk'.pc = "off",
           eff' \in Effects, eff'.st = eff.st \/ (eff.st = "sent" /\ eff'.st # "none"),
           ag' \in Agents, ag'.phase = ag.phase, ag'.plan = ag.plan, ag'.n = ag.n,
           prefs' \in Preferences, PrefsTell(prefs'), LedgerHonest', spent' \in Spendings
    PROVE  Inv'
<1>1. PhaseTells(job, hist)' /\ ApprovalTells(job, hist)'
    BY DEF Inv
<1>2. AgentTells(job, ag, hist)'
    BY DEF Inv, AgentTells
<1>3. EffectTells(job, eff, ag)'
    BY DEF Inv, EffectTells
<1>4. WorkerTells(job, wk, ag)'
    BY DEF Inv, WorkerTells
<1>5. QuestionTells(job, q, wk, hist)'
    BY DEF Inv, QuestionTells
<1> QED
    BY <1>1, <1>2, <1>3, <1>4, <1>5, Typed, InvNext

\* Other jobs and the user change the preferences.
LEMMA PrefsChangeKeeps == ASSUME Inv, PrefsChange PROVE Inv'
<1>0. UNCHANGED <<job, q, wk, eff, ag, hist>> /\ spent' \in Spendings
    BY Typed DEF PrefsChange, Spendings
<1>1. prefs' \in Preferences /\ PrefsTell(prefs') /\ \A id \in prefs'.ids : id \in prefs.ids \/ id[1] = 0
    <2>1. CASE OtherRecords
        <3> DEFINE others == {i \in prefs.ids : i[1] = 0}
        <3>1. IsFiniteSet(prefs.ids)
            BY DEF Inv, PrefsTell
        <3>2. IsFiniteSet(others)
            BY <3>1, FS_Subset
        <3>3. PICK c \in Nat : c = Cardinality(others)
            BY <3>2, FS_CardinalityType
        <3>4. PICK n \in Nat : n = 1 + c /\ n # 0
            OBVIOUS
        <3>5. PICK id \in Nat \X Nat : id = <<0, n>> /\ id # NoGate /\ id[1] = 0
            <4>1. <<0, n>> \in Nat \X Nat /\ <<0, n>>[1] = 0 /\ <<0, n>>[2] # 0 /\ NoGate[2] = 0
                BY <3>4 DEF NoGate
            <4> QED
                BY <4>1
        <3>6. prefs' = Recorded(prefs, id)
            BY <2>1, <3>3, <3>4, <3>5 DEF OtherRecords
        <3>7. PrefsTell(prefs) /\ prefs \in Preferences
            BY Typed DEF Inv
        <3> QED
            BY <3>5, <3>6, <3>7, RecordedKeeps
    <2>2. CASE OtherResolves \/ SetMode
        BY <2>2, OfferResolved DEF OtherResolves, SetMode
    <2> QED
        BY <2>1, <2>2 DEF PrefsChange
<1>2. LedgerHonest'
    BY <1>0, <1>1 DEF Inv, LedgerHonest
<1> QED
    BY <1>0, <1>1, <1>2, OutsideKeeps, Typed

\* The prompt's row is settled by its answer, by its loss, or by the end of who waited for it.
LEMMA RowKeeps == ASSUME Inv, Confirm \/ Lose \/ CrashWorker \/ CrashDaemon PROVE Inv'
<1>0. eff \in Effects /\ spent \in Spendings /\ wk \in Workers /\ Off \in Workers /\ Off.pc = "off"
      /\ ag \in Agents /\ prefs \in Preferences /\ PrefsTell(prefs) /\ LedgerHonest
    BY Typed, StartTyped DEF Inv
<1>1. CASE Confirm
    <2>1. eff' \in Effects /\ eff.st = "sent" /\ eff'.st = "confirmed"
        BY <1>0, <1>1 DEF Confirm, Effects
    <2> QED
        BY <1>0, <1>1, <2>1, OutsideKeeps DEF Confirm, LedgerHonest
<1>2. CASE Lose \/ CrashDaemon
    <2>1. eff' \in Effects /\ eff.st = "sent" /\ eff'.st = "unknown" /\ spent' \in Spendings
        BY <1>0, <1>2 DEF Lose, CrashDaemon, Effects, Spendings
    <2> QED
        BY <1>0, <1>2, <2>1, OutsideKeeps DEF Lose, CrashDaemon, LedgerHonest
<1>3. CASE CrashWorker
    <2>1. /\ eff' \in Effects /\ spent' \in Spendings /\ wk' = Off
          /\ eff'.st = eff.st \/ (eff.st = "sent" /\ eff'.st = "unknown")
        BY <1>0, <1>3 DEF CrashWorker, Effects, Spendings
    <2> QED
        BY <1>0, <1>3, <2>1, OutsideKeeps DEF CrashWorker, LedgerHonest
<1> QED
    BY <1>1, <1>2, <1>3

\* What an agent may print.
LEMMA OutputsTyped ==
    ASSUME NEW phase, NEW o \in Outputs(phase) \cup Questions(phase) \cup {NoOut}
    PROVE  o \in Outs
<1> DEFINE O == [asks : {"no", "routine", "other"}, mark : Marks, tier : Tiers \cup {"none"}, hard : BOOLEAN]
<1>0. NoOut \in O /\ NoOut.mark = "none" /\ NoOut.tier = "none"
    BY DEF NoOut, Marks
<1>1. \A m \in {"tier", "promote"}, t \in TierClaims :
          [NoOut EXCEPT !.mark = m, !.tier = t[1], !.hard = t[2]] \in Outs
    <2> TAKE m \in {"tier", "promote"}, t \in TierClaims
    <2>1. t[1] \in Tiers /\ t[2] \in BOOLEAN
        <3>1. PICK a \in Tiers, b \in BOOLEAN : t = <<a, b>>
            BY DEF TierClaims, Tiers
        <3> QED
            BY <3>1
    <2>2. PICK x : x = [NoOut EXCEPT !.mark = m, !.tier = t[1], !.hard = t[2]]
        OBVIOUS
    <2>3. x \in O /\ x.tier = t[1]
        BY <1>0, <2>1, <2>2 DEF Marks
    <2> QED
        BY <2>1, <2>2, <2>3 DEF Outs
<1>2. \A m \in {"plan", "approve"}, h \in BOOLEAN : [NoOut EXCEPT !.mark = m, !.hard = h] \in Outs
    <2> TAKE m \in {"plan", "approve"}, h \in BOOLEAN
    <2>1. PICK x : x = [NoOut EXCEPT !.mark = m, !.hard = h]
        OBVIOUS
    <2>2. x \in O /\ x.mark = m
        BY <1>0, <2>1 DEF Marks
    <2> QED
        BY <2>1, <2>2 DEF Outs
<1>3. \A m \in {"revise", "summary"} : [NoOut EXCEPT !.mark = m] \in Outs
    <2> TAKE m \in {"revise", "summary"}
    <2>1. PICK x : x = [NoOut EXCEPT !.mark = m]
        OBVIOUS
    <2>2. x \in O /\ x.mark = m
        BY <1>0, <2>1 DEF Marks
    <2> QED
        BY <2>1, <2>2 DEF Outs
<1>4. \A s \in {"routine", "other"} : [NoOut EXCEPT !.asks = s] \in Outs
    <2> TAKE s \in {"routine", "other"}
    <2>1. PICK x : x = [NoOut EXCEPT !.asks = s]
        OBVIOUS
    <2>2. x \in O /\ x.mark = "none"
        BY <1>0, <2>1 DEF Marks
    <2> QED
        BY <2>1, <2>2 DEF Outs
<1>5. [NoOut EXCEPT !.asks = "other", !.mark = "plan"] \in Outs
    <2>1. PICK x : x = [NoOut EXCEPT !.asks = "other", !.mark = "plan"]
        OBVIOUS
    <2>2. x \in O /\ x.mark = "plan"
        BY <1>0, <2>1 DEF Marks
    <2> QED
        BY <2>1, <2>2 DEF Outs
<1>6. Hard \subseteq BOOLEAN
    BY DEF Hard
<1>7. Questions(phase) \subseteq Outs
    BY <1>4, <1>5 DEF Questions
<1> HIDE DEF O
<1>8. Outputs(phase) \subseteq Outs
    <2>1. CASE phase = "classifying"
        <3>1. \A t \in TierClaims : [NoOut EXCEPT !.mark = "tier", !.tier = t[1], !.hard = t[2]] \in Outs
            BY <1>1
        <3> QED
            BY <2>1, <3>1 DEF Outputs, PlanPhases
    <2>2. CASE phase \in PlanPhases
        BY <1>2, <1>6, <2>2 DEF Outputs, PlanPhases
    <2>3. CASE phase = "reviewing"
        BY <1>2, <1>3, <1>6, <2>3 DEF Outputs, PlanPhases
    <2>4. CASE phase = "implementing"
        BY <1>1, <1>3, <2>4 DEF Outputs, PlanPhases
    <2>5. CASE phase \notin {"classifying", "reviewing", "implementing"} \cup PlanPhases
        BY <2>5 DEF Outputs
    <2> QED
        BY <2>1, <2>2, <2>3, <2>4, <2>5
<1> QED
    BY <1>7, <1>8, StartTyped

\* The agent prints something and settles.
LEMMA AgentKeeps == ASSUME Inv, AgentOutputs \/ AgentSettles PROVE Inv'
<1>0. /\ ag \in Agents /\ spent \in Spendings /\ wk \in Workers /\ eff \in Effects
      /\ prefs \in Preferences /\ PrefsTell(prefs) /\ LedgerHonest
    BY Typed DEF Inv
<1>1. CASE AgentOutputs
    <2>1. PICK o \in Outs, s \in {"done", "shown"} : ag' = [ag EXCEPT !.out = o, !.state = s]
        BY <1>1, OutputsTyped DEF AgentOutputs
    <2>2. ag' \in Agents /\ ag'.phase = ag.phase /\ ag'.plan = ag.plan /\ ag'.n = ag.n
        BY <1>0, <2>1 DEF Agents
    <2>3. spent' \in Spendings
        <3>1. PICK a \in {0, 1}, b \in {0, 1} :
                 spent' = [questions |-> spent.questions + a, faults |-> spent.faults + b]
            BY <1>1 DEF AgentOutputs
        <3> QED
            BY <1>0, <3>1 DEF Spendings
    <2> QED
        BY <1>0, <1>1, <2>2, <2>3, OutsideKeeps DEF AgentOutputs, LedgerHonest
<1>2. CASE AgentSettles
    <2>1. ag' \in Agents /\ ag'.phase = ag.phase /\ ag'.plan = ag.plan /\ ag'.n = ag.n
        BY <1>0, <1>2 DEF AgentSettles, Agents
    <2> QED
        BY <1>0, <1>2, <2>1, OutsideKeeps DEF AgentSettles, LedgerHonest
<1> QED
    BY <1>1, <1>2


\* Recovery takes the result of an abandoned prompt.
LEMMA ScanPromptKeeps == ASSUME Inv, ScanPrompt PROVE Inv'
<1>0. /\ job \in Jobs /\ wk \in Workers /\ job.turn \in Nat /\ q.dispatch \in Nat
      /\ Off \in Workers /\ Off.pc = "off"
    BY Typed, StartTyped
<1>1. /\ job.prompt = "submitting" /\ wk.pc = "off" /\ eff.st \in {"confirmed", "unknown"}
      /\ UNCHANGED <<q, wk, ag, prefs, hist, spent>> /\ eff' = NoEffect /\ job.status \in Working \cup {"blocked"}
    BY DEF ScanPrompt, Abandoned
<1>2. eff' \in Effects /\ eff'.st = "none" /\ ag.phase = job.phase /\ job.phase \notin {"none", "finished"}
    BY <1>0, <1>1, StartTyped DEF Inv, EffectTells, NoEffect, Jobs, Phases, PhaseTells
<1>3. \/ job' = [job EXCEPT !.prompt = "submitted", !.seen = TRUE]
      \/ job' = [job EXCEPT !.prompt = "ambiguous"]
    BY DEF ScanPrompt, Reduced
<1>4. /\ SameWork(job, job') /\ SameTurn(job, job') /\ job'.status = job.status /\ job'.ap = job.ap
      /\ job'.pending = job.pending /\ job'.prompt \in {"submitted", "ambiguous"}
      /\ job'.cont = job.cont /\ job'.reconcile = job.reconcile
    BY <1>0, <1>3 DEF Jobs, SameWork, SameTurn
<1>5. job' \in Jobs
    <2>1. "submitted" \in Prompts /\ "ambiguous" \in Prompts /\ TRUE \in BOOLEAN
        BY DEF Prompts
    <2>2. CASE job' = [job EXCEPT !.prompt = "submitted", !.seen = TRUE]
        BY <1>0, <2>1, <2>2 DEF Jobs
    <2>3. CASE job' = [job EXCEPT !.prompt = "ambiguous"]
        BY <1>0, <2>1, <2>3 DEF Jobs
    <2> QED
        BY <1>3, <2>2, <2>3
<1>6. eff' \in Effects
    BY <1>2
<1>7. PhaseTells(job, hist)'
    BY <1>0, <1>1, <1>2, <1>4 DEF Inv, SameWork, SameTurn, Jobs, PhaseTells, Cleared
<1>8. ApprovalTells(job, hist)'
    BY <1>0, <1>1, <1>2, <1>4 DEF Inv, SameWork, SameTurn, Jobs, ApprovalTells
<1>9. AgentTells(job, ag, hist)'
    BY <1>0, <1>1, <1>2, <1>4 DEF Inv, SameWork, SameTurn, Jobs, AgentTells
<1>10. EffectTells(job, eff, ag)'
    BY <1>0, <1>1, <1>2, <1>4 DEF Inv, SameWork, SameTurn, Jobs, Effects, EffectTells
<1>11. WorkerTells(job, wk, ag)'
    BY <1>0, <1>1, <1>2, <1>4 DEF Inv, SameWork, SameTurn, Jobs, WorkerTells
<1>12. QuestionTells(job, q, wk, hist)'
    BY <1>0, <1>1, <1>2, <1>4 DEF Inv, SameWork, SameTurn, Jobs, QuestionTells
<1>13. PrefsTell(prefs)' /\ LedgerHonest'
    BY DEF Inv, ScanPrompt, LedgerHonest
<1> QED
    BY <1>5, <1>6, <1>7, <1>8, <1>9, <1>10, <1>11, <1>12, <1>13, Typed, InvNext DEF ScanPrompt, Abandoned

\* Recovery queues an abandoned job again.
LEMMA ScanJobKeeps == ASSUME Inv, ScanJob PROVE Inv'
<1>0. /\ job \in Jobs /\ wk \in Workers /\ job.turn \in Nat /\ q.dispatch \in Nat
      /\ Off \in Workers /\ Off.pc = "off"
    BY Typed, StartTyped
<1>1. eff.st = "none"
    BY <1>0 DEF Inv, ScanJob, Abandoned, EffectTells
<1>2. job' \in Jobs
    BY ZenonT(30), <1>0, <1>1, Typed DEF ScanJob, Abandoned, Jobs, Statuses
<1>3. PhaseTells(job, hist)'
    BY <1>0, <1>1 DEF Inv, ScanJob, Abandoned, Jobs, PhaseTells, Cleared
<1>4. ApprovalTells(job, hist)'
    BY <1>0, <1>1 DEF Inv, ScanJob, Abandoned, Jobs, ApprovalTells
<1>5. AgentTells(job, ag, hist)'
    BY <1>0, <1>1 DEF Inv, ScanJob, Abandoned, Jobs, AgentTells
<1>6. EffectTells(job, eff, ag)'
    BY <1>0, <1>1 DEF Inv, ScanJob, Abandoned, Jobs, EffectTells
<1>7. WorkerTells(job, wk, ag)'
    BY <1>0, <1>1 DEF Inv, ScanJob, Abandoned, Jobs, WorkerTells
<1>8. QuestionTells(job, q, wk, hist)'
    BY <1>0, <1>1 DEF Inv, ScanJob, Abandoned, Jobs, QuestionTells
<1>9. PrefsTell(prefs)' /\ LedgerHonest'
    BY DEF Inv, ScanJob, LedgerHonest
<1> QED
    BY <1>2, <1>3, <1>4, <1>5, <1>6, <1>7, <1>8, <1>9, Typed, InvNext DEF ScanJob, Abandoned

\* The operator says whether the agent has the prompt.
LEMMA ManualPromptKeeps == ASSUME Inv, ManualPrompt PROVE Inv'
<1>0. /\ job \in Jobs /\ wk \in Workers /\ job.turn \in Nat /\ q.dispatch \in Nat
      /\ Off \in Workers /\ Off.pc = "off"
    BY Typed, StartTyped
<1>1. job' \in Jobs
    BY <1>0, Typed DEF ManualPrompt, Jobs, Prompts
<1>2. PhaseTells(job, hist)'
    BY <1>0 DEF Inv, ManualPrompt, Jobs, PhaseTells, Cleared
<1>3. ApprovalTells(job, hist)'
    BY <1>0 DEF Inv, ManualPrompt, Jobs, ApprovalTells
<1>4. AgentTells(job, ag, hist)'
    BY <1>0 DEF Inv, ManualPrompt, Jobs, AgentTells
<1>5. EffectTells(job, eff, ag)'
    BY <1>0 DEF Inv, ManualPrompt, Jobs, EffectTells
<1>6. WorkerTells(job, wk, ag)'
    BY <1>0 DEF Inv, ManualPrompt, Jobs, WorkerTells
<1>7. QuestionTells(job, q, wk, hist)'
    BY <1>0 DEF Inv, ManualPrompt, Jobs, QuestionTells
<1>8. PrefsTell(prefs)' /\ LedgerHonest'
    BY DEF Inv, ManualPrompt, LedgerHonest
<1> QED
    BY <1>1, <1>2, <1>3, <1>4, <1>5, <1>6, <1>7, <1>8, Typed, InvNext DEF ManualPrompt


\* The variables' first values.
LEMMA InitInv == ASSUME Init PROVE Inv
<1>1. /\ job = [status |-> "queued", reconcile |-> FALSE, phase |-> "classifying", tier |-> "none",
                round |-> 0, turn |-> 0, token |-> 0, turnPhase |-> "none", cont |-> FALSE,
                prompt |-> "none", full |-> TRUE, seen |-> FALSE, plan |-> NoPlan,
                review |-> NoReview, src |-> "none", ap |-> NoApproval, pending |-> FALSE,
                role |-> "none"]
      /\ q = NoQuestion /\ wk = Off /\ eff = NoEffect /\ ag = NoAgent
      /\ hist = [shown |-> <<>>, yes |-> {}, auto |-> {}, built |-> {}, sent |-> 0]
      /\ spent = [questions |-> 0, faults |-> 0]
    BY DEF Init
<1>2. job \in Jobs
    <2>1. /\ "queued" \in Statuses /\ "classifying" \in Phases /\ "none" \in Prompts /\ "none" \in Roles
          /\ 0 \in 0..MaxRound
        BY DEF Statuses, Phases, Prompts, Roles, MaxRound
    <2> QED
        BY <1>1, <2>1, StartTyped DEF Jobs
<1>3. q \in VoiceQuestions /\ wk \in Workers /\ eff \in Effects /\ ag \in Agents
    BY <1>1, StartTyped
<1>4. hist \in Histories /\ spent \in Spendings
    BY <1>1 DEF Histories, Spendings
<1>5. PICK m \in Modes, k \in OtherIds :
          prefs = [mode |-> m, ids |-> {<<0, i>> : i \in 1..k},
                   offer |-> IF k = OfferAfter THEN <<0, k>> ELSE NoGate, done |-> FALSE]
    BY DEF Init
<1>6. m \in {"ask", "auto"} /\ k \in Nat /\ OfferAfter \in Nat \ {0} /\ k <= OfferAfter
    BY WorkflowConstants
<1> DEFINE ids == {<<0, i>> : i \in 1..k}
           offer == IF k = OfferAfter THEN <<0, k>> ELSE NoGate
<1>7. IsFiniteSet(ids) /\ Cardinality(ids) <= k /\ Cardinality(ids) \in Nat
    <2>1. IsFiniteSet(1..k) /\ Cardinality(1..k) = k
        BY <1>6, FS_Interval
    <2> DEFINE f == [i \in 1..k |-> <<0, i>>]
    <2>2. f \in Surjection(1..k, ids)
        BY DEF Surjection
    <2> HIDE DEF f, ids
    <2>3. IsFiniteSet(ids) /\ Cardinality(ids) <= Cardinality(1..k)
        BY <2>1, <2>2, FS_Surjection
    <2> QED
        BY <2>1, <2>3, FS_CardinalityType
<1>8. ids \in SUBSET (Nat \X Nat) /\ \A id \in ids : id[1] = 0
    BY <1>6
<1>9. offer \in Nat \X Nat /\ (offer # NoGate <=> k = OfferAfter) /\ (offer # NoGate => offer \in ids)
    <2>1. NoGate \in Nat \X Nat /\ NoGate[2] = 0
        BY DEF NoGate
    <2>2. CASE k = OfferAfter
        <3>1. <<0, k>> \in Nat \X Nat /\ <<0, k>>[2] = k /\ k # 0 /\ k \in 1..k
            BY <1>6, <2>2
        <3> QED
            BY <2>1, <2>2, <3>1
    <2>3. CASE k # OfferAfter
        BY <2>1, <2>3
    <2> QED
        BY <2>2, <2>3
<1> HIDE DEF ids, offer
<1>10. prefs \in Preferences /\ prefs.ids = ids /\ prefs.offer = offer /\ ~prefs.done
    <2>1. prefs = [mode |-> m, ids |-> ids, offer |-> offer, done |-> FALSE]
        BY <1>5 DEF ids, offer
    <2> QED
        BY <1>6, <1>8, <1>9, <2>1 DEF Preferences
<1>11. PrefsTell(prefs) /\ LedgerHonest
    BY <1>6, <1>7, <1>8, <1>9, <1>10 DEF PrefsTell, LedgerHonest
<1>12. /\ job.phase = "classifying" /\ job.plan = NoPlan /\ job.round = 0 /\ job.src = "none"
       /\ job.ap = NoApproval /\ job.tier = "none" /\ job.token = 0 /\ job.turn = 0 /\ ~job.pending
       /\ job.prompt = "none" /\ ~job.seen /\ job.status = "queued"
    BY <1>1
<1>13. PhaseTells(job, hist)
    BY <1>12 DEF PhaseTells, NoPlan, NoApproval, PlanPhases
<1>14. ApprovalTells(job, hist)
    BY <1>12 DEF ApprovalTells, NoApproval
<1>15. AgentTells(job, ag, hist)
    BY <1>1, <1>12 DEF AgentTells, NoAgent
<1>16. EffectTells(job, eff, ag) /\ WorkerTells(job, wk, ag)
    BY <1>1, StartTyped DEF EffectTells, WorkerTells, NoEffect
<1>17. QuestionTells(job, q, wk, hist)
    BY <1>1, <1>12 DEF QuestionTells, NoQuestion
<1> QED
    BY <1>2, <1>3, <1>4, <1>10, <1>11, <1>13, <1>14, <1>15, <1>16, <1>17 DEF Inv, Types

\* Every step of the worker preserves the invariant.
LEMMA WorkerStepKeeps == ASSUME Inv, WorkerStep PROVE Inv'
<1>1. CASE Drain
    BY <1>1, DeliverKeeps DEF Drain
<1>2. CASE Claim \/ BeginTurn \/ MarkRunning \/ NextTurn \/ HandOver \/ PhaseTurn \/ PlanPrompt \/ Admit
    BY <1>2, ClaimKeeps, BeginTurnKeeps, MarkRunningKeeps, NextTurnKeeps, HandOverKeeps, PhaseTurnKeeps,
       PlanPromptKeeps, AdmitKeeps
<1>3. CASE Missed \/ Consume \/ Wait \/ CountFile \/ CountJob \/ Watch \/ WatchFails \/ Observe
    BY <1>3, MissedKeeps, ConsumeKeeps, WaitKeeps, CountFileKeeps, CountJobKeeps, WatchKeeps,
       WatchFailsKeeps, ObserveKeeps
<1>4. CASE AgentAsks \/ Classify \/ PublishPlan \/ ApproveReview \/ ReviseAsks \/ AskReview
           \/ ReviseAgain \/ Promote \/ Block \/ NoSummary \/ PrefsRead \/ Finish
    BY <1>4, AgentAsksKeeps, ClassifyKeeps, PublishPlanKeeps, ApproveReviewKeeps, ReviseAsksKeeps,
       AskReviewKeeps, ReviseAgainKeeps, PromoteKeeps, BlockKeeps, NoSummaryKeeps, PrefsReadKeeps,
       FinishKeeps
<1> QED
    BY <1>1, <1>2, <1>3, <1>4 DEF WorkerStep

\* So does every step of the user, of other jobs and of the operator.
LEMMA UserStepKeeps == ASSUME Inv, UserStep PROVE Inv'
<1>1. ASSUME NEW id \in {Unnamed} \cup 1..Len(hist.shown), NEW reply \in {"yes", "no", "other"}, NEW byUser \in BOOLEAN,
             \/ AnswerWorkflow(id, reply, byUser) \/ AnswerReview(id, reply, byUser)
             \/ AnswerExhausted(id, reply, byUser) \/ AnswerApproval(id, reply, byUser)
             \/ AnswerOffer(id, reply, byUser)
      PROVE  Inv'
    BY <1>1, AnswerWorkflowKeeps, AnswerReviewKeeps, AnswerExhaustedKeeps, AnswerApprovalKeeps,
       AnswerOfferKeeps
<1>2. CASE Cancel \/ ManualPrompt \/ PrefsChange
    BY <1>2, CancelKeeps, ManualPromptKeeps, PrefsChangeKeeps
<1> QED
    BY <1>1, <1>2 DEF UserStep

\* The invariant is inductive.
LEMMA NextInv == ASSUME Inv, [Next]_vars PROVE Inv'
<1>1. CASE UNCHANGED vars
    BY <1>1 DEF vars, Inv, Types, LedgerHonest
<1>2. CASE ScanDrain
    BY <1>2, DeliverKeeps DEF ScanDrain
<1>3. CASE Next /\ ~ScanDrain
    BY <1>3, WorkerStepKeeps, UserStepKeeps, ScanPromptKeeps, ScanJobKeeps, RowKeeps, AgentKeeps
       DEF Next, ScanStep
<1> QED
    BY <1>1, <1>2, <1>3

\* Every reachable state satisfies the inductive invariant: the job's record, its question, the
\* worker, the agent and the ledger agree, whoever dies in between.
THEOREM WorkflowInvariant == Spec => []Inv
<1>1. Init => Inv
    BY InitInv
<1>2. Inv /\ [Next]_vars => Inv'
    BY NextInv
<1> QED
    BY <1>1, <1>2, PTL DEF Spec

\* Every variable keeps its type; in particular the rounds of review stay bounded and a full
\* ledger offers automatic approval at most once.
THEOREM TypeCorrect == Spec => []TypeOK
<1>1. Inv => TypeOK
    <2> SUFFICES ASSUME Inv PROVE TypeOK
        OBVIOUS
    <2>1. /\ job.status \in Statuses /\ job.phase \in Phases /\ job.turnPhase \in Phases \cup {"none"}
          /\ job.tier \in Tiers \cup {"none"} /\ job.round \in 0..MaxRound /\ job.prompt \in Prompts
          /\ job.turn \in Nat /\ job.token \in Nat /\ job.ap.state \in ApprovalStates
          /\ q.state \in QuestionStates
          /\ eff.st \in {"none", "pending", "sent", "unknown", "confirmed"}
        BY Typed DEF Jobs, Approvals, VoiceQuestions, Effects
    <2>2. job.token \in 0..job.turn /\ (job.tier = "medium" => job.round <= 1)
        BY <2>1 DEF Inv, PhaseTells
    <2>3. /\ (job.src = "reviewer") => (job.review.decision = "approve")
          /\ (job.src = "user") => (job.tier = "high" /\ job.review.decision = "revise" /\ Exhausted)
          /\ (job.src # "none") => (job.plan.round = job.round /\ job.review.round = job.round)
        BY DEF Inv, PhaseTells, Exhausted
    <2>4. (job.ap.state = "none") <=> (job.ap.gate = NoGate)
        BY DEF Inv, ApprovalTells
    <2>5. (job.status = "awaiting") => (q.state = "pending" /\ wk.pc = "off")
        BY DEF Inv, QuestionTells
    <2>6. /\ Cardinality(prefs.ids) <= OfferAfter
          /\ (prefs.offer # NoGate) => (prefs.offer \in prefs.ids /\ ~prefs.done)
        BY DEF Inv, PrefsTell
    <2> QED
        BY <2>1, <2>2, <2>3, <2>4, <2>5, <2>6 DEF TypeOK, Statuses, Prompts, QuestionStates
<1> QED
    BY <1>1, WorkflowInvariant, PTL

\* An implementer works on a plan that was reviewed and that the user approved as it was shown to
\* him, or that the preference allows to approve; only a simple job is built without one.
THEOREM BuiltAsApproved == Spec => []ImplementedAsApproved
<1>1. Inv => ImplementedAsApproved
    BY DEF Inv, ImplementedAsApproved, PhaseTells, AgentTells, Cleared
<1> QED
    BY <1>1, WorkflowInvariant, PTL

\* Whatever this job has in the ledger of approvals is a plan the user said yes to and an
\* implementer was given.
THEOREM HonestLedger == Spec => []LedgerHonest
<1>1. Inv => LedgerHonest
    BY DEF Inv
<1> QED
    BY <1>1, WorkflowInvariant, PTL
=============================================================================
