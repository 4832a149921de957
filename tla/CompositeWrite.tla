--------------------------- MODULE CompositeWrite ---------------------------
(***************************************************************************)
(* A job that splits one ticket into several or merges several into one:   *)
(* _run_github_issue_split, _run_linear_ticket_split,                      *)
(* _run_github_issue_merge and _run_linear_ticket_merge of                 *)
(* cursor/provisioning.py, their confirmation answers in                   *)
(* cursor/questions.py, and reconcile_uncertain_ticket_split and _merge of *)
(* cursor/recovery.py.                                                     *)
(*                                                                         *)
(* One confirmation covers several writes, made in order: the children and *)
(* then the parent of a split, the survivor and then the closings of a     *)
(* merge.  Each part has a state of its own beside the operation's, so     *)
(* that a job whose worker died in the middle goes on where it stood.  The *)
(* parent and the survivor are the lead part.  A merge compares the        *)
(* tickets with the snapshots its draft was made from each time a worker   *)
(* starts; a plan is the number of the draft, and the lead part, which     *)
(* rewrites a ticket, is recognised by its content.                        *)
(*                                                                         *)
(* Every update of the job store is one action, and so is every exchange   *)
(* with the provider.                                                      *)
(***************************************************************************)
EXTENDS Naturals, FiniteSets, FiniteSetsExt

CONSTANTS
    Kinds,       \* the kinds of write under study
    P,           \* the number of parts
    MaxPlans,    \* bound on drafts
    MaxEdits,    \* bound on changes made by others
    MaxErrors,   \* bound on failed or unanswered provider calls
    MaxCrashes,  \* bound on processes that die
    MaxCancels   \* bound on cancellations

Splits == {"github_split", "linear_split"}
Merges == {"github_merge", "linear_merge"}
Parts == 1..P

ASSUME CompositeConstants ==
    /\ Kinds \subseteq Splits \cup Merges
    /\ P \in Nat \ {0, 1} /\ MaxPlans \in Nat
    /\ MaxEdits \in Nat /\ MaxErrors \in Nat /\ MaxCrashes \in Nat /\ MaxCancels \in Nat

VARIABLES
    kind,     \* what the job writes
    job,      \* the fields of the job that the write uses
    wk,       \* the worker process
    scan,     \* the daemon's recover_jobs
    cancel,   \* the process that runs cancel_job
    remote,   \* the provider: the part in flight, how often each part was written
    yeses,    \* the plans the user said yes to, in order of the answers
    spent     \* how much of each bound is used up

vars == <<kind, job, wk, scan, cancel, remote, yeses, spent>>

Linear == kind \in {"linear_split", "linear_merge"}
Merge == kind \in Merges
Active == {"queued", "routing", "running", "reconciling", "awaiting", "blocked"}
Terminal == {"completed", "failed", "cancelled"}
Working == {"routing", "running", "reconciling"}
Plans == 0..MaxPlans

TypeOK ==
    /\ kind \in Kinds
    /\ job \in [status : Active \cup Terminal,
                op : {"none", "planned", "submitting", "submitted", "ambiguous", "created",
                      "manual_required"},
                part : [Parts -> {"planned", "submitted", "ambiguous", "created",
                                  "manual_required"}],
                lead : 0..P, plan : Plans, resolved : 0..2, confirmed : BOOLEAN,
                owned : BOOLEAN, reconcile : BOOLEAN,
                intent : {"none", "failed", "cancelled"}]
    /\ wk \in [pc : {"off", "launched", "start", "ready", "next", "marked", "fenced", "out",
                     "answered", "failed", "nostart", "release"}, clean : BOOLEAN]
    /\ scan \in [pc : {"idle", "reconcile", "settle", "recover"}, part : 0..P,
                 visible : BOOLEAN]
    /\ cancel \in {"idle", "stop", "release"}
    /\ remote \in [inflight : 0..P, sent : Plans, writes : [Parts -> 0..MaxPlans],
                   holds : Plans, drift : BOOLEAN]
    /\ yeses \in [count : 0..MaxPlans, plan : Plans]
    /\ spent \in [edits : 0..MaxEdits, errors : 0..MaxErrors, crashes : 0..MaxCrashes,
                  cancels : 0..MaxCancels]

Off == [pc |-> "off", clean |-> FALSE]

Init ==
    /\ kind \in Kinds
    /\ job = [status |-> "queued", op |-> "none", part |-> [p \in Parts |-> "planned"],
              lead |-> 0, plan |-> 0, resolved |-> IF Linear THEN 0 ELSE 2,
              confirmed |-> FALSE, owned |-> FALSE, reconcile |-> FALSE, intent |-> "none"]
    /\ wk = Off
    /\ scan = [pc |-> "idle", part |-> 0, visible |-> FALSE]
    /\ cancel = "idle"
    /\ remote = [inflight |-> 0, sent |-> 0, writes |-> [p \in Parts |-> 0], holds |-> 0,
                 drift |-> FALSE]
    /\ yeses = [count |-> 0, plan |-> 0]
    /\ spent = [edits |-> 0, errors |-> 0, crashes |-> 0, cancels |-> 0]

Errs == /\ spent.errors < MaxErrors
        /\ spent' = [spent EXCEPT !.errors = @ + 1]
Crashes == /\ spent.crashes < MaxCrashes
           /\ spent' = [spent EXCEPT !.crashes = @ + 1]

(***************************************************************************)
(* The parts.                                                              *)
(***************************************************************************)

Open == {p \in Parts : job.part[p] # "created"}

\* The loop over the children or closings, with the parent after or the survivor before it
Cur == IF Open = {} THEN 0 ELSE Min(Open)

\* What the provider shows: a creation or a closing by its marker, a rewrite by its content
Seen(p) == IF Merge /\ p = 1 THEN remote.holds = job.plan ELSE remote.writes[p] > 0

\* replace_split_child, replace_merge_closing, and the state of the lead part
SetPart(p, s, o) == [job EXCEPT !.part[p] = s, !.op = o]

(***************************************************************************)
(* The worker and the store.                                               *)
(***************************************************************************)

At(l) == wk.pc = l
Go(l) == [wk EXCEPT !.pc = l]
Wrote(l) == [pc |-> l, clean |-> FALSE]

\* _worker_change with the revision the job has by then: owned, in an allowed status, not
\* terminating
WorkerMay(statuses) == job.owned /\ job.status \in statuses /\ job.intent = "none"

\* A refused update makes every caller return
WorkerWrites(statuses, j, w) == IF WorkerMay(statuses) THEN job' = j /\ wk' = w
                                                       ELSE job' = job /\ wk' = Off

\* WorkerContext.checkpoint, and WorkerCancelled which ends the worker
Passes == WorkerMay(Working)

Leaves == /\ wk.pc \in {"start", "ready", "next", "marked", "failed", "nostart"}
                       \cup (IF Linear THEN {"out", "answered"} ELSE {})
          /\ ~Passes
          /\ wk' = Off
          /\ UNCHANGED <<kind, job, scan, cancel, remote, yeses, spent>>

\* launch_worker and begin_worker
Launched(j) == [j EXCEPT !.status = "queued", !.owned = TRUE]

Begin ==
    /\ At("launched")
    /\ IF job.owned /\ job.status = "queued"
       THEN /\ job' = [job EXCEPT !.status = IF job.reconcile THEN "reconciling" ELSE "routing"]
            /\ wk' = [pc |-> "start", clean |-> TRUE]
       ELSE job' = job /\ wk' = Off
    /\ UNCHANGED <<kind, scan, cancel, remote, yeses, spent>>

\* stage_terminal_intent, and its release by the worker on the way out
Staged(s) == [job EXCEPT !.status = "reconciling", !.intent = s]
Materialized == [job EXCEPT !.status = job.intent, !.intent = "none", !.owned = FALSE]

WorkerRelease ==
    /\ At("release")
    /\ job' = IF job.intent = "failed" THEN Materialized ELSE job
    /\ wk' = Off
    /\ UNCHANGED <<kind, scan, cancel, remote, yeses, spent>>

\* An exception fails the job at the revision the worker claimed
Raises == IF wk.clean THEN WorkerWrites(Working, Staged("failed"), Wrote("release"))
                      ELSE job' = job /\ wk' = Off

(***************************************************************************)
(* Drafting and confirming.                                                *)
(***************************************************************************)

\* persist_issue, persist_team, persist_survivor, persist_closing: the Linear identities
Resolves(k) ==
    /\ kind = k /\ At("start") /\ Passes /\ job.resolved < 2
    /\ WorkerWrites({"routing"}, [job EXCEPT !.resolved = @ + 1], Wrote("start"))
    /\ UNCHANGED <<kind, scan, cancel, remote, yeses, spent>>

ResolveSplitTicket == Resolves("linear_split")
ResolveMergeTickets == Resolves("linear_merge")

\* finish_missing: a ticket that cannot be found fails the job
TicketMissing ==
    /\ Linear /\ At("start") /\ Passes /\ job.resolved < 2
    /\ Errs
    /\ WorkerWrites(Working, Staged("failed"), Wrote("release"))
    /\ UNCHANGED <<kind, scan, cancel, remote, yeses>>

\* A snapshot or a draft cannot be made
DraftFails ==
    /\ At("start") /\ Passes
    /\ Errs
    /\ Raises
    /\ UNCHANGED <<kind, scan, cancel, remote, yeses>>

Drafts(j) ==
    /\ job.plan < MaxPlans
    /\ WorkerWrites({"routing"}, [j EXCEPT !.plan = @ + 1, !.op = "planned"], Wrote("ready"))
    /\ remote' = IF WorkerMay({"routing"}) THEN [remote EXCEPT !.drift = FALSE] ELSE remote
    /\ UNCHANGED <<kind, scan, cancel, yeses, spent>>

Resumes == /\ wk' = Go("ready")
           /\ UNCHANGED <<kind, job, scan, cancel, remote, yeses, spent>>

\* draft_ticket_split: at least two children, and a parent to close, to rewrite or to leave
PlansSplit(k) ==
    /\ kind = k /\ At("start") /\ Passes /\ job.resolved = 2
    /\ IF job.op = "none" THEN \E l \in {0, P} : Drafts([job EXCEPT !.lead = l])
                          ELSE Resumes

PlanGitHubSplit == PlansSplit("github_split")
PlanLinearSplit == PlansSplit("linear_split")

\* Mutant: a draft made over keeps the confirmation of the one before.
KeepsConfirmation == [job EXCEPT !.part[1] = "planned"]

\* persist_drift: the tickets are not as the snapshots, so the draft is made again, must be
\* confirmed again, and the survivor is written again
Redraft == [job EXCEPT !.confirmed = FALSE, !.part[1] = "planned"]

PlansMerge(k) ==
    /\ kind = k /\ At("start") /\ Passes /\ job.resolved = 2
    /\ IF job.op = "none" THEN Drafts([job EXCEPT !.lead = 1])
       ELSE IF remote.drift THEN Drafts(Redraft) ELSE Resumes

PlanGitHubMerge == PlansMerge("github_merge")
PlanLinearMerge == PlansMerge("linear_merge")

\* _ask_split_confirmation, _ask_merge_confirmation
AskConfirmation ==
    /\ At("ready") /\ ~job.confirmed
    /\ WorkerWrites({"routing", "running"},
                    [job EXCEPT !.status = "awaiting", !.owned = FALSE, !.reconcile = FALSE],
                    Off)
    /\ UNCHANGED <<kind, scan, cancel, remote, yeses, spent>>

Confirms(k) ==
    /\ kind = k /\ job.status = "awaiting" /\ At("off")
    /\ job' = Launched([job EXCEPT !.confirmed = TRUE])
    /\ wk' = [Off EXCEPT !.pc = "launched"]
    /\ yeses' = [count |-> yeses.count + 1, plan |-> job.plan]
    /\ UNCHANGED <<kind, scan, cancel, remote, spent>>

Rejects(k) ==
    /\ kind = k /\ job.status = "awaiting"
    /\ job' = [job EXCEPT !.status = "completed"]
    /\ UNCHANGED <<kind, wk, scan, cancel, remote, yeses, spent>>

AnswerGitHubSplit == Confirms("github_split") \/ Rejects("github_split")
AnswerLinearSplit == Confirms("linear_split") \/ Rejects("linear_split")
AnswerGitHubMerge == Confirms("github_merge") \/ Rejects("github_merge")
AnswerLinearMerge == Confirms("linear_merge") \/ Rejects("linear_merge")

(***************************************************************************)
(* Writing one part after the other.                                       *)
(***************************************************************************)

\* mark_running; an operation left in doubt is not submitted again
MarkRunning ==
    /\ At("ready") /\ job.confirmed
    /\ IF job.op # "planned" THEN Raises
       ELSE WorkerWrites({"routing"}, [job EXCEPT !.status = "running"], Wrote("next"))
    /\ UNCHANGED <<kind, scan, cancel, remote, yeses, spent>>

\* _finish_ticket_split, _finish_ticket_merge
Finishes(j) ==
    /\ WorkerWrites({"routing", "running"},
                    [j EXCEPT !.status = "completed", !.op = "created", !.owned = FALSE], Off)
    /\ UNCHANGED <<kind, scan, cancel, remote, yeses, spent>>

\* The part is written.  A split's parent ends the job in the same update
PartDone(p) ==
    IF ~Merge /\ p = job.lead THEN Finishes(SetPart(p, "created", "created"))
    ELSE /\ WorkerWrites({"running"}, SetPart(p, "created", "planned"), Wrote("next"))
         /\ UNCHANGED <<kind, scan, cancel, remote, yeses, spent>>

\* _queue_split_ambiguous, _queue_merge_ambiguous
QueuesAmbiguous(p) ==
    /\ WorkerWrites({"routing", "running"},
                    [SetPart(p, "ambiguous", "ambiguous") EXCEPT
                        !.status = "queued", !.reconcile = TRUE, !.owned = FALSE], Off)
    /\ UNCHANGED <<kind, scan, cancel, remote, yeses>>

\* _queue_split_retry, _queue_merge_retry
QueuesRetry(p) ==
    /\ WorkerWrites({"routing", "running"},
                    [SetPart(p, "planned", "planned") EXCEPT !.status = "queued",
                                                             !.owned = FALSE], Off)
    /\ UNCHANGED <<kind, scan, cancel, remote, yeses, spent>>

\* A part found in doubt is looked for, and never submitted again
Observes(p) ==
    /\ At("next") /\ Passes /\ job.part[p] \in {"submitted", "ambiguous"}
    /\ \/ Seen(p) /\ PartDone(p)
       \/ ~Seen(p) /\ QueuesAmbiguous(p) /\ UNCHANGED spent
       \/ Errs /\ QueuesAmbiguous(p)

\* A GitHub part is submitted as soon as the job says so.  A Linear child or closing is
\* marked ahead of the operation, a Linear lead not at all
Marks(p) == IF ~Linear THEN SetPart(p, "submitted", "submitted")
            ELSE IF p = job.lead THEN SetPart(p, "planned", "planned")
            ELSE SetPart(p, "submitted", "planned")

\* A part handed to the user, met again once the lead was found, is marked like a planned one
MarksPart(p) ==
    /\ At("next") /\ job.part[p] \in {"planned", "manual_required"}
    /\ WorkerWrites({"running"}, Marks(p), Wrote("marked"))
    /\ UNCHANGED <<kind, scan, cancel, remote, yeses, spent>>

Sends(p) ==
    /\ remote' = [remote EXCEPT !.inflight = p, !.sent = job.plan]
    /\ wk' = Go("out")
    /\ UNCHANGED <<kind, job, scan, cancel, yeses, spent>>

\* persist_submit_fence, the prompt, persist_prompt_acceptance
Prompts(p) ==
    \/ /\ At("marked")
       /\ WorkerWrites({"running"}, [job EXCEPT !.op = "submitting"], Wrote("fenced"))
       /\ UNCHANGED <<kind, scan, cancel, remote, yeses, spent>>
    \/ At("fenced") /\ Sends(p)
    \/ /\ At("out") /\ job.op = "submitting"
       /\ WorkerWrites({"running"}, [job EXCEPT !.op = "submitted"], Wrote("out"))
       /\ UNCHANGED <<kind, scan, cancel, remote, yeses, spent>>

\* Mutant: any error counts as a command that never ran.
AnyError == {"failed", "nostart"}

\* GitHubCommandStartError; a LinearError that is not ambiguous, before the fence
NeverSent == {"nostart"}

ConcludesGitHub(p) ==
    \/ At("answered") /\ PartDone(p)
    \/ /\ wk.pc \in {"failed", "nostart"} /\ Passes
       /\ \/ Seen(p) /\ PartDone(p)
          \/ ~Seen(p) /\ wk.pc \in NeverSent /\ QueuesRetry(p)
          \/ ~Seen(p) /\ wk.pc \notin NeverSent /\ QueuesAmbiguous(p) /\ UNCHANGED spent
          \/ wk.pc \notin NeverSent /\ Errs /\ QueuesAmbiguous(p)

\* The ticket is looked for in the router, once it is idle.  A survivor that is found must
\* also have been accepted
ConcludesLinear(p) ==
    \/ wk.pc \in NeverSent /\ Passes /\ QueuesRetry(p)
    \/ /\ wk.pc \in {"answered", "failed"} /\ Passes
       /\ \/ /\ remote.inflight = 0 /\ Seen(p)
             /\ At("answered") \/ (Merge /\ p = 1) => job.op = "submitted"
             /\ PartDone(p)
          \/ /\ remote.inflight = 0
             /\ ~Seen(p) \/ (Merge /\ p = 1 /\ job.op # "submitted")
             /\ QueuesAmbiguous(p) /\ UNCHANGED spent
          \/ Errs /\ QueuesAmbiguous(p)

\* One turn of a loop
Writes(k, lead) ==
    /\ kind = k /\ Cur # 0 /\ (Cur = job.lead) = lead
    /\ \/ Observes(Cur) \/ MarksPart(Cur)
       \/ ~Linear /\ At("marked") /\ Sends(Cur)
       \/ Linear /\ Prompts(Cur)
       \/ ~Linear /\ ConcludesGitHub(Cur)
       \/ Linear /\ ConcludesLinear(Cur)

GitHubSplitChild == Writes("github_split", FALSE)
GitHubSplitParent == Writes("github_split", TRUE)
LinearSplitChild == Writes("linear_split", FALSE)
LinearSplitParent == Writes("linear_split", TRUE)
GitHubMergeSurvivor == Writes("github_merge", TRUE)
GitHubMergeClosing == Writes("github_merge", FALSE)
LinearMergeSurvivor == Writes("linear_merge", TRUE)
LinearMergeClosing == Writes("linear_merge", FALSE)

\* Every part was written before
Ends == At("next") /\ Cur = 0 /\ Finishes(job)

\* The command cannot be started; the router is not there
CannotStart == /\ At("marked")
               /\ Errs
               /\ wk' = Go("nostart")
               /\ UNCHANGED <<kind, job, scan, cancel, remote, yeses>>

\* LinearOperationAmbiguous: the router changed, or Herdr failed around the prompt
PromptFails == /\ Linear /\ wk.pc \in {"marked", "fenced"}
               /\ Errs
               /\ wk' = Go("failed")
               /\ UNCHANGED <<kind, job, scan, cancel, remote, yeses>>

Hears == /\ At("out") /\ remote.inflight = 0
         /\ Linear => job.op # "submitting"
         /\ wk' = Go(IF Cur # 0 /\ Seen(Cur) THEN "answered" ELSE "failed")
         /\ UNCHANGED <<kind, job, scan, cancel, remote, yeses, spent>>

LosesAnswer == /\ At("out")
               /\ Errs
               /\ wk' = Go("failed")
               /\ UNCHANGED <<kind, job, scan, cancel, remote, yeses>>

(***************************************************************************)
(* The provider and the others who use it.                                 *)
(***************************************************************************)

\* A request takes effect.  The tickets of a merge then differ from the snapshots
Apply ==
    LET p == remote.inflight IN
    /\ p # 0
    /\ remote' = [remote EXCEPT !.inflight = 0, !.writes[p] = @ + 1,
                                !.drift = Merge,
                                !.holds = IF Merge /\ p = 1 THEN remote.sent ELSE @]
    /\ UNCHANGED <<kind, job, wk, scan, cancel, yeses, spent>>

Refuse == /\ remote.inflight # 0
          /\ remote' = [remote EXCEPT !.inflight = 0]
          /\ UNCHANGED <<kind, job, wk, scan, cancel, yeses, spent>>

\* Someone edits a ticket that is being merged
OutsideEdit ==
    /\ Merge /\ job.op # "none" /\ spent.edits < MaxEdits
    /\ spent' = [spent EXCEPT !.edits = @ + 1]
    /\ \E h \in {0, remote.holds} : remote' = [remote EXCEPT !.drift = TRUE, !.holds = h]
    /\ UNCHANGED <<kind, job, wk, scan, cancel, yeses>>

(***************************************************************************)
(* The daemon's scan: recover_jobs reconciles, then recovers.              *)
(***************************************************************************)

Doubt == {"submitting", "submitted", "ambiguous"}

\* has_uncertain_operation
Uncertain == job.op \in Doubt \/ (job.lead # 0 /\ job.part[job.lead] \in Doubt)

ScanTo(l) == scan' = [scan EXCEPT !.pc = l]

\* Mutant: only the lead part is looked for.
LooksForLead == IF job.lead # 0 /\ job.part[job.lead] \in Doubt THEN job.lead ELSE 0

Others == {p \in Parts \ {job.lead} : job.part[p] \in Doubt}

\* The part to look for: the first child or closing in doubt, else the lead
InFlight == IF Others # {} THEN Min(Others)
            ELSE IF job.lead # 0 /\ job.part[job.lead] \in Doubt THEN job.lead
            ELSE 0

\* A lead whose state does not show the doubt is not looked for
ScanStart ==
    /\ scan.pc = "idle"
    /\ scan' = [scan EXCEPT !.pc = IF Uncertain /\ InFlight # 0 THEN "reconcile"
                                                                ELSE "recover",
                            !.part = InFlight]
    /\ UNCHANGED <<kind, job, wk, cancel, remote, yeses, spent>>

\* The provider is asked; Linear's router must be free.  An error ends the reconciliation
Looks ==
    /\ scan.pc = "reconcile"
    /\ \/ /\ Linear => remote.inflight = 0 /\ wk.pc \notin {"fenced", "out"}
          /\ scan' = [scan EXCEPT !.pc = "settle", !.visible = Seen(scan.part)]
          /\ UNCHANGED spent
       \/ Errs /\ ScanTo("recover")
    /\ UNCHANGED <<kind, job, wk, cancel, remote, yeses>>

\* The same part is still in doubt
StillInDoubt == InFlight = scan.part

Manual(p) == [SetPart(p, "manual_required", "manual_required") EXCEPT
                 !.status = IF @ \in Terminal THEN @ ELSE "blocked",
                 !.reconcile = FALSE, !.owned = FALSE]

\* Mutant: a split is done when its children are.
ForgetsParent(j) == \E p \in Parts \ {j.lead} : j.part[p] = "planned"

\* remaining, parent_pending
Pending(j) == \/ \E p \in Parts \ {j.lead} : j.part[p] = "planned"
              \/ ~Merge /\ j.lead # 0 /\ j.part[j.lead] # "created"

\* The rest is queued for another worker, or the job is complete.  A terminal job cannot be
\* queued: the update raises
Found(p) ==
    LET j == [SetPart(p, "created", "planned") EXCEPT !.reconcile = FALSE, !.owned = FALSE] IN
    IF Pending(j) THEN [j EXCEPT !.status = "queued"]
    ELSE [j EXCEPT !.status = IF @ \in Terminal THEN @ ELSE "completed", !.op = "created"]

Illegal(j) == \/ job.intent # "none" /\ j.status # job.status
              \/ job.status \in Terminal /\ j.status = "queued"

Settles ==
    LET j == IF scan.visible THEN Found(scan.part) ELSE Manual(scan.part) IN
    /\ scan.pc = "settle"
    /\ IF ~StillInDoubt THEN ScanTo("recover") /\ UNCHANGED <<job, wk>>
       ELSE IF Illegal(j) THEN ScanTo("idle") /\ UNCHANGED <<job, wk>>
       ELSE /\ ScanTo("recover")
            /\ job' = j
            /\ wk' = IF scan.visible THEN Off ELSE [wk EXCEPT !.clean = FALSE]
    /\ UNCHANGED <<kind, cancel, remote, yeses, spent>>

ReconcileSplit == kind \in Splits /\ (Looks \/ Settles)
ReconcileMerge == kind \in Merges /\ (Looks \/ Settles)

\* A staged outcome is released once no worker is left; an abandoned job starts again,
\* unless its operation is uncertain
Abandoned == At("off") /\ job.status \in {"queued"} \cup Working

Recover ==
    /\ scan.pc = "recover"
    /\ ScanTo("idle")
    /\ \/ /\ job.intent = "cancelled" \/ (job.intent = "failed" /\ At("off"))
          /\ job' = Materialized
          /\ wk' = Off
       \/ /\ job.intent = "none" /\ ~Uncertain /\ Abandoned
          /\ job' = Launched([job EXCEPT !.reconcile = @ /\ job.status = "queued"])
          /\ wk' = [Off EXCEPT !.pc = "launched"]
       \/ /\ IF job.intent = "none" THEN Uncertain \/ ~Abandoned
                                    ELSE job.intent = "failed" /\ ~At("off")
          /\ UNCHANGED <<job, wk>>
    /\ UNCHANGED <<kind, cancel, remote, yeses, spent>>

(***************************************************************************)
(* Cancelling, and crashes.                                                *)
(***************************************************************************)

CancelStage ==
    /\ cancel = "idle" /\ spent.cancels < MaxCancels
    /\ job.status \in Active /\ job.intent = "none"
    /\ job' = Staged("cancelled")
    /\ wk' = [wk EXCEPT !.clean = FALSE]
    /\ cancel' = "stop"
    /\ spent' = [spent EXCEPT !.cancels = @ + 1]
    /\ UNCHANGED <<kind, scan, remote, yeses>>

CancelStop ==
    /\ cancel = "stop"
    /\ wk' = Off
    /\ cancel' = "release"
    /\ UNCHANGED <<kind, job, scan, remote, yeses, spent>>

\* Mutant: the release does not ask whether the intent is still there.
CancelReleasesAnyway ==
    /\ cancel = "release"
    /\ job' = Materialized
    /\ cancel' = "idle"
    /\ UNCHANGED <<kind, wk, scan, remote, yeses, spent>>

\* cancel_target_and_release, unless the scan has taken the release over
CancelRelease ==
    /\ cancel = "release"
    /\ job' = IF job.intent = "cancelled" THEN Materialized ELSE job
    /\ cancel' = "idle"
    /\ UNCHANGED <<kind, wk, scan, remote, yeses, spent>>

WorkerCrash == /\ ~At("off")
               /\ Crashes
               /\ wk' = Off
               /\ UNCHANGED <<kind, job, scan, cancel, remote, yeses>>

CancellerCrash == /\ cancel # "idle"
                  /\ Crashes
                  /\ cancel' = "idle"
                  /\ UNCHANGED <<kind, job, wk, scan, remote, yeses>>

(***************************************************************************)
(* The specification.                                                      *)
(***************************************************************************)

Worker == \/ Begin \/ Leaves \/ WorkerRelease
          \/ ResolveSplitTicket \/ ResolveMergeTickets \/ TicketMissing \/ DraftFails
          \/ PlanGitHubSplit \/ PlanLinearSplit \/ PlanGitHubMerge \/ PlanLinearMerge
          \/ AskConfirmation \/ MarkRunning \/ Ends
          \/ GitHubSplitChild \/ GitHubSplitParent \/ LinearSplitChild \/ LinearSplitParent
          \/ GitHubMergeSurvivor \/ GitHubMergeClosing
          \/ LinearMergeSurvivor \/ LinearMergeClosing
          \/ CannotStart \/ PromptFails \/ Hears \/ LosesAnswer

Scan == ScanStart \/ ReconcileSplit \/ ReconcileMerge \/ Recover
User == \/ AnswerGitHubSplit \/ AnswerLinearSplit \/ AnswerGitHubMerge \/ AnswerLinearMerge
        \/ CancelStage
Canceller == CancelStop \/ CancelRelease
Provider == Apply \/ Refuse

Next == Worker \/ Scan \/ User \/ Canceller \/ Provider
        \/ OutsideEdit \/ WorkerCrash \/ CancellerCrash

Spec == Init /\ [][Next]_vars

\* Processes that live make progress, the daemon keeps scanning, and a request in flight
\* is acted on or lost.
FairSpec == /\ Spec
            /\ WF_vars(Worker) /\ WF_vars(Scan) /\ WF_vars(Canceller) /\ WF_vars(Provider)

(***************************************************************************)
(* Properties.                                                             *)
(***************************************************************************)

\* No part is written twice, however often workers die and the job is taken up again (the
\* survivor of a merge, drafted again when the tickets changed, at most once per confirmation
\* the user gave), and the parts keep their order across crashes, retries and reconciliation:
\* the parent is not closed before every child exists, and no duplicate is closed before the
\* survivor carries its content.
PartsOnceInOrder ==
    /\ \A p \in Parts :
           remote.writes[p] + (IF remote.inflight = p THEN 1 ELSE 0)
               <= IF Merge /\ p = 1 THEN yeses.count ELSE 1
    /\ \A p, q \in Parts :
           p < q /\ (remote.inflight = q \/ remote.writes[q] > 0) => remote.writes[p] > 0

\* A part recorded as created was written, and an operation reported as created leaves no
\* part planned or in doubt.  A closing handed to the user stays so beside it: a merge whose
\* survivor is found later completes with it.
ReportedTruthfully ==
    /\ \A p \in Parts : job.part[p] = "created" => remote.writes[p] > 0
    /\ job.op = "created" =>
          \A p \in Parts : job.part[p] = "created"
                            \/ (Merge /\ p # 1 /\ job.part[p] = "manual_required")

\* What leaves for the provider is the plan the user said yes to last: a draft made again
\* because the tickets changed is not written on the strength of an earlier answer.
WrittenAsConfirmed ==
    [][remote'.inflight # 0 /\ remote.inflight = 0 => remote'.sent = yeses.plan]_vars

\* A composite write that is in doubt is in the end settled, part by part, unless the job
\* is being terminated or was, or its Linear lead was the part in flight.
DoubtSettles ==
    job.op \in {"submitted", "ambiguous"} ~>
        \/ job.op \notin {"submitted", "ambiguous"}
        \/ job.intent # "none" \/ job.status \in Terminal
        \/ Linear /\ job.lead # 0 /\ job.part[job.lead] = "planned"
=============================================================================
