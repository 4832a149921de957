--------------------------- MODULE ConfirmedWrite ---------------------------
(***************************************************************************)
(* A job that writes to GitHub or Linear on the user's behalf: the worker  *)
(* functions _run_github_* and _run_linear_* of cursor/provisioning.py,    *)
(* the confirmation answers of cursor/questions.py, cancel_job, and the    *)
(* reconcile_uncertain_* functions and the scan of cursor/recovery.py.     *)
(*                                                                         *)
(* A worker drafts the write, asks for a confirmation and leaves; the      *)
(* answer queues the job again, and the next worker records that it is     *)
(* about to submit, submits once, and records the outcome.  Any process    *)
(* may die between two updates of the job store, the provider may act on a *)
(* request whose answer is lost, others edit the same ticket, and the      *)
(* daemon's scan reconciles every job whose write may have happened.       *)
(*                                                                         *)
(* Every update of the store is one action, and so is every exchange with  *)
(* the provider.  Contents are versions: world counts the changes others   *)
(* made to the thing written (the ticket, the checkout, the pull request;  *)
(* for a new repository, the names already taken), and a plan remembers    *)
(* the version it was made from.  The job's revision is kept as two facts  *)
(* about the worker: nothing was written since its last update (fresh),    *)
(* and nothing since it claimed the job (clean).                           *)
(***************************************************************************)
EXTENDS Naturals

CONSTANTS
    Kinds,       \* the kinds of write under study
    MaxEdits,    \* bound on changes made by others
    MaxErrors,   \* bound on failed or unanswered provider calls
    MaxCrashes,  \* bound on processes that die
    MaxCancels   \* bound on cancellations

GitHubKinds == {"issue_create", "pr_create", "pr_merge", "repo_create", "issue_update",
                "issue_close"}
LinearKinds == {"linear_create", "linear_update", "linear_close"}

ASSUME WriteConstants ==
    /\ Kinds \subseteq GitHubKinds \cup LinearKinds
    /\ MaxEdits \in Nat /\ MaxErrors \in Nat /\ MaxCrashes \in Nat /\ MaxCancels \in Nat

VARIABLES
    kind,     \* what the job writes
    job,      \* the fields of the job that the write uses
    wk,       \* the worker process
    scan,     \* the daemon's recover_jobs
    cancel,   \* the process that runs cancel_job
    remote,   \* the provider: requests in flight and what was written
    heard,    \* the version of the plan the user last said yes to; 0 for none
    spent     \* how much of each bound is used up

vars == <<kind, job, wk, scan, cancel, remote, heard, spent>>

Linear == kind \in LinearKinds
Active == {"queued", "routing", "running", "reconciling", "awaiting", "blocked"}
Terminal == {"completed", "failed", "cancelled"}
Working == {"routing", "running", "reconciling"}
Ops == {"none", "planned", "submitting", "submitted", "ambiguous", "remote_created",
        "created", "manual_required"}
Settled == {"created", "manual_required"}
Versions == 0..(MaxEdits + 1)
Pcs == {"off", "launched", "start", "ready", "marked", "fenced", "out", "answered",
        "failed", "nostart", "clone", "refused", "release"}

TypeOK ==
    /\ kind \in Kinds
    /\ job \in [status : Active \cup Terminal, op : Ops, known : BOOLEAN,
                resolved : BOOLEAN, confirmed : BOOLEAN, base : Versions,
                owned : BOOLEAN, reconcile : BOOLEAN, intent : {"none", "failed", "cancelled"}]
    /\ wk \in [pc : Pcs, base : Versions, fresh : BOOLEAN, clean : BOOLEAN]
    /\ scan \in [pc : {"idle", "reconcile", "settle", "clone", "recover"},
                 visible : BOOLEAN]
    /\ cancel \in {"idle", "stop", "release"}
    /\ remote \in [world : Versions, inflight : BOOLEAN, sent : Versions, applied : 0..2]
    /\ heard \in Versions
    /\ spent \in [edits : 0..MaxEdits, errors : 0..MaxErrors, crashes : 0..MaxCrashes,
                  cancels : 0..MaxCancels]

Off == [pc |-> "off", base |-> 0, fresh |-> FALSE, clean |-> FALSE]

Init ==
    /\ kind \in Kinds
    /\ \E k, r \in BOOLEAN :
         /\ ~k => kind \in {"issue_create", "pr_merge", "repo_create", "linear_create"}
         /\ IF r THEN ~Linear ELSE Linear \/ (kind = "pr_merge" /\ k)
         /\ job = [status |-> "queued", op |-> "none", known |-> k, resolved |-> r,
                   confirmed |-> FALSE, base |-> 0, owned |-> FALSE, reconcile |-> FALSE, intent |-> "none"]
    /\ wk = Off
    /\ scan = [pc |-> "idle", visible |-> FALSE]
    /\ cancel = "idle"
    /\ remote = [world |-> 1, inflight |-> FALSE, sent |-> 0, applied |-> 0]
    /\ heard = 0
    /\ spent = [edits |-> 0, errors |-> 0, crashes |-> 0, cancels |-> 0]

Errs == /\ spent.errors < MaxErrors
        /\ spent' = [spent EXCEPT !.errors = @ + 1]
Crashes == /\ spent.crashes < MaxCrashes
           /\ spent' = [spent EXCEPT !.crashes = @ + 1]
ChangedByOthers == remote.world # job.base
Written == remote.applied > 0

(***************************************************************************)
(* What the provider shows of a write: a creation, a closing or a merge by *)
(* its marker, a rewrite by the content it left, unless edited since.      *)
(***************************************************************************)

Marked(k) == kind = k /\ Written
Unedited(k) == kind = k /\ Written /\ remote.world = remote.sent

SeesIssue == Marked("issue_create")
SeesPullRequest == Marked("pr_create")
SeesMerge == Marked("pr_merge")
SeesRepository == Marked("repo_create")
SeesIssueUpdate == Unedited("issue_update")
SeesIssueClose == Marked("issue_close")
SeesTicket == Marked("linear_create")
SeesTicketUpdate == Unedited("linear_update")
SeesTicketClose == Marked("linear_close")

Seen == \/ SeesIssue \/ SeesPullRequest \/ SeesMerge \/ SeesRepository \/ SeesIssueUpdate
        \/ SeesIssueClose \/ SeesTicket \/ SeesTicketUpdate \/ SeesTicketClose

(***************************************************************************)
(* The worker and the store.                                               *)
(***************************************************************************)

At(l) == wk.pc = l
Go(l) == [wk EXCEPT !.pc = l]
Wrote(l) == [wk EXCEPT !.pc = l, !.clean = FALSE]
Stale == [wk EXCEPT !.fresh = FALSE, !.clean = FALSE]

\* _worker_change: owned, at the expected revision, in an allowed status, not terminating
WorkerMay(statuses) == /\ job.owned /\ wk.fresh
                       /\ job.status \in statuses
                       /\ job.intent = "none"

\* A refused update makes every caller return.
WorkerWrites(statuses, j, w) == IF WorkerMay(statuses) THEN job' = j /\ wk' = w
                                                       ELSE job' = job /\ wk' = Off

\* WorkerContext.checkpoint
Passes == job.owned /\ job.status \in Working /\ job.intent = "none"

\* WorkerCancelled ends the worker without another update
Leaves == /\ wk.pc \in {"start", "ready", "marked", "failed", "nostart", "clone"}
                      \cup (IF Linear THEN {"out", "answered"} ELSE {})
                      \cup (IF kind = "pr_create" THEN {"fenced"} ELSE {})
          /\ ~Passes
          /\ wk' = Off
          /\ UNCHANGED <<kind, job, scan, cancel, remote, heard, spent>>

\* launch_worker reserved the job for a new process; begin_worker claims it
Launched(j) == [j EXCEPT !.status = "queued", !.owned = TRUE]
NewWorker == [Off EXCEPT !.pc = "launched"]

Begin ==
    /\ At("launched")
    /\ IF job.owned /\ job.status = "queued"
       THEN /\ job' = [job EXCEPT !.status = IF job.reconcile THEN "reconciling"
                                                              ELSE "routing"]
            /\ wk' = [pc |-> "start", base |-> 0, fresh |-> TRUE, clean |-> TRUE]
       ELSE job' = job /\ wk' = Off
    /\ UNCHANGED <<kind, scan, cancel, remote, heard, spent>>

\* persist_launch_failure: the process could not be started
LaunchFails ==
    /\ At("launched")
    /\ Errs
    /\ job' = IF job.owned /\ job.status = "queued"
              THEN [job EXCEPT !.status = "failed", !.owned = FALSE] ELSE job
    /\ wk' = Off
    /\ UNCHANGED <<kind, scan, cancel, remote, heard>>

\* _worker_fail stages the outcome; run_claimed_worker releases it on the way out
Staged(s) == [job EXCEPT !.status = "reconciling", !.intent = s]
Materialized == [job EXCEPT !.status = job.intent, !.intent = "none", !.owned = FALSE]

WorkerRelease ==
    /\ At("release")
    /\ job' = IF job.intent = "failed" THEN Materialized ELSE job
    /\ wk' = Off
    /\ UNCHANGED <<kind, scan, cancel, remote, heard, spent>>

(***************************************************************************)
(* Drafting and confirming.                                                *)
(***************************************************************************)

Drafts(confirmed) ==
    /\ WorkerWrites({"routing"},
                    [job EXCEPT !.op = "planned", !.base = remote.world,
                                !.confirmed = confirmed],
                    Wrote("ready"))
    /\ UNCHANGED <<kind, scan, cancel, remote, heard, spent>>

\* _worker_question: the job waits for the user and the worker is gone
Asks(j) ==
    /\ WorkerWrites({"routing", "running"},
                    [j EXCEPT !.status = "awaiting", !.owned = FALSE, !.reconcile = FALSE],
                    Off)
    /\ UNCHANGED <<kind, scan, cancel, remote, heard, spent>>

\* The plan is already in the job
Resumes == /\ wk' = Go("ready")
           /\ UNCHANGED <<kind, job, scan, cancel, remote, heard, spent>>

AtStart(k) == kind = k /\ At("start") /\ Passes

\* The target of the write is not known yet: a repository, a team, a pull request, a name
AsksIdentity(k) == AtStart(k) /\ ~job.known /\ Asks(job)

\* persist_team, persist_issue, persist_identity: the target, looked up by what was said
ResolveTarget ==
    /\ At("start") /\ Passes /\ job.known /\ ~job.resolved
    /\ WorkerWrites({"routing"}, [job EXCEPT !.resolved = TRUE], Wrote("start"))
    /\ UNCHANGED <<kind, scan, cancel, remote, heard, spent>>

\* A provider call or a draft fails before the submission.  The failure carries the
\* revision the worker claimed, and is refused once the worker has written
PlanFails ==
    /\ Passes
    /\ At("start") \/ (At("ready") /\ job.confirmed
                         /\ kind \in {"issue_update", "linear_update", "pr_merge"})
    /\ Errs
    /\ IF wk.clean THEN WorkerWrites(Working, Staged("failed"), Wrote("release"))
                   ELSE job' = job /\ wk' = Off
    /\ UNCHANGED <<kind, scan, cancel, remote, heard>>

PlansOnce(k) == /\ AtStart(k) /\ job.known /\ job.resolved
                /\ IF job.base = 0 THEN Drafts(FALSE) ELSE Resumes

PlanIssueCreation == AsksIdentity("issue_create") \/ PlansOnce("issue_create")
PlanLinearTicketCreation == AsksIdentity("linear_create") \/ PlansOnce("linear_create")
PlanIssueClose == PlansOnce("issue_close")
PlanLinearTicketClose == PlansOnce("linear_close")
PlanPullRequestMerge == AsksIdentity("pr_merge") \/ PlansOnce("pr_merge")

\* Mutant: a plan made from an older version keeps its confirmation.
PlansFreshKeepingConfirmation(k) ==
    /\ AtStart(k) /\ job.resolved
    /\ IF ChangedByOthers THEN Drafts(job.confirmed) ELSE Resumes

\* _snapshot_is_current: a plan made from an older version is rebased and must be
\* confirmed again
PlansFresh(k) ==
    /\ AtStart(k) /\ job.resolved
    /\ IF ChangedByOthers THEN Drafts(FALSE) ELSE Resumes

PlanIssueUpdate == PlansFresh("issue_update")
PlanLinearTicketUpdate == PlansFresh("linear_update")

\* The checkout is compared with the plan only when the plan was confirmed
PlanPullRequestCreation ==
    /\ AtStart("pr_create")
    /\ IF job.base = 0 \/ (job.confirmed /\ ChangedByOthers) THEN Drafts(FALSE) ELSE Resumes

\* _complete_github_repo_creation_without_write: a checkout or an organization cannot be
\* verified, and the job completes by way of running
RefuseWrite ==
    \/ /\ kind \in {"pr_create", "repo_create"} /\ At("start") /\ Passes
       /\ Errs
       /\ WorkerWrites({"routing"}, [job EXCEPT !.status = "running"], Wrote("refused"))
       /\ UNCHANGED <<kind, scan, cancel, remote, heard>>
    \/ /\ At("refused")
       /\ WorkerWrites({"running"}, [job EXCEPT !.status = "completed", !.owned = FALSE], Off)
       /\ UNCHANGED <<kind, scan, cancel, remote, heard, spent>>

\* _record_github_repo_remote_created
Records ==
    /\ WorkerWrites({"routing", "running"}, [job EXCEPT !.op = "remote_created"],
                    Wrote("clone"))
    /\ UNCHANGED <<kind, scan, cancel, remote, heard, spent>>

\* _ask_other_repo_create_name
AsksOtherName == Asks([job EXCEPT !.known = FALSE, !.confirmed = FALSE, !.base = 0,
                                  !.op = "none"])

\* A name that exists is the job's own repository or calls for another name
PlanRepoCreation ==
    \/ AsksIdentity("repo_create")
    \/ AtStart("repo_create") /\ job.known
       /\ IF job.base = 0 THEN Drafts(FALSE)
          ELSE IF job.confirmed /\ Seen THEN Records
          ELSE IF job.confirmed /\ ChangedByOthers THEN AsksOtherName
          ELSE Resumes

\* The preview of the plan, read back for a yes or no
AskConfirmation == At("ready") /\ ~job.confirmed /\ Asks(job)

\* _queue_answer with the confirmation set, and launch_worker
AnswerYes(k) ==
    /\ kind = k /\ job.status = "awaiting" /\ job.known /\ At("off")
    /\ job' = Launched([job EXCEPT !.confirmed = TRUE])
    /\ wk' = NewWorker
    /\ heard' = job.base
    /\ UNCHANGED <<kind, scan, cancel, remote, spent>>

\* The plan was rejected: the job is complete without a write
AnswerNo(k) ==
    /\ kind = k /\ job.status = "awaiting" /\ job.known
    /\ job' = [job EXCEPT !.status = "completed"]
    /\ heard' = 0
    /\ UNCHANGED <<kind, wk, scan, cancel, remote, spent>>

AnswerIssueCreation == AnswerYes("issue_create") \/ AnswerNo("issue_create")
AnswerPullRequestCreation == AnswerYes("pr_create") \/ AnswerNo("pr_create")
AnswerPullRequestMerge == AnswerYes("pr_merge") \/ AnswerNo("pr_merge")
AnswerRepoCreation == AnswerYes("repo_create") \/ AnswerNo("repo_create")
AnswerLinearTicketCreation == AnswerYes("linear_create") \/ AnswerNo("linear_create")
AnswerIssueUpdate == AnswerYes("issue_update") \/ AnswerNo("issue_update")
AnswerLinearTicketUpdate == AnswerYes("linear_update") \/ AnswerNo("linear_update")
AnswerIssueClose == AnswerYes("issue_close") \/ AnswerNo("issue_close")
AnswerLinearTicketClose == AnswerYes("linear_close") \/ AnswerNo("linear_close")

AnswerIdentity ==
    /\ job.status = "awaiting" /\ ~job.known /\ At("off")
    /\ job' = Launched([job EXCEPT !.known = TRUE])
    /\ wk' = NewWorker
    /\ UNCHANGED <<kind, scan, cancel, remote, heard, spent>>

(***************************************************************************)
(* Submitting.  A checkpoint that passed says nothing about the moment the *)
(* request leaves: between the two the job may be cancelled or reconciled. *)
(***************************************************************************)

Confirmed(k) == kind = k /\ At("ready") /\ job.confirmed /\ job.op = "planned"
AtMark(k) == kind = k /\ At("marked")
Planned == [wk EXCEPT !.pc = "marked", !.base = job.base, !.clean = FALSE]

\* Mutant: the job only says it is running while the request is out.
MarksOnlyRunning == /\ WorkerWrites({"routing"}, [job EXCEPT !.status = "running"], Planned)
                    /\ UNCHANGED <<kind, scan, cancel, remote, heard, spent>>

\* mark_submitted
MarksSubmitted ==
    /\ WorkerWrites({"routing"}, [job EXCEPT !.status = "running", !.op = "submitted"],
                    Planned)
    /\ UNCHANGED <<kind, scan, cancel, remote, heard, spent>>

\* The gh command leaves with the given version of the plan
Sends(v) == /\ remote' = [remote EXCEPT !.inflight = TRUE, !.sent = v]
            /\ wk' = Go("out")
            /\ UNCHANGED <<kind, job, scan, cancel, heard, spent>>

SubmitIssueCreation == \/ Confirmed("issue_create") /\ MarksSubmitted
                       \/ AtMark("issue_create") /\ Sends(wk.base)

SubmitIssueClose == \/ Confirmed("issue_close") /\ MarksSubmitted
                    \/ AtMark("issue_close") /\ Sends(wk.base)

SubmitRepoCreation == \/ Confirmed("repo_create") /\ MarksSubmitted
                      \/ AtMark("repo_create") /\ Sends(wk.base)

\* The ticket is read once more; a change calls for another confirmation
SubmitIssueUpdate == \/ /\ Confirmed("issue_update")
                        /\ IF ChangedByOthers THEN Drafts(FALSE) ELSE MarksSubmitted
                     \/ AtMark("issue_update") /\ Sends(wk.base)

\* The branch is committed, its head recorded as it is by then, and that head pushed
SubmitPullRequestCreation ==
    \/ Confirmed("pr_create") /\ MarksSubmitted
    \/ /\ AtMark("pr_create")
       /\ WorkerWrites({"running"}, job, [Wrote("fenced") EXCEPT !.base = remote.world])
       /\ UNCHANGED <<kind, scan, cancel, remote, heard, spent>>
    \/ kind = "pr_create" /\ At("fenced") /\ Sends(wk.base)

\* commit_unpublished_changes or push_current_branch fails: nothing was submitted, but
\* the branch may be published
PushFails == /\ kind = "pr_create" /\ wk.pc \in {"marked", "fenced"}
             /\ Errs
             /\ wk' = Go("failed")
             /\ UNCHANGED <<kind, job, scan, cancel, remote, heard>>

\* confirm_pull_request_merge_state.  Refused from routing, the job may not complete: the
\* exception fails it.  Refused later, it completes without a write.
SubmitPullRequestMerge ==
    \/ /\ Confirmed("pr_merge")
       /\ IF ~ChangedByOthers THEN MarksSubmitted
          ELSE /\ IF wk.clean
                  THEN WorkerWrites(Working, Staged("failed"), Wrote("release"))
                  ELSE job' = job /\ wk' = Off
               /\ UNCHANGED <<kind, scan, cancel, remote, heard, spent>>
    \/ /\ AtMark("pr_merge")
       /\ IF ~ChangedByOthers THEN Sends(wk.base)
          ELSE /\ WorkerWrites({"routing", "running"},
                               [job EXCEPT !.status = "completed", !.op = "planned",
                                           !.confirmed = FALSE, !.owned = FALSE], Off)
               /\ UNCHANGED <<kind, scan, cancel, remote, heard, spent>>

\* GitHubCommandStartError: gh could not be executed
CannotStart == /\ kind \in GitHubKinds
               /\ At(IF kind = "pr_create" THEN "fenced" ELSE "marked")
               /\ Errs
               /\ wk' = Go("nostart")
               /\ UNCHANGED <<kind, job, scan, cancel, remote, heard>>

\* mark_running: the operation stays planned until the router is about to be prompted
MarksRunning == /\ WorkerWrites({"routing"}, [job EXCEPT !.status = "running"], Planned)
                /\ UNCHANGED <<kind, scan, cancel, remote, heard, spent>>

\* The router agent is prompted under its lock: the fence is persisted, the prompt leaves,
\* and its acceptance is persisted
Prompts ==
    \/ /\ At("marked")
       /\ WorkerWrites({"running"}, [job EXCEPT !.op = "submitting"], Wrote("fenced"))
       /\ UNCHANGED <<kind, scan, cancel, remote, heard, spent>>
    \/ At("fenced") /\ Sends(wk.base)
    \/ /\ At("out") /\ job.op = "submitting"
       /\ WorkerWrites({"running"}, [job EXCEPT !.op = "submitted"], Wrote("out"))
       /\ UNCHANGED <<kind, scan, cancel, remote, heard, spent>>

SubmitLinearTicketCreation == \/ Confirmed("linear_create") /\ MarksRunning
                              \/ kind = "linear_create" /\ Prompts

SubmitLinearTicketClose == \/ Confirmed("linear_close") /\ MarksRunning
                           \/ kind = "linear_close" /\ Prompts

SubmitLinearTicketUpdate == \/ /\ Confirmed("linear_update")
                               /\ IF ChangedByOthers THEN Drafts(FALSE) ELSE MarksRunning
                            \/ kind = "linear_update" /\ Prompts

\* LinearError before the fence: nothing was submitted and the job fails
NotSubmitted ==
    /\ Linear /\ At("marked")
    /\ Errs
    /\ WorkerWrites({"running"}, Staged("failed"), Wrote("release"))
    /\ UNCHANGED <<kind, scan, cancel, remote, heard>>

\* LinearOperationAmbiguous: the router changed, or Herdr failed around the prompt
PromptFails == /\ Linear /\ wk.pc \in {"marked", "fenced"}
               /\ Errs
               /\ wk' = Go("failed")
               /\ UNCHANGED <<kind, job, scan, cancel, remote, heard>>

(***************************************************************************)
(* The provider and the others who use it.                                 *)
(***************************************************************************)

\* A request takes effect; a taken name or a moved head is refused
Apply ==
    /\ remote.inflight
    /\ kind \in {"repo_create", "pr_merge"} => remote.sent = remote.world
    /\ remote' = [remote EXCEPT !.inflight = FALSE, !.applied = @ + 1]
    /\ UNCHANGED <<kind, job, wk, scan, cancel, heard, spent>>

Refuse ==
    /\ remote.inflight
    /\ remote' = [remote EXCEPT !.inflight = FALSE]
    /\ UNCHANGED <<kind, job, wk, scan, cancel, heard, spent>>

\* Someone edits the ticket, pushes to the branch or takes the name
OutsideEdit ==
    /\ kind \in {"issue_update", "linear_update", "pr_create", "pr_merge", "repo_create"}
    /\ Written => kind \in {"issue_update", "linear_update"}
    /\ spent.edits < MaxEdits
    /\ remote' = [remote EXCEPT !.world = @ + 1]
    /\ spent' = [spent EXCEPT !.edits = @ + 1]
    /\ UNCHANGED <<kind, job, wk, scan, cancel, heard>>

(***************************************************************************)
(* Concluding.                                                             *)
(***************************************************************************)

\* The call returns when the provider has acted
Hears(k) == /\ kind = k /\ At("out") /\ ~remote.inflight
            /\ Linear => job.op # "submitting"
            /\ wk' = Go(IF Written THEN "answered" ELSE "failed")
            /\ UNCHANGED <<kind, job, scan, cancel, remote, heard, spent>>

HearsIssue == Hears("issue_create")
HearsPullRequest == Hears("pr_create")
HearsMerge == Hears("pr_merge")
HearsRepository == Hears("repo_create")
HearsIssueUpdate == Hears("issue_update")
HearsIssueClose == Hears("issue_close")
HearsTicket == Hears("linear_create")
HearsTicketUpdate == Hears("linear_update")
HearsTicketClose == Hears("linear_close")

\* A timeout, a malformed answer, a lost connection
LosesAnswer == /\ At("out")
               /\ Linear => job.op # "submitting"
               /\ Errs
               /\ wk' = Go("failed")
               /\ UNCHANGED <<kind, job, scan, cancel, remote, heard>>

\* The repository was created and gh cannot be executed again to look at it: the error is
\* the same as when it was never executed
ObservationCannotStart ==
    /\ kind = "repo_create" /\ At("out") /\ ~remote.inflight /\ Written
    /\ Errs
    /\ wk' = Go("nostart")
    /\ UNCHANGED <<kind, job, scan, cancel, remote, heard>>

\* _finish_*
Finishes(k) ==
    /\ kind = k
    /\ WorkerWrites({"routing", "running"},
                    [job EXCEPT !.status = "completed", !.op = "created", !.owned = FALSE],
                    Off)
    /\ UNCHANGED <<kind, scan, cancel, remote, heard, spent>>

FinishIssueCreation == Finishes("issue_create")
FinishPullRequestCreation == Finishes("pr_create")
FinishPullRequestMerge == Finishes("pr_merge")
FinishIssueUpdate == Finishes("issue_update")
FinishIssueClose == Finishes("issue_close")
FinishLinearTicketCreation == Finishes("linear_create")
FinishLinearTicketUpdate == Finishes("linear_update")
FinishLinearTicketClose == Finishes("linear_close")

\* ambiguous, queue_ambiguous
QueuesAmbiguous ==
    /\ WorkerWrites(IF Linear THEN {"running"} ELSE {"routing", "running"},
                    [job EXCEPT !.status = "queued", !.op = "ambiguous",
                                !.reconcile = TRUE, !.owned = FALSE], Off)
    /\ UNCHANGED <<kind, scan, cancel, remote, heard>>

\* Mutant: any error before the answer counts as a command that never ran.
FailsAsNotStarted == wk.pc \in {"failed", "nostart"}

\* isinstance(exc, GitHubCommandStartError)
NeverStarted == At("nostart")

\* retry_after_start_failure
RetriesLater ==
    /\ WorkerWrites({"routing", "running"},
                    [job EXCEPT !.status = "queued", !.op = "planned", !.owned = FALSE], Off)
    /\ UNCHANGED <<kind, scan, cancel, remote, heard>>

\* Nothing can be seen of the write: it may still have happened, unless gh never started
NotFound == IF NeverStarted THEN RetriesLater ELSE QueuesAmbiguous

\* The end of a submission: the answer names the result, or the result is looked for, by
\* an observation that may itself fail
Concludes(k, found) ==
    /\ kind = k
    /\ \/ At("answered") /\ found
       \/ /\ wk.pc \in {"failed", "nostart"} /\ Passes
          /\ \/ Seen /\ found
             \/ ~Seen /\ NotFound /\ UNCHANGED spent
             \/ Errs /\ NotFound

ConcludeIssueCreation == Concludes("issue_create", FinishIssueCreation)
ConcludePullRequestCreation == Concludes("pr_create", FinishPullRequestCreation)
ConcludeIssueUpdate == Concludes("issue_update", FinishIssueUpdate)
ConcludeIssueClose == Concludes("issue_close", FinishIssueClose)

\* The merge may also be left to GitHub's queue: someone has to look
ConcludePullRequestMerge ==
    \/ Concludes("pr_merge", FinishPullRequestMerge)
    \/ /\ kind = "pr_merge" /\ At("out") /\ remote.inflight
       /\ WorkerWrites({"routing", "running"},
                       [job EXCEPT !.status = "blocked", !.op = "manual_required",
                                   !.owned = FALSE], Off)
       /\ UNCHANGED <<kind, scan, cancel, remote, heard, spent>>

\* A refused name calls for another one, unless the command was lost
ConcludeRepoCreation ==
    \/ Concludes("repo_create", Records)
    \/ /\ kind = "repo_create" /\ At("failed") /\ Passes
       /\ ~Written /\ ~remote.inflight /\ remote.world # wk.base
       /\ AsksOtherName

\* materialize_repository.  A worker that found the repository from routing may not
\* complete the job: the exception ends it, and its failure is refused as stale.
CloneCreatedRepo ==
    /\ At("clone") /\ Passes
    /\ IF job.status = "routing" THEN job' = job /\ wk' = Off
       ELSE WorkerWrites({"running"}, [job EXCEPT !.status = "completed", !.op = "created",
                                                  !.owned = FALSE], Off)
    /\ UNCHANGED <<kind, scan, cancel, remote, heard, spent>>

CloneFails ==
    /\ At("clone") /\ Passes
    /\ Errs
    /\ WorkerWrites({"routing", "running"},
                    [job EXCEPT !.status = "queued", !.reconcile = TRUE, !.owned = FALSE], Off)
    /\ UNCHANGED <<kind, scan, cancel, remote, heard>>

\* A Linear write is always looked for, in the router, once the router is idle
ConcludesLinear(k, found) ==
    /\ kind = k /\ wk.pc \in {"answered", "failed"} /\ Passes
    /\ \/ ~remote.inflight /\ Seen /\ found
       \/ ~remote.inflight /\ ~Seen /\ QueuesAmbiguous /\ UNCHANGED spent
       \/ Errs /\ QueuesAmbiguous

ConcludeLinearTicketCreation == ConcludesLinear("linear_create", FinishLinearTicketCreation)
ConcludeLinearTicketUpdate == ConcludesLinear("linear_update", FinishLinearTicketUpdate)
ConcludeLinearTicketClose == ConcludesLinear("linear_close", FinishLinearTicketClose)

(***************************************************************************)
(* The daemon's scan: recover_jobs reconciles, then recovers.              *)
(***************************************************************************)

\* Mutant: only an outcome known to be unknown counts.
OnlyAmbiguous == job.op = "ambiguous"

\* has_uncertain_operation
Uncertain == \/ job.op \in {"submitted", "ambiguous"}
             \/ Linear /\ job.op = "submitting"

ScanTo(l) == scan' = [scan EXCEPT !.pc = l]

\* The states a reconciler judges; it does so by the job the scan has read
GitHubDoubt == {"submitting", "submitted", "ambiguous"}
LinearDoubt == {"submitted", "ambiguous"}
Judged == IF Linear THEN LinearDoubt ELSE GitHubDoubt

ScanStart == /\ scan.pc = "idle"
             /\ ScanTo(IF Uncertain /\ job.op \in Judged THEN "reconcile" ELSE "recover")
             /\ UNCHANGED <<kind, job, wk, cancel, remote, heard, spent>>

\* The write is looked for by its marker; Linear's router must be free and idle
RouterFree == Linear => ~remote.inflight /\ wk.pc \notin {"fenced", "out"}

Looks ==
    /\ scan.pc = "reconcile"
    /\ \/ /\ RouterFree
          /\ scan' = [pc |-> "settle", visible |-> Seen]
          /\ UNCHANGED spent
       \/ /\ Errs
          /\ scan' = [pc |-> IF Linear THEN "recover" ELSE "settle", visible |-> FALSE]
    /\ UNCHANGED <<kind, job, wk, cancel, remote, heard>>

\* The operation is still in doubt when the observation is applied
StillInDoubt(states) == job.op \in states

\* evolve_recovery: a terminal status stays
Reconciled(status, op) ==
    [job EXCEPT !.status = IF @ \in Terminal THEN @ ELSE status,
                !.op = op, !.reconcile = FALSE, !.owned = FALSE]

\* A terminal intent allows no other status: the update raises, and with it the scan
ScanWrites(j, next) ==
    IF job.intent # "none" /\ j.status # job.status
    THEN ScanTo("idle") /\ UNCHANGED <<job, wk>>
    ELSE ScanTo(next) /\ job' = j /\ wk' = Stale

Settles(states) ==
    /\ scan.pc = "settle"
    /\ IF StillInDoubt(states)
       THEN ScanWrites(IF scan.visible THEN Reconciled("completed", "created")
                                       ELSE Reconciled("blocked", "manual_required"),
                       "recover")
       ELSE ScanTo("recover") /\ UNCHANGED <<job, wk>>
    /\ UNCHANGED <<kind, cancel, remote, heard, spent>>

Reconciles(k, states) == kind = k /\ (Looks \/ Settles(states))

ReconcileIssueCreation == Reconciles("issue_create", GitHubDoubt)
ReconcilePullRequestCreation == Reconciles("pr_create", GitHubDoubt)
ReconcilePullRequestMerge == Reconciles("pr_merge", GitHubDoubt)
ReconcileIssueUpdate == Reconciles("issue_update", GitHubDoubt)
ReconcileIssueClose == Reconciles("issue_close", GitHubDoubt)
ReconcileLinearTicketCreation == Reconciles("linear_create", LinearDoubt)
ReconcileLinearTicketUpdate == Reconciles("linear_update", LinearDoubt)
ReconcileLinearTicketClose == Reconciles("linear_close", LinearDoubt)

\* A repository that is found is recorded, cloned, and only then reported.  One recorded
\* by its worker while the scan looked in vain still counts as in doubt
RepoDoubt == GitHubDoubt \cup {"remote_created"}

ReconcileRepoCreation ==
    /\ kind = "repo_create"
    /\ \/ Looks
       \/ scan.pc = "settle" /\ ~scan.visible /\ Settles(RepoDoubt)
       \/ /\ scan.pc = "settle" /\ scan.visible
          /\ IF StillInDoubt(RepoDoubt)
             THEN ScanWrites([job EXCEPT !.op = "remote_created"], "clone")
             ELSE ScanTo("recover") /\ UNCHANGED <<job, wk>>
          /\ UNCHANGED <<kind, cancel, remote, heard, spent>>
       \/ /\ scan.pc = "clone"
          /\ IF job.op = "remote_created"
             THEN ScanWrites(Reconciled("completed", "created"), "recover")
             ELSE ScanTo("recover") /\ UNCHANGED <<job, wk>>
          /\ UNCHANGED <<kind, cancel, remote, heard, spent>>
       \/ /\ scan.pc = "clone"
          /\ Errs
          /\ ScanTo("recover")
          /\ UNCHANGED <<kind, job, wk, cancel, remote, heard>>

Abandoned == At("off") /\ job.status \in {"queued"} \cup Working

\* recover leaves a job with an uncertain operation to the reconciliation
LeftAlone == Uncertain

\* A staged outcome is released once no worker is left; an abandoned job starts again
Recover ==
    /\ scan.pc = "recover"
    /\ ScanTo("idle")
    /\ \/ /\ job.intent = "cancelled" \/ (job.intent = "failed" /\ At("off"))
          /\ job' = Materialized
          /\ wk' = Off
       \/ /\ job.intent = "none" /\ ~LeftAlone /\ Abandoned
          /\ job' = Launched([job EXCEPT !.reconcile = @ /\ job.status = "queued"])
          /\ wk' = NewWorker
       \/ /\ IF job.intent = "none" THEN LeftAlone \/ ~Abandoned
                                    ELSE job.intent = "failed" /\ ~At("off")
          /\ UNCHANGED <<job, wk>>
    /\ UNCHANGED <<kind, cancel, remote, heard, spent>>

(***************************************************************************)
(* Cancelling, and crashes.                                                *)
(***************************************************************************)

CancelStage ==
    /\ cancel = "idle" /\ spent.cancels < MaxCancels
    /\ job.status \in Active /\ job.intent = "none"
    /\ job' = Staged("cancelled")
    /\ wk' = Stale
    /\ cancel' = "stop"
    /\ spent' = [spent EXCEPT !.cancels = @ + 1]
    /\ UNCHANGED <<kind, scan, remote, heard>>

\* stop_worker: signalled, and killed if it does not leave
CancelStop ==
    /\ cancel = "stop"
    /\ wk' = Off
    /\ cancel' = "release"
    /\ UNCHANGED <<kind, job, scan, remote, heard, spent>>

\* Mutant: the release does not ask whether the intent is still there.
CancelReleasesAnyway ==
    /\ cancel = "release"
    /\ job' = Materialized
    /\ cancel' = "idle"
    /\ UNCHANGED <<kind, wk, scan, remote, heard, spent>>

\* cancel_target_and_release, unless the scan has taken the release over
CancelRelease ==
    /\ cancel = "release"
    /\ job' = IF job.intent = "cancelled" THEN Materialized ELSE job
    /\ cancel' = "idle"
    /\ UNCHANGED <<kind, wk, scan, remote, heard, spent>>

WorkerCrash == /\ ~At("off")
               /\ Crashes
               /\ wk' = Off
               /\ UNCHANGED <<kind, job, scan, cancel, remote, heard>>

CancellerCrash == /\ cancel # "idle"
                  /\ Crashes
                  /\ cancel' = "idle"
                  /\ UNCHANGED <<kind, job, wk, scan, remote, heard>>

(***************************************************************************)
(* The specification.                                                      *)
(***************************************************************************)

Plan == \/ PlanIssueCreation \/ PlanPullRequestCreation \/ RefuseWrite
        \/ PlanPullRequestMerge \/ PlanRepoCreation \/ PlanLinearTicketCreation
        \/ PlanIssueUpdate \/ PlanLinearTicketUpdate \/ PlanIssueClose
        \/ PlanLinearTicketClose \/ ResolveTarget \/ PlanFails \/ AskConfirmation

Submit == \/ SubmitIssueCreation \/ SubmitPullRequestCreation \/ SubmitPullRequestMerge
          \/ SubmitRepoCreation \/ SubmitLinearTicketCreation \/ SubmitIssueUpdate
          \/ SubmitLinearTicketUpdate \/ SubmitIssueClose \/ SubmitLinearTicketClose
          \/ PushFails \/ CannotStart \/ NotSubmitted \/ PromptFails

Conclude == \/ HearsIssue \/ HearsPullRequest \/ HearsMerge \/ HearsRepository
            \/ HearsIssueUpdate \/ HearsIssueClose \/ HearsTicket \/ HearsTicketUpdate
            \/ HearsTicketClose \/ LosesAnswer \/ ObservationCannotStart
            \/ ConcludeIssueCreation \/ ConcludePullRequestCreation
            \/ ConcludePullRequestMerge \/ ConcludeRepoCreation
            \/ ConcludeLinearTicketCreation \/ ConcludeIssueUpdate
            \/ ConcludeLinearTicketUpdate \/ ConcludeIssueClose
            \/ ConcludeLinearTicketClose \/ CloneCreatedRepo \/ CloneFails

Worker == \/ Begin \/ LaunchFails \/ Leaves \/ WorkerRelease
          \/ Plan \/ Submit \/ Conclude

Scan == \/ ScanStart \/ Recover
        \/ ReconcileIssueCreation \/ ReconcilePullRequestCreation
        \/ ReconcilePullRequestMerge \/ ReconcileRepoCreation
        \/ ReconcileLinearTicketCreation \/ ReconcileIssueUpdate
        \/ ReconcileLinearTicketUpdate \/ ReconcileIssueClose
        \/ ReconcileLinearTicketClose

User == \/ AnswerIssueCreation \/ AnswerPullRequestCreation \/ AnswerPullRequestMerge
        \/ AnswerRepoCreation \/ AnswerLinearTicketCreation \/ AnswerIssueUpdate
        \/ AnswerLinearTicketUpdate \/ AnswerIssueClose \/ AnswerLinearTicketClose
        \/ AnswerIdentity \/ CancelStage
Canceller == CancelStop \/ CancelRelease
Provider == Apply \/ Refuse

Next == Worker \/ Scan \/ User \/ Canceller \/ Provider
        \/ OutsideEdit \/ WorkerCrash \/ CancellerCrash

Spec == Init /\ [][Next]_vars

\* Processes that live make progress, the daemon keeps scanning, and a request in flight
\* is acted on or lost.
FairSpec == /\ Spec
            /\ WF_vars(Worker) /\ WF_vars(Scan) /\ WF_vars(Canceller) /\ WF_vars(Provider)

(***************************************************************************)
(* Properties.                                                             *)
(***************************************************************************)

\* The provider is asked at most once per job, whatever dies, fails or is cancelled on the
\* way: no retry, relaunch or recovery submits a write that may have happened.
AtMostOneWrite == remote.applied + (IF remote.inflight THEN 1 ELSE 0) <= 1

\* What the job reports is true: a write reported as done was done, and a job completed
\* without one (the user said no, the state had changed) wrote nothing and has nothing out.
\* Left out is what the code does not keep: a confirmed repository may exist although the
\* job completed without it.  Either it is recorded, and the worker that was to clone it
\* refused, or its creation was taken for a gh that could not be started.
ReportedTruthfully ==
    /\ job.op \in {"created", "remote_created"} => Written
    /\ job.status = "completed" /\ job.op # "created" =>
         /\ ~remote.inflight
         /\ Written => kind = "repo_create" /\ job.confirmed

\* What is written is the plan the user said yes to: a plan that was rebased, renamed or
\* rejected since is not submitted on the strength of an older answer.  A pull request is
\* left out: its branch is published as it is after the last check of the checkout.
WrittenAsConfirmed ==
    [][remote'.applied > remote.applied =>
         /\ heard # 0
         /\ kind = "pr_create" \/ remote.sent = heard]_vars

\* A write that was submitted is in the end settled by the worker or by the scan, also
\* after crashes and lost answers, unless the job is being terminated.
SubmittedSettles ==
    job.op \in {"submitted", "ambiguous"} ~>
        (job.op \notin {"submitted", "ambiguous"} \/ job.intent # "none")

=============================================================================
