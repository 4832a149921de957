------------------------ MODULE ConfirmedWriteProofs ------------------------
(***************************************************************************)
(* ConfirmedWrite for any kinds of write and any number of edits, errors,  *)
(* crashes and cancellations.                                              *)
(***************************************************************************)
EXTENDS ConfirmedWrite, TLAPS

Requested == remote.inflight \/ Written
Doubt == {"submitting", "submitted", "ambiguous"}
Unsent == {"none", "planned"}

\* Changes by others are what is counted, so a plan is never made from version 0.
WorldCounted == remote.world = spent.edits + 1

\* A plan has a version, a confirmation is of the plan in the job, and a job without a
\* target has neither.
PlanKept ==
    /\ job.base = 0 => job.op = "none"
    /\ ~job.known => /\ ~job.confirmed /\ job.base = 0
                     /\ kind \in {"issue_create", "pr_merge", "repo_create", "linear_create"}
    /\ job.confirmed => job.base # 0 /\ heard = job.base

\* A repository was created whose worker took it for a gh that could not be started.
Unseen == /\ kind = "repo_create" /\ Written /\ ~remote.inflight
          /\ job.op = "planned" /\ job.confirmed

\* The recorded state of the operation is never behind the provider, but for that case.
OpTells ==
    /\ Requested => job.op \notin Unsent \/ Unseen
    /\ job.op = "submitting" => Linear
    /\ job.op \in Doubt \cup {"remote_created"} => job.confirmed
    /\ job.op = "remote_created" => kind = "repo_create"
    /\ job.op \in {"created", "remote_created"} => Written

\* The statuses from which a worker may submit are those of a job that has not submitted.
StatusTells ==
    /\ job.intent # "none" => job.status = "reconciling"
    /\ job.op \in Settled => job.status \in Terminal \cup {"blocked"} \/ job.intent # "none"
    /\ job.owned /\ job.status \in {"queued", "routing"} =>
         job.op \in Unsent \cup {"remote_created"}
    /\ job.status = "awaiting" => /\ job.op \in Unsent /\ ~job.confirmed /\ At("off")
                                  /\ job.known => job.base # 0
    /\ job.status = "completed" => job.op \in Unsent \cup {"created", "remote_created"}

\* Where the worker stands agrees with the job, unless someone else has written since.
WorkerTells ==
    /\ wk.pc \in {"start", "ready"} /\ job.owned /\ wk.fresh /\ job.intent = "none" =>
         job.status \in {"routing", "reconciling"}
    /\ At("ready") => job.base # 0
    /\ At("refused") /\ job.owned /\ wk.fresh /\ job.intent = "none" =>
         job.op \in Unsent \cup {"remote_created"}
    /\ wk.pc \in {"marked", "fenced"} => ~Requested
    /\ At("nostart") /\ Requested => kind = "repo_create" /\ Written /\ ~remote.inflight
    /\ At("ready") /\ job.confirmed /\ job.op = "planned" => ~Requested
    /\ wk.pc \in {"marked", "fenced"} => heard # 0 /\ (kind = "pr_create" \/ wk.base = heard)
    /\ At("fenced") \/ (At("marked") /\ ~Linear) => job.op \notin Unsent
    /\ wk.pc \in {"marked", "fenced", "nostart", "out", "answered", "failed", "clone"} =>
         job.confirmed
    /\ wk.pc \in {"answered", "clone"} => Written

\* What is in flight is what was confirmed.
SentTells == remote.inflight => heard # 0 /\ (kind = "pr_create" \/ remote.sent = heard)

\* What the scan has seen was written; it settles no repository that a new worker took up.
ScanTells ==
    /\ scan.visible => Written
    /\ job.op = "remote_created" /\ (job.status = "completed"
                                      \/ wk.pc \in {"launched", "start", "refused"}) =>
         scan.pc \notin {"reconcile", "settle"}

Inv == /\ TypeOK /\ AtMostOneWrite /\ WorldCounted /\ PlanKept /\ OpTells /\ StatusTells
       /\ WorkerTells /\ SentTells /\ ScanTells
-----------------------------------------------------------------------------

Jobs == [status : Active \cup Terminal, op : Ops, known : BOOLEAN, resolved : BOOLEAN,
         confirmed : BOOLEAN, base : Versions, owned : BOOLEAN, reconcile : BOOLEAN,
         intent : {"none", "failed", "cancelled"}]
Workers == [pc : Pcs, base : Versions, fresh : BOOLEAN, clean : BOOLEAN]
Remotes == [world : Versions, inflight : BOOLEAN, sent : Versions, applied : 0..2]
Spendings == [edits : 0..MaxEdits, errors : 0..MaxErrors, crashes : 0..MaxCrashes,
              cancels : 0..MaxCancels]

\* A step that spends no edit.
Spends == spent' \in Spendings /\ spent'.edits = spent.edits

USE DEF At, Written, Requested, Unsent, Linear, Unseen

\* The invariant gives the types of the records that steps update.
LEMMA Typed == Inv => job \in Jobs /\ wk \in Workers /\ spent \in Spendings
    BY DEF Inv, TypeOK, Jobs, Workers, Spendings

\* A worker that is gone.
LEMMA OffTyped == Off \in Workers /\ Off.pc = "off" /\ ~Off.fresh
    BY WriteConstants DEF Off, Workers, Pcs, Versions

\* A step that uses up none of the bounds.
LEMMA NothingSpent == ASSUME Inv, UNCHANGED spent PROVE Spends
    BY Typed DEF Spends

\* A failed provider call.
LEMMA ErrsSpends == ASSUME Inv, Errs PROVE Spends
<1>1. spent \in Spendings
    BY Typed
<1>2. spent.errors + 1 \in 0..MaxErrors
    BY <1>1, WriteConstants DEF Errs, Spendings
<1> QED
    BY <1>1, <1>2 DEF Spends, Errs, Spendings

\* A process that dies.
LEMMA CrashSpends == ASSUME Inv, Crashes PROVE Spends
<1>1. spent \in Spendings
    BY Typed
<1>2. spent.crashes + 1 \in 0..MaxCrashes
    BY <1>1, WriteConstants DEF Crashes, Spendings
<1> QED
    BY <1>1, <1>2 DEF Spends, Crashes, Spendings

\* A worker leaves and changes nothing: its update was refused, it was stopped, it died.
LEMMA WorkerGone ==
    ASSUME Inv, job' = job, wk' = Off, UNCHANGED <<kind, scan, remote, heard>>, Spends,
           cancel' \in {"idle", "stop", "release"}
    PROVE  Inv'
<1>1. wk'.pc = "off"
    BY OffTyped
<1>2. TypeOK'
    BY OffTyped DEF Inv, TypeOK, Spends, Spendings, Workers
<1> QED
    BY <1>1, <1>2 DEF Inv, AtMostOneWrite, WorldCounted, PlanKept, OpTells, StatusTells,
       WorkerTells, SentTells, ScanTells, Spends

\* A worker goes on without writing the job.
LEMMA WorkerMoves ==
    ASSUME Inv, ~At("off"), job' = job, wk' \in Workers, UNCHANGED <<kind, scan, cancel, remote, heard>>,
           Spends, WorkerTells', wk'.pc \notin {"launched", "start", "refused"}
    PROVE  Inv'
<1>1. TypeOK'
    BY DEF Inv, TypeOK, Spends, Spendings, Workers
<1> QED
    BY <1>1 DEF Inv, AtMostOneWrite, WorldCounted, PlanKept, OpTells, StatusTells,
       SentTells, ScanTells, Spends

\* The place the worker goes to is all that changes.
LEMMA GoFields ==
    ASSUME Inv, NEW l \in Pcs, wk' = Go(l)
    PROVE  /\ wk' \in Workers /\ wk'.pc = l /\ wk'.base = wk.base
           /\ wk'.fresh <=> wk.fresh
BY Typed DEF Workers, Go

\* A worker's own update of the store does not make it stale.
LEMMA WroteFields ==
    ASSUME Inv, NEW l \in Pcs, wk' = Wrote(l)
    PROVE  /\ wk' \in Workers /\ wk'.pc = l /\ wk'.base = wk.base
           /\ wk'.fresh <=> wk.fresh
BY Typed DEF Workers, Wrote

\* An update by somebody else does.
LEMMA StaleFields ==
    ASSUME Inv, wk' = Stale
    PROVE  /\ wk' \in Workers /\ wk'.pc = wk.pc /\ wk'.base = wk.base /\ ~wk'.fresh
BY Typed DEF Workers, Stale

-----------------------------------------------------------------------------

\* begin_worker claims the job it was launched for, or leaves.
LEMMA BeginKeeps == ASSUME Inv, Begin PROVE Inv'
<1>1. CASE job.owned /\ job.status = "queued"
    <2> DEFINE s == IF job.reconcile THEN "reconciling" ELSE "routing"
    <2>1. At("launched") /\ job' = [job EXCEPT !.status = s]
          /\ wk' = [pc |-> "start", base |-> 0, fresh |-> TRUE, clean |-> TRUE]
          /\ UNCHANGED <<kind, scan, cancel, remote, heard, spent>>
        BY <1>1 DEF Begin
    <2>2. job' \in Jobs
        BY <2>1, Typed DEF Jobs, Active
    <2>3. /\ job'.status = s /\ job'.op = job.op /\ job'.base = job.base
          /\ job'.intent = job.intent /\ (job'.known <=> job.known)
          /\ (job'.confirmed <=> job.confirmed) /\ (job'.owned <=> job.owned)
        BY <2>1, Typed DEF Jobs
    <2>4. wk' \in Workers /\ wk'.pc = "start"
        BY <2>1, WriteConstants DEF Workers, Pcs, Versions
    <2>5. TypeOK'
        BY <2>1, <2>2, <2>4 DEF Inv, TypeOK, Jobs, Workers
    <2> QED
        BY <1>1, <2>1, <2>3, <2>4, <2>5 DEF Inv, AtMostOneWrite, WorldCounted, PlanKept,
           OpTells, StatusTells, WorkerTells, SentTells, ScanTells, Terminal, Settled
<1>2. CASE ~(job.owned /\ job.status = "queued")
    <2>1. job' = job /\ wk' = Off /\ UNCHANGED <<kind, scan, cancel, remote, heard, spent>>
        BY <1>2 DEF Begin
    <2> QED
        BY <2>1, NothingSpent, WorkerGone DEF Inv, TypeOK
<1> QED
    BY <1>1, <1>2

\* persist_launch_failure ends a job that was queued for the worker.
LEMMA LaunchFailsKeeps == ASSUME Inv, LaunchFails PROVE Inv'
<1>1. Spends
    BY ErrsSpends DEF LaunchFails
<1>2. CASE job.owned /\ job.status = "queued"
    <2>1. At("launched") /\ job' = [job EXCEPT !.status = "failed", !.owned = FALSE] /\ wk' = Off
          /\ UNCHANGED <<kind, scan, cancel, remote, heard>>
        BY <1>2 DEF LaunchFails
    <2>2. job' \in Jobs
        BY <2>1, Typed DEF Jobs, Terminal
    <2>3. /\ job'.status = "failed" /\ job'.op = job.op /\ job'.base = job.base
          /\ job'.intent = job.intent /\ (job'.known <=> job.known)
          /\ (job'.confirmed <=> job.confirmed) /\ ~job'.owned
        BY <2>1, Typed DEF Jobs
    <2>4. wk' \in Workers /\ wk'.pc = "off"
        BY <2>1, OffTyped
    <2>5. TypeOK'
        BY <1>1, <2>1, <2>2, <2>4 DEF Inv, TypeOK, Jobs, Workers, Spends, Spendings
    <2> QED
        BY <1>1, <1>2, <2>1, <2>3, <2>4, <2>5 DEF Inv, AtMostOneWrite, WorldCounted, PlanKept,
           OpTells, StatusTells, WorkerTells, SentTells, ScanTells, Terminal, Settled, Spends
<1>3. CASE ~(job.owned /\ job.status = "queued")
    BY <1>1, <1>3, WorkerGone DEF LaunchFails, Inv, TypeOK
<1> QED
    BY <1>2, <1>3

\* WorkerCancelled.
LEMMA LeavesKeeps == ASSUME Inv, Leaves PROVE Inv'
    BY WorkerGone, NothingSpent DEF Leaves, Inv, TypeOK

\* A staged outcome becomes the status of the job; nobody works on it any more.
LEMMA MaterializedKeeps ==
    ASSUME Inv, job.intent # "none", job' = Materialized, wk' \in Workers, wk'.pc \in {"off", wk.pc},
           wk'.base = wk.base \/ wk'.pc = "off",
           cancel' \in {"idle", "stop", "release"}, UNCHANGED <<kind, remote, heard, spent>>,
           scan' \in [pc : {"idle", "reconcile", "settle", "clone", "recover"}, visible : BOOLEAN],
           scan'.visible <=> scan.visible, scan'.pc \in {"idle", scan.pc}
    PROVE  Inv'
<1>1. job' \in Jobs
    BY Typed DEF Jobs, Materialized, Terminal
<1>2. /\ job'.status = job.intent /\ job'.op = job.op /\ job'.base = job.base
      /\ job'.intent = "none" /\ (job'.known <=> job.known)
      /\ (job'.confirmed <=> job.confirmed) /\ ~job'.owned
    BY Typed DEF Jobs, Materialized
<1>3. job.intent \in {"failed", "cancelled"}
    BY Typed DEF Jobs
<1>4. TypeOK'
    BY <1>1 DEF Inv, TypeOK, Jobs, Workers
<1> QED
    BY <1>2, <1>3, <1>4 DEF Inv, AtMostOneWrite, WorldCounted, PlanKept,
       OpTells, StatusTells, WorkerTells, SentTells, ScanTells, Terminal, Settled

\* run_claimed_worker on the way out.
LEMMA WorkerReleaseKeeps == ASSUME Inv, WorkerRelease PROVE Inv'
<1>1. CASE job.intent = "failed"
    <2>1. job' = Materialized /\ wk' = Off /\ UNCHANGED <<kind, scan, cancel, remote, heard, spent>>
        BY <1>1 DEF WorkerRelease
    <2>2. wk' \in Workers /\ wk'.pc = "off"
        BY <2>1, OffTyped
    <2> QED
        BY <1>1, <2>1, <2>2, MaterializedKeeps DEF Inv, TypeOK
<1>2. CASE job.intent # "failed"
    BY <1>2, WorkerGone, NothingSpent DEF WorkerRelease, Inv, TypeOK
<1> QED
    BY <1>1, <1>2

\* A plan is drafted by a worker whose job has submitted nothing.
LEMMA DraftsKeeps ==
    ASSUME Inv, Drafts(FALSE), wk.pc \in {"start", "ready"}, job.known,
           job.op # "remote_created", kind # "repo_create" \/ job.base = 0
    PROVE  Inv'
<1>1. CASE WorkerMay({"routing"})
    <2>1. /\ job' = [job EXCEPT !.op = "planned", !.base = remote.world, !.confirmed = FALSE]
          /\ wk' = Wrote("ready")
          /\ UNCHANGED <<kind, scan, cancel, remote, heard, spent>>
        BY <1>1 DEF Drafts, WorkerWrites
    <2>2. job.owned /\ wk.fresh /\ job.status = "routing" /\ job.intent = "none"
        BY <1>1 DEF WorkerMay
    <2>3. job' \in Jobs
        BY <2>1, Typed DEF Jobs, Ops, Inv, TypeOK
    <2>4. /\ job'.status = job.status /\ job'.op = "planned" /\ job'.base = remote.world
          /\ job'.intent = job.intent /\ (job'.known <=> job.known)
          /\ ~job'.confirmed /\ (job'.owned <=> job.owned)
        BY <2>1, Typed DEF Jobs
    <2>5. wk' \in Workers /\ wk'.pc = "ready"
        BY <2>1, WroteFields DEF Pcs
    <2>6. TypeOK'
        BY <2>1, <2>3, <2>5 DEF Inv, TypeOK, Jobs, Workers
    <2>7. ~Requested /\ job.op \in Unsent
        BY <2>2 DEF Inv, PlanKept, StatusTells, OpTells
    <2>8. remote.world # 0
        <3>1. spent.edits \in Nat
            BY Typed, WriteConstants DEF Spendings
        <3> QED
            BY <3>1 DEF Inv, WorldCounted
    <2> QED
        BY <2>1, <2>2, <2>4, <2>5, <2>6, <2>7, <2>8 DEF Inv, AtMostOneWrite, WorldCounted, PlanKept,
           OpTells, StatusTells, WorkerTells, SentTells, ScanTells, Settled, Doubt
<1>2. CASE ~WorkerMay({"routing"})
    BY <1>2, WorkerGone, NothingSpent DEF Drafts, WorkerWrites, Inv, TypeOK
<1> QED
    BY <1>1, <1>2

\* The worker asks and is gone: what it asks about was never submitted.
LEMMA AsksKeeps ==
    ASSUME Inv, Asks(job), ~job.confirmed, wk.pc \in {"start", "ready"},
           job.known => job.base # 0
    PROVE  Inv'
<1>1. CASE WorkerMay({"routing", "running"})
    <2>1. /\ job' = [job EXCEPT !.status = "awaiting", !.owned = FALSE, !.reconcile = FALSE]
          /\ wk' = Off
          /\ UNCHANGED <<kind, scan, cancel, remote, heard, spent>>
        BY <1>1 DEF Asks, WorkerWrites
    <2>2. job.owned /\ wk.fresh /\ job.status = "routing" /\ job.intent = "none"
        BY <1>1 DEF WorkerMay, Inv, WorkerTells
    <2>3. job' \in Jobs
        BY <2>1, Typed DEF Jobs, Active
    <2>4. /\ job'.status = "awaiting" /\ job'.op = job.op /\ job'.base = job.base
          /\ job'.intent = job.intent /\ (job'.known <=> job.known)
          /\ ~job'.confirmed /\ ~job'.owned
        BY <2>1, Typed DEF Jobs
    <2>5. wk' \in Workers /\ wk'.pc = "off"
        BY <2>1, OffTyped
    <2>6. TypeOK'
        BY <2>1, <2>3, <2>5 DEF Inv, TypeOK, Jobs, Workers
    <2>7. job.op \in Unsent
        BY <2>2 DEF Inv, StatusTells, OpTells
    <2> QED
        BY <2>1, <2>2, <2>4, <2>5, <2>6, <2>7 DEF Inv, AtMostOneWrite, WorldCounted, PlanKept,
           OpTells, StatusTells, WorkerTells, SentTells, ScanTells, Settled, Doubt
<1>2. CASE ~WorkerMay({"routing", "running"})
    BY <1>2, WorkerGone, NothingSpent DEF Asks, WorkerWrites, Inv, TypeOK
<1> QED
    BY <1>1, <1>2

\* A worker that asks for another name has no request out.
LEMMA AsksOtherNameKeeps ==
    ASSUME Inv, AsksOtherName, kind = "repo_create", ~Written, At("start") \/ ~Requested
    PROVE  Inv'
<1>1. CASE WorkerMay({"routing", "running"})
    <2> DEFINE n == [job EXCEPT !.known = FALSE, !.confirmed = FALSE, !.base = 0, !.op = "none"]
    <2>1. /\ job' = [n EXCEPT !.status = "awaiting", !.owned = FALSE, !.reconcile = FALSE]
          /\ wk' = Off
          /\ UNCHANGED <<kind, scan, cancel, remote, heard, spent>>
        BY <1>1 DEF AsksOtherName, Asks, WorkerWrites
    <2>2. job.owned /\ wk.fresh /\ job.status \in {"routing", "running"} /\ job.intent = "none"
        BY <1>1 DEF WorkerMay
    <2>3. n \in Jobs
        <3>1. 0 \in Versions
            BY WriteConstants DEF Versions
        <3>2. [job EXCEPT !.known = FALSE, !.confirmed = FALSE] \in Jobs
            BY Typed DEF Jobs
        <3> QED
            BY <3>1, <3>2, Typed DEF Jobs, Ops
    <2>4. n.intent = job.intent /\ n.op = "none" /\ n.base = 0 /\ ~n.known /\ ~n.confirmed
        BY Typed DEF Jobs
    <2> HIDE DEF n
    <2>5. job' \in Jobs
        BY <2>1, <2>3 DEF Jobs, Active
    <2>6. /\ job'.status = "awaiting" /\ job'.op = "none" /\ job'.base = 0
          /\ job'.intent = job.intent /\ ~job'.known /\ ~job'.confirmed /\ ~job'.owned
        BY <2>1, <2>3, <2>4 DEF Jobs
    <2>7. wk' \in Workers /\ wk'.pc = "off"
        BY <2>1, OffTyped
    <2>8. TypeOK'
        BY <2>1, <2>5, <2>7 DEF Inv, TypeOK, Jobs, Workers
    <2>9. ~Requested
        BY <2>2 DEF Inv, StatusTells, OpTells, WorkerTells
    <2> QED
        BY <2>1, <2>2, <2>6, <2>7, <2>8, <2>9 DEF Inv, AtMostOneWrite, WorldCounted, PlanKept,
           OpTells, StatusTells, WorkerTells, SentTells, ScanTells, Settled, Doubt
<1>2. CASE ~WorkerMay({"routing", "running"})
    BY <1>2, WorkerGone, NothingSpent DEF AsksOtherName, Asks, WorkerWrites, Inv, TypeOK
<1> QED
    BY <1>1, <1>2

\* The plan in the job is taken up again; a repository that exists is not.
LEMMA ResumesKeeps ==
    ASSUME Inv, Resumes, At("start"), job.base # 0,
           kind = "repo_create" /\ job.confirmed => ~Written
    PROVE  Inv'
<1>1. wk' \in Workers /\ wk'.pc = "ready" /\ wk'.base = wk.base /\ (wk'.fresh <=> wk.fresh)
    BY GoFields DEF Resumes, Pcs
<1>2. WorkerTells'
    BY <1>1 DEF Resumes, Inv, OpTells, WorkerTells
<1> QED
    BY <1>1, <1>2, WorkerMoves, NothingSpent DEF Resumes

\* persist_team, persist_issue, persist_identity.
LEMMA ResolveTargetKeeps == ASSUME Inv, ResolveTarget PROVE Inv'
<1>1. CASE WorkerMay({"routing"})
    <2>1. /\ job' = [job EXCEPT !.resolved = TRUE] /\ wk' = Wrote("start") /\ At("start")
          /\ UNCHANGED <<kind, scan, cancel, remote, heard, spent>>
        BY <1>1 DEF ResolveTarget, WorkerWrites
    <2>2. job' \in Jobs
        BY <2>1, Typed DEF Jobs
    <2>3. /\ job'.status = job.status /\ job'.op = job.op /\ job'.base = job.base
          /\ job'.intent = job.intent /\ (job'.known <=> job.known)
          /\ (job'.confirmed <=> job.confirmed) /\ (job'.owned <=> job.owned)
        BY <2>1, Typed DEF Jobs
    <2>4. wk' \in Workers /\ wk'.pc = "start" /\ (wk'.fresh <=> wk.fresh)
        BY <2>1, WroteFields DEF Pcs
    <2>5. TypeOK'
        BY <2>1, <2>2, <2>4 DEF Inv, TypeOK, Jobs, Workers
    <2> QED
        BY <2>1, <2>3, <2>4, <2>5 DEF Inv, AtMostOneWrite, WorldCounted, PlanKept,
           OpTells, StatusTells, WorkerTells, SentTells, ScanTells, Settled, Doubt
<1>2. CASE ~WorkerMay({"routing"})
    BY <1>2, WorkerGone, NothingSpent DEF ResolveTarget, WorkerWrites, Inv, TypeOK
<1> QED
    BY <1>1, <1>2

\* _worker_fail.
LEMMA StagedKeeps ==
    ASSUME Inv, NEW S, WorkerWrites(S, Staged("failed"), Wrote("release")), ~At("off"),
           UNCHANGED <<kind, scan, cancel, remote, heard>>, Spends
    PROVE  Inv'
<1>1. CASE WorkerMay(S)
    <2>1. /\ job' = Staged("failed") /\ wk' = Wrote("release")
        BY <1>1 DEF WorkerWrites
    <2>2. job' \in Jobs
        BY <2>1, Typed DEF Jobs, Active, Staged
    <2>3. /\ job'.status = "reconciling" /\ job'.op = job.op /\ job'.base = job.base
          /\ job'.intent = "failed" /\ (job'.known <=> job.known)
          /\ (job'.confirmed <=> job.confirmed) /\ (job'.owned <=> job.owned)
        BY <2>1, Typed DEF Jobs, Staged
    <2>4. wk' \in Workers /\ wk'.pc = "release"
        BY <2>1, WroteFields DEF Pcs
    <2>5. TypeOK'
        BY <2>1, <2>2, <2>4 DEF Inv, TypeOK, Jobs, Workers, Spends, Spendings
    <2> QED
        BY <2>1, <2>3, <2>4, <2>5 DEF Inv, AtMostOneWrite, WorldCounted, PlanKept,
           OpTells, StatusTells, WorkerTells, SentTells, ScanTells, Settled, Doubt, Spends
<1>2. CASE ~WorkerMay(S)
    BY <1>2, WorkerGone DEF WorkerWrites, Inv, TypeOK
<1> QED
    BY <1>1, <1>2

\* A failure before the submission is staged, or refused as stale.
LEMMA PlanFailsKeeps == ASSUME Inv, PlanFails PROVE Inv'
<1>1. Spends /\ UNCHANGED <<kind, scan, cancel, remote, heard>> /\ ~At("off")
    BY ErrsSpends DEF PlanFails
<1>2. CASE wk.clean
    BY <1>1, <1>2, StagedKeeps DEF PlanFails
<1>3. CASE ~wk.clean
    BY <1>1, <1>3, WorkerGone DEF PlanFails, Inv, TypeOK
<1> QED
    BY <1>2, <1>3

\* A worker that planned nothing decides that nothing is to be written.
LEMMA RefuseWriteKeeps == ASSUME Inv, RefuseWrite PROVE Inv'
<1>1. ASSUME At("start"), Errs, UNCHANGED <<kind, scan, cancel, remote, heard>>,
             WorkerWrites({"routing"}, [job EXCEPT !.status = "running"], Wrote("refused"))
      PROVE  Inv'
    <2>1. Spends
        BY <1>1, ErrsSpends
    <2>2. CASE WorkerMay({"routing"})
        <3>1. job' = [job EXCEPT !.status = "running"] /\ wk' = Wrote("refused")
            BY <1>1, <2>2 DEF WorkerWrites
        <3>2. job.owned /\ wk.fresh /\ job.status = "routing" /\ job.intent = "none"
            BY <2>2 DEF WorkerMay
        <3>3. job' \in Jobs
            BY <3>1, Typed DEF Jobs, Active
        <3>4. /\ job'.status = "running" /\ job'.op = job.op /\ job'.base = job.base
              /\ job'.intent = job.intent /\ (job'.known <=> job.known)
              /\ (job'.confirmed <=> job.confirmed) /\ (job'.owned <=> job.owned)
            BY <3>1, Typed DEF Jobs
        <3>5. wk' \in Workers /\ wk'.pc = "refused"
            BY <3>1, WroteFields DEF Pcs
        <3>6. TypeOK'
            BY <1>1, <2>1, <3>3, <3>5 DEF Inv, TypeOK, Jobs, Workers, Spends, Spendings
        <3> QED
            BY <1>1, <2>1, <3>2, <3>4, <3>5, <3>6 DEF Inv, AtMostOneWrite, WorldCounted,
               PlanKept, OpTells, StatusTells, WorkerTells, SentTells, ScanTells, Settled, Spends
    <2>3. CASE ~WorkerMay({"routing"})
        BY <1>1, <2>1, <2>3, WorkerGone DEF WorkerWrites, Inv, TypeOK
    <2> QED
        BY <2>2, <2>3
<1>2. ASSUME At("refused"), UNCHANGED <<kind, scan, cancel, remote, heard, spent>>,
             WorkerWrites({"running"}, [job EXCEPT !.status = "completed", !.owned = FALSE], Off)
      PROVE  Inv'
    <2>1. CASE WorkerMay({"running"})
        <3>1. job' = [job EXCEPT !.status = "completed", !.owned = FALSE] /\ wk' = Off
            BY <1>2, <2>1 DEF WorkerWrites
        <3>2. job.owned /\ wk.fresh /\ job.status = "running" /\ job.intent = "none"
            BY <2>1 DEF WorkerMay
        <3>3. job' \in Jobs
            BY <3>1, Typed DEF Jobs, Terminal
        <3>4. /\ job'.status = "completed" /\ job'.op = job.op /\ job'.base = job.base
              /\ job'.intent = job.intent /\ (job'.known <=> job.known)
              /\ (job'.confirmed <=> job.confirmed) /\ ~job'.owned
            BY <3>1, Typed DEF Jobs
        <3>5. wk' \in Workers /\ wk'.pc = "off"
            BY <3>1, OffTyped
        <3>6. TypeOK'
            BY <1>2, <3>3, <3>5 DEF Inv, TypeOK, Jobs, Workers
        <3> QED
            BY <1>2, <3>2, <3>4, <3>5, <3>6 DEF Inv, AtMostOneWrite, WorldCounted, PlanKept,
               OpTells, StatusTells, WorkerTells, SentTells, ScanTells, Settled
    <2>2. CASE ~WorkerMay({"running"})
        BY <1>2, <2>2, WorkerGone, NothingSpent DEF WorkerWrites, Inv, TypeOK
    <2> QED
        BY <2>1, <2>2
<1> QED
    BY <1>1, <1>2 DEF RefuseWrite

\* _record_github_repo_remote_created, for a repository that was created.
LEMMA RecordsKeeps ==
    ASSUME Inv, Records, kind = "repo_create", job.confirmed, Written, ~At("off"), UNCHANGED spent
    PROVE  Inv'
<1>1. CASE WorkerMay({"routing", "running"})
    <2>1. /\ job' = [job EXCEPT !.op = "remote_created"] /\ wk' = Wrote("clone")
          /\ UNCHANGED <<kind, scan, cancel, remote, heard, spent>>
        BY <1>1 DEF Records, WorkerWrites
    <2>2. job.owned /\ wk.fresh /\ job.status \in {"routing", "running"} /\ job.intent = "none"
        BY <1>1 DEF WorkerMay
    <2>3. job' \in Jobs
        BY <2>1, Typed DEF Jobs, Ops
    <2>4. /\ job'.status = job.status /\ job'.op = "remote_created" /\ job'.base = job.base
          /\ job'.intent = job.intent /\ (job'.known <=> job.known)
          /\ (job'.confirmed <=> job.confirmed) /\ (job'.owned <=> job.owned)
        BY <2>1, Typed DEF Jobs
    <2>5. wk' \in Workers /\ wk'.pc = "clone"
        BY <2>1, WroteFields DEF Pcs
    <2>6. TypeOK'
        BY <2>1, <2>3, <2>5 DEF Inv, TypeOK, Jobs, Workers
    <2> QED
        BY <2>1, <2>2, <2>4, <2>5, <2>6 DEF Inv, AtMostOneWrite, WorldCounted, PlanKept,
           OpTells, StatusTells, WorkerTells, SentTells, ScanTells, Settled, Doubt
<1>2. CASE ~WorkerMay({"routing", "running"})
    BY <1>2, WorkerGone, NothingSpent DEF Records, WorkerWrites, Inv, TypeOK
<1> QED
    BY <1>1, <1>2

\* What the provider shows of a write was written.
LEMMA SeenWritten == Seen => Written
    BY DEF Seen, SeesIssue, SeesPullRequest, SeesMerge, SeesRepository, SeesIssueUpdate,
       SeesIssueClose, SeesTicket, SeesTicketUpdate, SeesTicketClose, Marked, Unedited

\* A repository is found exactly when it was created.
LEMMA RepositorySeen == kind = "repo_create" => (Seen <=> Written)
    BY SeenWritten DEF Seen, SeesRepository, Marked

\* There is always a version to plan from.
LEMMA WorldPositive == Inv => remote.world # 0 /\ remote.world \in Versions
<1> SUFFICES ASSUME Inv PROVE remote.world # 0 /\ remote.world \in Versions
    OBVIOUS
<1>1. spent.edits \in Nat
    BY Typed, WriteConstants DEF Spendings
<1> QED
    BY <1>1 DEF Inv, WorldCounted, TypeOK

\* Only a repository that was recorded as created can be past the plan when a worker starts.
LEMMA StartsUnsent == Inv /\ job.op = "remote_created" => kind = "repo_create"
    BY DEF Inv, OpTells

\* Every way to a plan.
LEMMA PlansOnceKeeps ==
    ASSUME Inv, NEW k \in GitHubKinds \cup LinearKinds, k # "repo_create", PlansOnce(k)
    PROVE  Inv'
<1>1. kind # "repo_create" /\ job.op # "remote_created" /\ At("start") /\ job.known
    BY StartsUnsent DEF PlansOnce, AtStart
<1>2. CASE job.base = 0
    BY <1>1, <1>2, DraftsKeeps DEF PlansOnce
<1>3. CASE job.base # 0
    BY <1>1, <1>3, ResumesKeeps DEF PlansOnce
<1> QED
    BY <1>2, <1>3

\* A rewrite of a ticket is planned again when the ticket changed.
LEMMA PlansFreshKeeps ==
    ASSUME Inv, NEW k \in {"issue_update", "linear_update"}, PlansFresh(k)
    PROVE  Inv'
<1>1. kind # "repo_create" /\ job.op # "remote_created" /\ At("start") /\ job.known
    BY StartsUnsent DEF PlansFresh, AtStart, Inv, PlanKept
<1>2. CASE ChangedByOthers
    BY <1>1, <1>2, DraftsKeeps DEF PlansFresh
<1>3. CASE ~ChangedByOthers
    BY <1>1, <1>3, ResumesKeeps, WorldPositive DEF PlansFresh, ChangedByOthers
<1> QED
    BY <1>2, <1>3

\* A job without a target asks for it.
LEMMA AsksIdentityKeeps == ASSUME Inv, NEW k, AsksIdentity(k) PROVE Inv'
<1>1. ~job.confirmed
    BY DEF AsksIdentity, Inv, PlanKept
<1> QED
    BY <1>1, AsksKeeps DEF AsksIdentity, AtStart

\* A plan is read back before it is submitted.
LEMMA AskConfirmationKeeps == ASSUME Inv, AskConfirmation PROVE Inv'
<1>1. job.base # 0
    BY DEF AskConfirmation, Inv, WorkerTells
<1> QED
    BY <1>1, AsksKeeps DEF AskConfirmation

\* A pull request is planned from the checkout.
LEMMA PlanPullRequestCreationKeeps == ASSUME Inv, PlanPullRequestCreation PROVE Inv'
<1>1. kind # "repo_create" /\ job.op # "remote_created" /\ At("start") /\ job.known
    BY StartsUnsent DEF PlanPullRequestCreation, AtStart, Inv, PlanKept
<1>2. CASE job.base = 0 \/ (job.confirmed /\ ChangedByOthers)
    BY <1>1, <1>2, DraftsKeeps DEF PlanPullRequestCreation
<1>3. CASE ~(job.base = 0 \/ (job.confirmed /\ ChangedByOthers))
    BY <1>1, <1>3, ResumesKeeps DEF PlanPullRequestCreation
<1> QED
    BY <1>2, <1>3

\* A repository is planned, found, or given another name.
LEMMA PlanRepoCreationKeeps == ASSUME Inv, PlanRepoCreation PROVE Inv'
<1>1. CASE AsksIdentity("repo_create")
    BY <1>1, AsksIdentityKeeps
<1>2. CASE ~AsksIdentity("repo_create")
    <2>1. At("start") /\ kind = "repo_create" /\ job.known
        BY <1>2 DEF PlanRepoCreation, AtStart
    <2>2. CASE job.base = 0
        <3>1. job.op # "remote_created"
            BY <2>2 DEF Inv, PlanKept
        <3> QED
            BY <1>2, <2>1, <2>2, <3>1, DraftsKeeps DEF PlanRepoCreation
    <2>3. CASE job.base # 0 /\ job.confirmed /\ Seen
        <3>1. Records /\ Written
            BY <1>2, <2>1, <2>3, SeenWritten DEF PlanRepoCreation
        <3>2. UNCHANGED spent
            BY <3>1 DEF Records
        <3> QED
            BY <2>1, <2>3, <3>1, <3>2, RecordsKeeps
    <2>4. CASE job.base # 0 /\ job.confirmed /\ ~Seen /\ ChangedByOthers
        <3>1. AsksOtherName /\ ~Written
            BY <1>2, <2>1, <2>4, RepositorySeen DEF PlanRepoCreation
        <3> QED
            BY <2>1, <3>1, AsksOtherNameKeeps
    <2>5. CASE job.base # 0 /\ ~(job.confirmed /\ Seen) /\ ~(job.confirmed /\ ChangedByOthers)
        <3>1. Resumes /\ (job.confirmed => ~Written)
            BY <1>2, <2>1, <2>5, RepositorySeen DEF PlanRepoCreation
        <3> QED
            BY <2>1, <2>5, <3>1, ResumesKeeps
    <2> QED
        BY <2>2, <2>3, <2>4, <2>5
<1> QED
    BY <1>1, <1>2

\* The invariant survives every planning step.
LEMMA PlanKeeps == ASSUME Inv, Plan PROVE Inv'
<1>1. ASSUME AsksIdentity("issue_create") \/ AsksIdentity("linear_create") \/ AsksIdentity("pr_merge")
      PROVE  Inv'
    BY <1>1, AsksIdentityKeeps
<1>2. ASSUME NEW k \in {"issue_create", "linear_create", "issue_close", "linear_close", "pr_merge"},
             PlansOnce(k)
      PROVE  Inv'
    BY <1>2, PlansOnceKeeps DEF GitHubKinds, LinearKinds
<1>3. ASSUME PlansFresh("issue_update") \/ PlansFresh("linear_update") PROVE Inv'
    BY <1>3, PlansFreshKeeps
<1> QED
    BY <1>1, <1>2, <1>3, PlanPullRequestCreationKeeps, PlanRepoCreationKeeps, RefuseWriteKeeps,
       ResolveTargetKeeps, PlanFailsKeeps, AskConfirmationKeeps
    DEF Plan, PlanIssueCreation, PlanLinearTicketCreation, PlanIssueClose, PlanLinearTicketClose,
        PlanPullRequestMerge, PlanIssueUpdate, PlanLinearTicketUpdate

-----------------------------------------------------------------------------

\* mark_submitted and mark_running: the plan the worker takes along is the confirmed one.
LEMMA PlannedFields ==
    ASSUME Inv, wk' = Planned
    PROVE  wk' \in Workers /\ wk'.pc = "marked" /\ wk'.base = job.base
<1>1. job.base \in Versions
    BY Typed DEF Jobs
<1> QED
    BY <1>1, Typed DEF Workers, Planned, Pcs

\* The mark is set by a worker whose job has submitted nothing.
LEMMA MarksKeeps ==
    ASSUME Inv, NEW k, Confirmed(k), NEW o \in {"planned", "submitted"}, o = "planned" <=> Linear,
           WorkerWrites({"routing"}, [job EXCEPT !.status = "running", !.op = o], Planned),
           UNCHANGED <<kind, scan, cancel, remote, heard, spent>>
    PROVE  Inv'
<1>1. CASE WorkerMay({"routing"})
    <2>1. job' = [job EXCEPT !.status = "running", !.op = o] /\ wk' = Planned
        BY <1>1 DEF WorkerWrites
    <2>2. job' \in Jobs
        BY <2>1, Typed DEF Jobs, Ops, Active
    <2>3. /\ job'.status = "running" /\ job'.op = o /\ job'.base = job.base
          /\ job'.intent = job.intent /\ (job'.known <=> job.known)
          /\ (job'.confirmed <=> job.confirmed) /\ (job'.owned <=> job.owned)
        BY <2>1, Typed DEF Jobs
    <2>4. wk' \in Workers /\ wk'.pc = "marked" /\ wk'.base = job.base
        BY <2>1, PlannedFields
    <2>5. TypeOK'
        BY <2>1, <2>2, <2>4 DEF Inv, TypeOK, Jobs, Workers
    <2>6. job.confirmed /\ ~Requested /\ job.intent = "none"
        BY <1>1 DEF Confirmed, WorkerMay, Inv, WorkerTells
    <2> QED
        BY <2>1, <2>3, <2>4, <2>5, <2>6 DEF Inv, AtMostOneWrite, WorldCounted, PlanKept,
           OpTells, StatusTells, WorkerTells, SentTells, ScanTells, Settled, Doubt
<1>2. CASE ~WorkerMay({"routing"})
    BY <1>2, WorkerGone, NothingSpent DEF WorkerWrites, Inv, TypeOK
<1> QED
    BY <1>1, <1>2

\* GitHub: the mark says that the write is submitted.
LEMMA MarksSubmittedKeeps == ASSUME Inv, NEW k \in GitHubKinds, Confirmed(k), MarksSubmitted PROVE Inv'
<1>1. ~Linear
    BY DEF Confirmed, GitHubKinds, LinearKinds
<1> QED
    BY <1>1, MarksKeeps DEF MarksSubmitted

\* Linear: the mark leaves the operation planned.
LEMMA MarksRunningKeeps == ASSUME Inv, NEW k \in LinearKinds, Confirmed(k), MarksRunning PROVE Inv'
<1>1. Linear
    BY DEF Confirmed
<1>2. [job EXCEPT !.status = "running", !.op = "planned"] = [job EXCEPT !.status = "running"]
    BY Typed DEF Confirmed, Jobs
<1> QED
    BY <1>1, <1>2, MarksKeeps DEF MarksRunning

\* The request leaves for the first time, with the plan that was confirmed.
LEMMA SendsKeeps ==
    ASSUME Inv, Sends(wk.base), At("fenced") \/ (At("marked") /\ ~Linear)
    PROVE  Inv'
<1>1. /\ remote' = [remote EXCEPT !.inflight = TRUE, !.sent = wk.base] /\ wk' = Go("out")
      /\ UNCHANGED <<kind, job, scan, cancel, heard, spent>>
    BY DEF Sends
<1>2. wk' \in Workers /\ wk'.pc = "out" /\ wk'.base = wk.base /\ (wk'.fresh <=> wk.fresh)
    BY <1>1, GoFields DEF Pcs
<1>3. wk.base \in Versions
    BY Typed DEF Workers
<1>4. TypeOK'
    <2>1. remote \in Remotes
        BY DEF Inv, TypeOK, Remotes
    <2>2. remote' \in Remotes
        BY <1>1, <1>3, <2>1 DEF Remotes
    <2> QED
        BY <1>1, <1>2, <2>2 DEF Inv, TypeOK, Workers, Remotes
<1>5. /\ remote'.inflight /\ remote'.sent = wk.base /\ remote'.applied = remote.applied
      /\ remote'.world = remote.world
    BY <1>1 DEF Inv, TypeOK
<1>6. ~Requested /\ remote.applied = 0
    BY DEF Inv, WorkerTells, TypeOK
<1> QED
    BY <1>1, <1>2, <1>4, <1>5, <1>6 DEF Inv, AtMostOneWrite, WorldCounted, PlanKept,
       OpTells, StatusTells, WorkerTells, SentTells, ScanTells

\* A worker that has submitted, or is about to, goes on to a later place.
LEMMA FailsAt ==
    ASSUME Inv, NEW l \in {"failed", "nostart"}, wk' = Go(l), wk.pc \in {"marked", "fenced", "out"},
           At("out") /\ l = "nostart" =>
               kind = "repo_create" /\ Written /\ ~remote.inflight,
           UNCHANGED <<kind, job, scan, cancel, remote, heard>>, Spends
    PROVE  Inv'
<1>1. wk' \in Workers /\ wk'.pc = l /\ wk'.base = wk.base /\ (wk'.fresh <=> wk.fresh)
    BY GoFields DEF Pcs
<1>2. WorkerTells'
    BY <1>1 DEF Inv, WorkerTells
<1> QED
    BY <1>1, <1>2, WorkerMoves

\* The branch is fenced at its last head before the request leaves.
LEMMA SubmitPullRequestCreationKeeps == ASSUME Inv, SubmitPullRequestCreation PROVE Inv'
<1>1. ASSUME AtMark("pr_create"), UNCHANGED <<kind, scan, cancel, remote, heard, spent>>,
             WorkerWrites({"running"}, job, [Wrote("fenced") EXCEPT !.base = remote.world])
      PROVE  Inv'
    <2>1. CASE WorkerMay({"running"})
        <3>1. job' = job /\ wk' = [Wrote("fenced") EXCEPT !.base = remote.world]
            BY <1>1, <2>1 DEF WorkerWrites
        <3>2. Wrote("fenced") \in Workers /\ Wrote("fenced").pc = "fenced"
            BY Typed DEF Wrote, Workers, Pcs
        <3>3. wk' \in Workers /\ wk'.pc = "fenced"
            BY <3>1, <3>2, WorldPositive DEF Workers
        <3>4. WorkerTells'
            BY <1>1, <3>1, <3>3 DEF AtMark, Inv, WorkerTells, LinearKinds
        <3> QED
            BY <1>1, <3>1, <3>3, <3>4, WorkerMoves, NothingSpent DEF AtMark
    <2>2. CASE ~WorkerMay({"running"})
        BY <1>1, <2>2, WorkerGone, NothingSpent DEF WorkerWrites, Inv, TypeOK
    <2> QED
        BY <2>1, <2>2
<1> QED
    BY <1>1, MarksSubmittedKeeps, SendsKeeps DEF SubmitPullRequestCreation, GitHubKinds

\* A merge is checked once more before the mark and before the request.
LEMMA SubmitPullRequestMergeKeeps == ASSUME Inv, SubmitPullRequestMerge PROVE Inv'
<1>1. CASE Confirmed("pr_merge") /\ ~ChangedByOthers
    <2>1. MarksSubmitted
        BY <1>1 DEF SubmitPullRequestMerge, Confirmed, AtMark
    <2> QED
        BY <1>1, <2>1, MarksSubmittedKeeps DEF GitHubKinds
<1>2. CASE Confirmed("pr_merge") /\ ChangedByOthers
    <2>1. UNCHANGED <<kind, scan, cancel, remote, heard, spent>> /\ ~At("off")
        BY <1>2 DEF SubmitPullRequestMerge, Confirmed, AtMark
    <2>2. CASE wk.clean
        BY <1>2, <2>1, <2>2, StagedKeeps, NothingSpent DEF SubmitPullRequestMerge, Confirmed, AtMark
    <2>3. CASE ~wk.clean
        BY <1>2, <2>1, <2>3, WorkerGone, NothingSpent DEF SubmitPullRequestMerge, Confirmed, AtMark, Inv, TypeOK
    <2> QED
        BY <2>2, <2>3
<1>3. CASE AtMark("pr_merge") /\ ~ChangedByOthers
    <2>1. Sends(wk.base) /\ ~Linear
        BY <1>3 DEF SubmitPullRequestMerge, Confirmed, AtMark, LinearKinds
    <2> QED
        BY <1>3, <2>1, SendsKeeps DEF AtMark
<1>4. CASE AtMark("pr_merge") /\ ChangedByOthers
    <2> DEFINE j == [job EXCEPT !.status = "completed", !.op = "planned", !.confirmed = FALSE,
                                !.owned = FALSE]
    <2>1. /\ UNCHANGED <<kind, scan, cancel, remote, heard, spent>>
          /\ WorkerWrites({"routing", "running"}, j, Off)
        BY <1>4 DEF SubmitPullRequestMerge, Confirmed, AtMark
    <2>2. CASE WorkerMay({"routing", "running"})
        <3>1. job' = j /\ wk' = Off
            BY <2>1, <2>2 DEF WorkerWrites
        <3>2. j \in Jobs
            BY Typed DEF Jobs, Ops, Terminal
        <3>3. /\ job'.status = "completed" /\ job'.op = "planned" /\ job'.base = job.base
              /\ job'.intent = job.intent /\ (job'.known <=> job.known)
              /\ ~job'.confirmed /\ ~job'.owned
            BY <3>1, Typed DEF Jobs
        <3>4. wk' \in Workers /\ wk'.pc = "off"
            BY <3>1, OffTyped
        <3>5. TypeOK'
            BY <2>1, <3>1, <3>2, <3>4 DEF Inv, TypeOK, Jobs, Workers
        <3>6. ~Requested /\ job.intent = "none" /\ job.base # 0
            BY <1>4, <2>2 DEF AtMark, WorkerMay, Inv, WorkerTells, PlanKept
        <3> QED
            BY <2>1, <3>3, <3>4, <3>5, <3>6 DEF Inv, AtMostOneWrite, WorldCounted, PlanKept,
               OpTells, StatusTells, WorkerTells, SentTells, ScanTells, Settled, Doubt
    <2>3. CASE ~WorkerMay({"routing", "running"})
        BY <2>1, <2>3, WorkerGone, NothingSpent DEF WorkerWrites, Inv, TypeOK
    <2> QED
        BY <2>2, <2>3
<1> QED
    BY <1>1, <1>2, <1>3, <1>4 DEF SubmitPullRequestMerge

\* The fence of a prompt, and its acceptance, are recorded under way.
LEMMA FencesKeeps ==
    ASSUME Inv, Linear, NEW o \in {"submitting", "submitted"}, NEW l \in {"fenced", "out"},
           o = "submitting" <=> At("marked"), At("marked") <=> l = "fenced", At("out") <=> l = "out",
           WorkerWrites({"running"}, [job EXCEPT !.op = o], Wrote(l)),
           UNCHANGED <<kind, scan, cancel, remote, heard, spent>>
    PROVE  Inv'
<1>1. CASE WorkerMay({"running"})
    <2>1. job' = [job EXCEPT !.op = o] /\ wk' = Wrote(l)
        BY <1>1 DEF WorkerWrites
    <2>2. job' \in Jobs
        BY <2>1, Typed DEF Jobs, Ops
    <2>3. /\ job'.status = job.status /\ job'.op = o /\ job'.base = job.base
          /\ job'.intent = job.intent /\ (job'.known <=> job.known)
          /\ (job'.confirmed <=> job.confirmed) /\ (job'.owned <=> job.owned)
        BY <2>1, Typed DEF Jobs
    <2>4. wk' \in Workers /\ wk'.pc = l /\ wk'.base = wk.base /\ (wk'.fresh <=> wk.fresh)
        BY <2>1, WroteFields DEF Pcs
    <2>5. TypeOK'
        BY <2>1, <2>2, <2>4 DEF Inv, TypeOK, Jobs, Workers
    <2>6. job.intent = "none" /\ job.status = "running" /\ job.confirmed
        BY <1>1 DEF WorkerMay, Inv, WorkerTells
    <2> QED
        BY <2>1, <2>3, <2>4, <2>5, <2>6 DEF Inv, AtMostOneWrite, WorldCounted, PlanKept,
           OpTells, StatusTells, WorkerTells, SentTells, ScanTells, Settled, Doubt
<1>2. CASE ~WorkerMay({"running"})
    BY <1>2, WorkerGone, NothingSpent DEF WorkerWrites, Inv, TypeOK
<1> QED
    BY <1>1, <1>2

\* The router is prompted once, behind the fence.
LEMMA PromptsKeeps == ASSUME Inv, Linear, Prompts PROVE Inv'
<1>1. ASSUME At("marked"), UNCHANGED <<kind, scan, cancel, remote, heard, spent>>,
             WorkerWrites({"running"}, [job EXCEPT !.op = "submitting"], Wrote("fenced"))
      PROVE  Inv'
    BY <1>1, FencesKeeps
<1>2. ASSUME At("out"), UNCHANGED <<kind, scan, cancel, remote, heard, spent>>,
             WorkerWrites({"running"}, [job EXCEPT !.op = "submitted"], Wrote("out"))
      PROVE  Inv'
    BY <1>2, FencesKeeps
<1> QED
    BY <1>1, <1>2, SendsKeeps DEF Prompts

\* A ticket that changed after the confirmation is planned anew.
LEMMA RedraftsKeeps ==
    ASSUME Inv, NEW k \in {"issue_update", "linear_update"}, Confirmed(k), Drafts(FALSE) PROVE Inv'
<1>1. kind # "repo_create" /\ job.known /\ At("ready") /\ job.op # "remote_created"
    BY DEF Confirmed, Inv, PlanKept
<1> QED
    BY <1>1, DraftsKeeps

\* The invariant survives every step of a submission.
LEMMA SubmitKeeps == ASSUME Inv, Submit PROVE Inv'
<1>1. ASSUME NEW k \in GitHubKinds, AtMark(k), Sends(wk.base) PROVE Inv'
    <2>1. ~Linear
        BY <1>1 DEF AtMark, GitHubKinds, LinearKinds
    <2> QED
        BY <1>1, <2>1, SendsKeeps DEF AtMark
<1>2. ASSUME SubmitIssueCreation \/ SubmitIssueClose \/ SubmitRepoCreation PROVE Inv'
    BY <1>1, <1>2, MarksSubmittedKeeps DEF SubmitIssueCreation, SubmitIssueClose,
       SubmitRepoCreation, GitHubKinds
<1>3. ASSUME SubmitIssueUpdate PROVE Inv'
    BY <1>1, <1>3, MarksSubmittedKeeps, RedraftsKeeps DEF SubmitIssueUpdate, GitHubKinds
<1>4. ASSUME SubmitLinearTicketCreation \/ SubmitLinearTicketClose \/ SubmitLinearTicketUpdate
      PROVE  Inv'
    BY <1>4, MarksRunningKeeps, RedraftsKeeps, PromptsKeeps DEF SubmitLinearTicketCreation,
       SubmitLinearTicketClose, SubmitLinearTicketUpdate, LinearKinds
<1>5. ASSUME PushFails \/ PromptFails PROVE Inv'
    BY <1>5, FailsAt, ErrsSpends DEF PushFails, PromptFails
<1>6. ASSUME CannotStart PROVE Inv'
    BY <1>6, FailsAt, ErrsSpends DEF CannotStart
<1>7. ASSUME NotSubmitted PROVE Inv'
    BY <1>7, StagedKeeps, ErrsSpends DEF NotSubmitted
<1> QED
    BY <1>2, <1>3, <1>4, <1>5, <1>6, <1>7, SubmitPullRequestCreationKeeps,
       SubmitPullRequestMergeKeeps DEF Submit

-----------------------------------------------------------------------------

\* The provider's record is of its type.
LEMMA RemoteTyped == Inv => remote \in Remotes
    BY DEF Inv, TypeOK, Remotes

\* A request in flight is acted on or lost: at most one ever is.
LEMMA ProviderKeeps == ASSUME Inv, Provider PROVE Inv'
<1>1. ASSUME Apply PROVE Inv'
    <2>1. /\ remote' = [remote EXCEPT !.inflight = FALSE, !.applied = @ + 1] /\ remote.inflight
          /\ UNCHANGED <<kind, job, wk, scan, cancel, heard, spent>>
        BY <1>1 DEF Apply
    <2>2. remote.applied = 0
        BY <2>1, RemoteTyped DEF Inv, AtMostOneWrite, Remotes
    <2>3. remote' \in Remotes
        <3>1. remote.applied + 1 \in 0..2
            BY <2>2
        <3> QED
            BY <2>1, <3>1, RemoteTyped DEF Remotes
    <2>4. /\ ~remote'.inflight /\ remote'.sent = remote.sent /\ remote'.applied = 1
          /\ remote'.world = remote.world
        BY <2>1, <2>2, RemoteTyped DEF Remotes
    <2>5. TypeOK'
        BY <2>1, <2>3 DEF Inv, TypeOK, Remotes
    <2> QED
        BY <2>1, <2>4, <2>5 DEF Inv, AtMostOneWrite, WorldCounted, PlanKept,
           OpTells, StatusTells, WorkerTells, SentTells, ScanTells
<1>2. ASSUME Refuse PROVE Inv'
    <2>1. /\ remote' = [remote EXCEPT !.inflight = FALSE]
          /\ UNCHANGED <<kind, job, wk, scan, cancel, heard, spent>>
        BY <1>2 DEF Refuse
    <2>2. remote' \in Remotes
        BY <2>1, RemoteTyped DEF Remotes
    <2>3. /\ ~remote'.inflight /\ remote'.sent = remote.sent
          /\ remote'.applied = remote.applied /\ remote'.world = remote.world
        BY <2>1, RemoteTyped DEF Remotes
    <2>4. TypeOK'
        BY <2>1, <2>2 DEF Inv, TypeOK, Remotes
    <2>5. AtMostOneWrite'
        BY <2>3, RemoteTyped DEF Inv, AtMostOneWrite, Remotes
    <2> QED
        BY <2>1, <2>3, <2>4, <2>5 DEF Inv, WorldCounted, PlanKept,
           OpTells, StatusTells, WorkerTells, SentTells, ScanTells
<1> QED
    BY <1>1, <1>2 DEF Provider

\* Others may change what is written at any time.
LEMMA OutsideEditKeeps == ASSUME Inv, OutsideEdit PROVE Inv'
<1>1. /\ remote' = [remote EXCEPT !.world = @ + 1] /\ spent' = [spent EXCEPT !.edits = @ + 1]
      /\ spent.edits < MaxEdits
      /\ UNCHANGED <<kind, job, wk, scan, cancel, heard>>
    BY DEF OutsideEdit
<1>2. spent.edits \in Nat /\ remote.world = spent.edits + 1
    BY Typed, WriteConstants DEF Spendings, Inv, WorldCounted
<1>3. remote.world + 1 \in Versions /\ spent.edits + 1 \in 0..MaxEdits
    BY <1>1, <1>2, WriteConstants DEF Versions
<1>4. remote' \in Remotes /\ spent' \in Spendings
    BY <1>1, <1>3, RemoteTyped, Typed DEF Remotes, Spendings
<1>5. /\ (remote'.inflight <=> remote.inflight) /\ remote'.sent = remote.sent
      /\ remote'.applied = remote.applied /\ remote'.world = remote.world + 1
      /\ spent'.edits = spent.edits + 1
    BY <1>1, RemoteTyped, Typed DEF Remotes, Spendings
<1>6. TypeOK'
    BY <1>1, <1>4 DEF Inv, TypeOK, Remotes, Spendings
<1> QED
    BY <1>1, <1>2, <1>5, <1>6 DEF Inv, AtMostOneWrite, WorldCounted, PlanKept,
       OpTells, StatusTells, WorkerTells, SentTells, ScanTells

-----------------------------------------------------------------------------

\* The answer says whether the write happened.
LEMMA HearsKeeps == ASSUME Inv, NEW k, Hears(k) PROVE Inv'
<1> DEFINE l == IF Written THEN "answered" ELSE "failed"
<1>1. wk' \in Workers /\ wk'.pc = l /\ wk'.base = wk.base /\ (wk'.fresh <=> wk.fresh)
    BY GoFields DEF Hears, Pcs
<1>2. WorkerTells'
    BY <1>1 DEF Hears, Inv, WorkerTells
<1> QED
    BY <1>1, <1>2, WorkerMoves, NothingSpent DEF Hears

\* An answer is lost.
LEMMA LosesAnswerKeeps == ASSUME Inv, LosesAnswer PROVE Inv'
    BY FailsAt, ErrsSpends DEF LosesAnswer

\* The command is over when the observation cannot start.
LEMMA ObservationCannotStartKeeps == ASSUME Inv, ObservationCannotStart PROVE Inv'
    BY FailsAt, ErrsSpends DEF ObservationCannotStart

\* A write reported as done was done.
LEMMA CreatedKeeps ==
    ASSUME Inv, Written, NEW S, UNCHANGED <<kind, scan, cancel, remote, heard, spent>>,
           WorkerWrites(S, [job EXCEPT !.status = "completed", !.op = "created", !.owned = FALSE], Off),
           ~At("off"), job.base # 0
    PROVE  Inv'
<1>1. CASE WorkerMay(S)
    <2>1. /\ job' = [job EXCEPT !.status = "completed", !.op = "created", !.owned = FALSE]
          /\ wk' = Off
        BY <1>1 DEF WorkerWrites
    <2>2. job' \in Jobs
        BY <2>1, Typed DEF Jobs, Ops, Terminal
    <2>3. /\ job'.status = "completed" /\ job'.op = "created" /\ job'.base = job.base
          /\ job'.intent = job.intent /\ (job'.known <=> job.known)
          /\ (job'.confirmed <=> job.confirmed) /\ ~job'.owned
        BY <2>1, Typed DEF Jobs
    <2>4. wk' \in Workers /\ wk'.pc = "off"
        BY <2>1, OffTyped
    <2>5. TypeOK'
        BY <2>2, <2>4 DEF Inv, TypeOK, Jobs, Workers
    <2>6. job.intent = "none"
        BY <1>1 DEF WorkerMay
    <2> QED
        BY <2>3, <2>4, <2>5, <2>6 DEF Inv, AtMostOneWrite, WorldCounted, PlanKept,
           OpTells, StatusTells, WorkerTells, SentTells, ScanTells, Terminal, Settled, Doubt
<1>2. CASE ~WorkerMay(S)
    BY <1>2, WorkerGone, NothingSpent DEF WorkerWrites, Inv, TypeOK
<1> QED
    BY <1>1, <1>2

\* Past the mark the plan exists.
LEMMA PastTheMark ==
    ASSUME Inv, wk.pc \in {"marked", "fenced", "nostart", "out", "answered", "failed", "clone"}
    PROVE  job.confirmed /\ job.base # 0
BY DEF Inv, WorkerTells, PlanKept

\* A worker that has the answer, or found the write, completes the job.
LEMMA FinishesKeeps ==
    ASSUME Inv, NEW k, Finishes(k), Written, wk.pc \in {"answered", "failed", "nostart"}
    PROVE  Inv'
BY CreatedKeeps, PastTheMark DEF Finishes

\* The job waits for the scan, and no worker takes it up in the meantime.
LEMMA QueuesAmbiguousKeeps ==
    ASSUME Inv, QueuesAmbiguous, Spends, wk.pc \in {"answered", "failed"}
    PROVE  Inv'
<1> DEFINE S == IF Linear THEN {"running"} ELSE {"routing", "running"}
           j == [job EXCEPT !.status = "queued", !.op = "ambiguous", !.reconcile = TRUE, !.owned = FALSE]
<1>1. WorkerWrites(S, j, Off) /\ UNCHANGED <<kind, scan, cancel, remote, heard>>
    BY DEF QueuesAmbiguous
<1>2. CASE WorkerMay(S)
    <2>1. job' = j /\ wk' = Off /\ job.intent = "none"
        BY <1>1, <1>2 DEF WorkerWrites, WorkerMay
    <2>2. job' \in Jobs
        BY <2>1, Typed DEF Jobs, Ops, Active
    <2>3. /\ job'.status = "queued" /\ job'.op = "ambiguous" /\ job'.base = job.base
          /\ job'.intent = job.intent /\ (job'.known <=> job.known)
          /\ (job'.confirmed <=> job.confirmed) /\ ~job'.owned
        BY <2>1, Typed DEF Jobs
    <2>4. wk' \in Workers /\ wk'.pc = "off"
        BY <2>1, OffTyped
    <2>5. TypeOK'
        BY <1>1, <2>2, <2>4 DEF Inv, TypeOK, Jobs, Workers, Spends, Spendings
    <2> QED
        BY <1>1, <2>1, <2>3, <2>4, <2>5, PastTheMark DEF Inv, AtMostOneWrite, WorldCounted, PlanKept,
           OpTells, StatusTells, WorkerTells, SentTells, ScanTells, Settled, Doubt, Spends
<1>3. CASE ~WorkerMay(S)
    BY <1>1, <1>3, WorkerGone DEF WorkerWrites, Inv, TypeOK
<1> QED
    BY <1>2, <1>3

\* A command that was never started is planned again.
LEMMA RetriesLaterKeeps == ASSUME Inv, RetriesLater, At("nostart"), Spends PROVE Inv'
<1> DEFINE S == {"routing", "running"}
           j == [job EXCEPT !.status = "queued", !.op = "planned", !.owned = FALSE]
<1>1. WorkerWrites(S, j, Off) /\ UNCHANGED <<kind, scan, cancel, remote, heard>>
    BY DEF RetriesLater
<1>2. CASE WorkerMay(S)
    <2>1. job' = j /\ wk' = Off /\ job.intent = "none"
        BY <1>1, <1>2 DEF WorkerWrites, WorkerMay
    <2>2. job' \in Jobs
        BY <2>1, Typed DEF Jobs, Ops, Active
    <2>3. /\ job'.status = "queued" /\ job'.op = "planned" /\ job'.base = job.base
          /\ job'.intent = job.intent /\ (job'.known <=> job.known)
          /\ (job'.confirmed <=> job.confirmed) /\ ~job'.owned
        BY <2>1, Typed DEF Jobs
    <2>4. wk' \in Workers /\ wk'.pc = "off"
        BY <2>1, OffTyped
    <2>5. TypeOK'
        BY <1>1, <2>2, <2>4 DEF Inv, TypeOK, Jobs, Workers, Spends, Spendings
    <2> QED
        BY <1>1, <2>1, <2>3, <2>4, <2>5, PastTheMark DEF Inv, AtMostOneWrite, WorldCounted, PlanKept,
           OpTells, StatusTells, WorkerTells, SentTells, ScanTells, Settled, Doubt, Spends
<1>3. CASE ~WorkerMay(S)
    BY <1>1, <1>3, WorkerGone DEF WorkerWrites, Inv, TypeOK
<1> QED
    BY <1>2, <1>3

\* Nothing was seen of the write.
LEMMA NotFoundKeeps ==
    ASSUME Inv, wk.pc \in {"failed", "nostart"}, NotFound, UNCHANGED spent \/ Errs PROVE Inv'
<1>1. Spends
    BY NothingSpent, ErrsSpends
<1>2. CASE At("nostart")
    BY <1>1, <1>2, RetriesLaterKeeps DEF NotFound, NeverStarted
<1>3. CASE At("failed")
    BY <1>1, <1>3, QueuesAmbiguousKeeps DEF NotFound, NeverStarted
<1> QED
    BY <1>2, <1>3

\* The end of a GitHub submission.
LEMMA ConcludesKeeps ==
    ASSUME Inv, NEW k, Concludes(k, Finishes(k)) PROVE Inv'
<1>1. ASSUME At("answered"), Finishes(k) PROVE Inv'
    BY <1>1, FinishesKeeps DEF Inv, WorkerTells
<1>2. ASSUME wk.pc \in {"failed", "nostart"}, Seen, Finishes(k) PROVE Inv'
    BY <1>2, FinishesKeeps, SeenWritten
<1>3. ASSUME wk.pc \in {"failed", "nostart"}, NotFound, UNCHANGED spent \/ Errs PROVE Inv'
    BY <1>3, NotFoundKeeps
<1> QED
    BY <1>1, <1>2, <1>3 DEF Concludes

\* The end of the creation of a repository.
LEMMA ConcludeRepoCreationKeeps == ASSUME Inv, ConcludeRepoCreation PROVE Inv'
<1>1. ASSUME At("answered") \/ (wk.pc \in {"failed", "nostart"} /\ Seen), Records, kind = "repo_create" PROVE Inv'
    <2>1. Written /\ UNCHANGED spent
        BY <1>1, SeenWritten DEF Records, Inv, WorkerTells
    <2> QED
        BY <1>1, <2>1, RecordsKeeps, PastTheMark
<1>2. ASSUME wk.pc \in {"failed", "nostart"}, NotFound, UNCHANGED spent \/ Errs PROVE Inv'
    BY <1>2, NotFoundKeeps
<1>3. ASSUME kind = "repo_create", ~Written, ~remote.inflight, AsksOtherName PROVE Inv'
    BY <1>3, AsksOtherNameKeeps
<1> QED
    BY <1>1, <1>2, <1>3 DEF ConcludeRepoCreation, Concludes

\* A merge left to the queue is for someone to look at.
LEMMA ConcludePullRequestMergeKeeps == ASSUME Inv, ConcludePullRequestMerge PROVE Inv'
<1> DEFINE S == {"routing", "running"}
           j == [job EXCEPT !.status = "blocked", !.op = "manual_required", !.owned = FALSE]
<1>1. ASSUME At("out"), WorkerWrites(S, j, Off),
             UNCHANGED <<kind, scan, cancel, remote, heard, spent>>
      PROVE  Inv'
    <2>1. CASE WorkerMay(S)
        <3>1. job' = j /\ wk' = Off /\ job.intent = "none"
            BY <1>1, <2>1 DEF WorkerWrites, WorkerMay
        <3>2. job' \in Jobs
            BY <3>1, Typed DEF Jobs, Ops, Active
        <3>3. /\ job'.status = "blocked" /\ job'.op = "manual_required" /\ job'.base = job.base
              /\ job'.intent = job.intent /\ (job'.known <=> job.known)
              /\ (job'.confirmed <=> job.confirmed) /\ ~job'.owned
            BY <3>1, Typed DEF Jobs
        <3>4. wk' \in Workers /\ wk'.pc = "off"
            BY <3>1, OffTyped
        <3>5. TypeOK'
            BY <1>1, <3>2, <3>4 DEF Inv, TypeOK, Jobs, Workers
        <3> QED
            BY <1>1, <3>1, <3>3, <3>4, <3>5, PastTheMark DEF Inv, AtMostOneWrite, WorldCounted,
               PlanKept, OpTells, StatusTells, WorkerTells, SentTells, ScanTells, Settled, Doubt
    <2>2. CASE ~WorkerMay(S)
        BY <1>1, <2>2, WorkerGone, NothingSpent DEF WorkerWrites, Inv, TypeOK
    <2> QED
        BY <2>1, <2>2
<1>2. ASSUME Concludes("pr_merge", FinishPullRequestMerge) PROVE Inv'
    BY <1>2, ConcludesKeeps DEF FinishPullRequestMerge
<1> QED
    BY <1>1, <1>2 DEF ConcludePullRequestMerge

\* The clone of a created repository, and its failure.
LEMMA CloneKeeps == ASSUME Inv, CloneCreatedRepo \/ CloneFails PROVE Inv'
<1>1. ASSUME CloneCreatedRepo PROVE Inv'
    <2>1. At("clone") /\ UNCHANGED <<kind, scan, cancel, remote, heard, spent>>
        BY <1>1 DEF CloneCreatedRepo
    <2>2. CASE job.status = "routing"
        BY <1>1, <2>1, <2>2, WorkerGone, NothingSpent DEF CloneCreatedRepo, Inv, TypeOK
    <2>3. CASE job.status # "routing"
        <3>1. Written /\ job.base # 0
            BY <2>1, PastTheMark DEF Inv, WorkerTells
        <3> QED
            BY <1>1, <2>1, <2>3, <3>1, CreatedKeeps DEF CloneCreatedRepo
    <2> QED
        BY <2>2, <2>3
<1>2. ASSUME CloneFails PROVE Inv'
    <2> DEFINE S == {"routing", "running"}
               j == [job EXCEPT !.status = "queued", !.reconcile = TRUE, !.owned = FALSE]
    <2>1. At("clone") /\ WorkerWrites(S, j, Off) /\ UNCHANGED <<kind, scan, cancel, remote, heard>>
        BY <1>2 DEF CloneFails
    <2>2. Spends
        BY <1>2, ErrsSpends DEF CloneFails
    <2>3. CASE WorkerMay(S)
        <3>1. job' = j /\ wk' = Off /\ job.intent = "none" /\ job.status \in S
            BY <2>1, <2>3 DEF WorkerWrites, WorkerMay
        <3>2. job' \in Jobs
            BY <3>1, Typed DEF Jobs, Active
        <3>3. /\ job'.status = "queued" /\ job'.op = job.op /\ job'.base = job.base
              /\ job'.intent = job.intent /\ (job'.known <=> job.known)
              /\ (job'.confirmed <=> job.confirmed) /\ ~job'.owned
            BY <3>1, Typed DEF Jobs
        <3>4. wk' \in Workers /\ wk'.pc = "off"
            BY <3>1, OffTyped
        <3>5. TypeOK'
            BY <2>1, <2>2, <3>2, <3>4 DEF Inv, TypeOK, Jobs, Workers, Spends, Spendings
        <3> QED
            BY <2>1, <2>2, <3>1, <3>3, <3>4, <3>5 DEF Inv, AtMostOneWrite, WorldCounted,
               PlanKept, OpTells, StatusTells, WorkerTells, SentTells, ScanTells, Settled,
               Terminal, Doubt, Spends
    <2>4. CASE ~WorkerMay(S)
        BY <2>1, <2>2, <2>4, WorkerGone DEF WorkerWrites, Inv, TypeOK
    <2> QED
        BY <2>3, <2>4
<1> QED
    BY <1>1, <1>2

\* The end of a Linear submission.
LEMMA ConcludesLinearKeeps == ASSUME Inv, NEW k, ConcludesLinear(k, Finishes(k)) PROVE Inv'
<1>1. ASSUME wk.pc \in {"answered", "failed"}, Seen, Finishes(k) PROVE Inv'
    BY <1>1, FinishesKeeps, SeenWritten
<1>2. ASSUME wk.pc \in {"answered", "failed"}, QueuesAmbiguous, UNCHANGED spent \/ Errs PROVE Inv'
    BY <1>2, QueuesAmbiguousKeeps, NothingSpent, ErrsSpends
<1> QED
    BY <1>1, <1>2 DEF ConcludesLinear

\* The invariant survives every step that ends a submission.
LEMMA ConcludeKeeps == ASSUME Inv, Conclude PROVE Inv'
<1>1. ASSUME \/ HearsIssue \/ HearsPullRequest \/ HearsMerge \/ HearsRepository
             \/ HearsIssueUpdate \/ HearsIssueClose \/ HearsTicket \/ HearsTicketUpdate
             \/ HearsTicketClose
      PROVE  Inv'
    BY <1>1, HearsKeeps DEF HearsIssue, HearsPullRequest, HearsMerge, HearsRepository,
       HearsIssueUpdate, HearsIssueClose, HearsTicket, HearsTicketUpdate, HearsTicketClose
<1>2. ASSUME \/ ConcludeIssueCreation \/ ConcludePullRequestCreation \/ ConcludeIssueUpdate
             \/ ConcludeIssueClose
      PROVE  Inv'
    BY <1>2, ConcludesKeeps DEF ConcludeIssueCreation, ConcludePullRequestCreation,
       ConcludeIssueUpdate, ConcludeIssueClose, FinishIssueCreation, FinishPullRequestCreation,
       FinishIssueUpdate, FinishIssueClose
<1>3. ASSUME ConcludeLinearTicketCreation \/ ConcludeLinearTicketUpdate \/ ConcludeLinearTicketClose
      PROVE  Inv'
    BY <1>3, ConcludesLinearKeeps DEF ConcludeLinearTicketCreation, ConcludeLinearTicketUpdate,
       ConcludeLinearTicketClose, FinishLinearTicketCreation, FinishLinearTicketUpdate,
       FinishLinearTicketClose
<1> QED
    BY <1>1, <1>2, <1>3, LosesAnswerKeeps, ObservationCannotStartKeeps,
       ConcludePullRequestMergeKeeps, ConcludeRepoCreationKeeps, CloneKeeps DEF Conclude

\* The invariant survives every step of the worker.
LEMMA WorkerKeeps == ASSUME Inv, Worker PROVE Inv'
    BY BeginKeeps, LaunchFailsKeeps, LeavesKeeps, WorkerReleaseKeeps, PlanKeeps, SubmitKeeps,
       ConcludeKeeps DEF Worker

-----------------------------------------------------------------------------

Scans == [pc : {"idle", "reconcile", "settle", "clone", "recover"}, visible : BOOLEAN]

\* The scan goes on and keeps what it has seen.
LEMMA ScanToFields ==
    ASSUME Inv, NEW l \in {"idle", "clone", "recover", "reconcile"}, ScanTo(l)
    PROVE  scan' \in Scans /\ scan'.pc = l /\ (scan'.visible <=> scan.visible)
BY DEF Inv, TypeOK, ScanTo, Scans

\* The scan goes on without writing the job.
LEMMA ScanMoves ==
    ASSUME Inv, UNCHANGED <<kind, job, wk, cancel, remote, heard>>, Spends, scan' \in Scans,
           scan'.visible => Written, scan'.pc \in {"reconcile", "settle"} =>
                                       scan.pc = "reconcile" \/ job.op # "remote_created"
    PROVE  Inv'
<1>1. TypeOK'
    BY DEF Inv, TypeOK, Spends, Spendings, Scans
<1> QED
    BY <1>1 DEF Inv, AtMostOneWrite, WorldCounted, PlanKept, OpTells, StatusTells,
       WorkerTells, SentTells, ScanTells, Spends

\* The scan never begins to judge a repository recorded as created.
LEMMA ScanStartKeeps == ASSUME Inv, ScanStart PROVE Inv'
<1>1. Uncertain => job.op # "remote_created"
    BY DEF Uncertain
<1>2. CASE Uncertain /\ job.op \in Judged
    BY <1>1, <1>2, ScanToFields, ScanMoves, NothingSpent DEF ScanStart, Inv, ScanTells
<1>3. CASE ~(Uncertain /\ job.op \in Judged)
    BY <1>3, ScanToFields, ScanMoves, NothingSpent DEF ScanStart, Inv, ScanTells
<1> QED
    BY <1>2, <1>3

\* What the scan says it saw was written.
LEMMA LooksKeeps == ASSUME Inv, Looks PROVE Inv'
<1>1. ASSUME scan' = [pc |-> "settle", visible |-> Seen], UNCHANGED spent PROVE Inv'
    <2>1. Seen \in BOOLEAN
        BY DEF Seen, SeesIssue, SeesPullRequest, SeesMerge, SeesRepository, SeesIssueUpdate,
           SeesIssueClose, SeesTicket, SeesTicketUpdate, SeesTicketClose, Marked, Unedited
    <2>2. scan' \in Scans /\ scan'.pc = "settle" /\ (scan'.visible <=> Seen)
        BY <1>1, <2>1 DEF Scans
    <2> QED
        BY <1>1, <2>2, ScanMoves, NothingSpent, SeenWritten DEF Looks
<1>2. ASSUME Errs, scan' = [pc |-> IF Linear THEN "recover" ELSE "settle", visible |-> FALSE] PROVE Inv'
    <2>1. scan' \in Scans /\ ~scan'.visible
        BY <1>2 DEF Scans
    <2> QED
        BY <1>2, <2>1, ScanMoves, ErrsSpends DEF Looks
<1> QED
    BY <1>1, <1>2 DEF Looks

\* What the reconciliation records, and when it may.
LEMMA SettledKeeps ==
    ASSUME Inv, NEW s \in {"completed", "blocked"}, NEW o \in Settled, s = "completed" <=> o = "created",
           ScanWrites(Reconciled(s, o), "recover"), o = "created" => Written,
           job.op \in Doubt \cup {"remote_created"},
           job.status = "completed" => o = "created",
           UNCHANGED <<kind, cancel, remote, heard, spent>>
    PROVE  Inv'
<1> DEFINE j == Reconciled(s, o)
           t == IF job.status \in Terminal THEN job.status ELSE s
<1>1. j \in Jobs
    BY Typed DEF Jobs, Ops, Active, Terminal, Settled, Reconciled
<1>2. /\ j.status = t /\ j.op = o /\ j.base = job.base
      /\ j.intent = job.intent /\ (j.known <=> job.known)
      /\ (j.confirmed <=> job.confirmed) /\ ~j.owned
    BY Typed DEF Jobs, Reconciled
<1> HIDE DEF j
<1>3. CASE job.intent # "none" /\ j.status # job.status
    BY <1>3, ScanToFields, ScanMoves, NothingSpent DEF ScanWrites, Inv, ScanTells, j
<1>4. CASE ~(job.intent # "none" /\ j.status # job.status)
    <2>1. ScanTo("recover") /\ job' = j /\ wk' = Stale
        BY <1>4 DEF ScanWrites, j
    <2>2. scan' \in Scans /\ scan'.pc = "recover" /\ (scan'.visible <=> scan.visible)
        BY <2>1, ScanToFields
    <2>3. wk' \in Workers /\ wk'.pc = wk.pc /\ wk'.base = wk.base /\ ~wk'.fresh
        BY <2>1, StaleFields
    <2>4. TypeOK'
        BY <1>1, <2>1, <2>2, <2>3 DEF Inv, TypeOK, Jobs, Workers, Scans
    <2>5. job.intent = "none" /\ job.confirmed
        BY <1>2, <1>4 DEF Inv, StatusTells, OpTells, Terminal
    <2>6. job.base # 0 /\ job.status # "awaiting"
        BY <2>5 DEF Inv, PlanKept, StatusTells
    <2>7. job'.status = t /\ job'.op = o /\ job'.base = job.base /\ job'.intent = job.intent
          /\ (job'.known <=> job.known) /\ (job'.confirmed <=> job.confirmed) /\ ~job'.owned
        BY <1>2, <2>1
    <2>8. OpTells' /\ StatusTells'
        BY <2>5, <2>6, <2>7 DEF Inv, OpTells, StatusTells, Terminal, Settled, Doubt
    <2>9. WorkerTells' /\ ScanTells'
        BY <2>2, <2>3, <2>6, <2>7 DEF Inv, WorkerTells, ScanTells, Settled
    <2> QED
        BY <2>4, <2>6, <2>7, <2>8, <2>9 DEF Inv, AtMostOneWrite, WorldCounted, PlanKept, SentTells
<1> QED
    BY <1>3, <1>4

\* An operation in doubt is settled by what was seen of it.
LEMMA SettlesKeeps ==
    ASSUME Inv, NEW S \in {GitHubDoubt, LinearDoubt, RepoDoubt}, Settles(S),
           S = RepoDoubt => ~scan.visible
    PROVE  Inv'
<1>1. scan.pc = "settle" /\ UNCHANGED <<kind, cancel, remote, heard, spent>>
    BY DEF Settles
<1>2. CASE ~StillInDoubt(S)
    BY <1>1, <1>2, ScanToFields, ScanMoves, NothingSpent DEF Settles, Inv, ScanTells
<1>3. CASE StillInDoubt(S)
    <2>1. job.op \in Doubt \cup {"remote_created"}
        BY <1>3 DEF StillInDoubt, GitHubDoubt, LinearDoubt, RepoDoubt, Doubt
    <2>2. job.status = "completed" => FALSE
        BY <1>1, <2>1 DEF Inv, StatusTells, ScanTells, Doubt
    <2>3. CASE scan.visible
        <3>1. ScanWrites(Reconciled("completed", "created"), "recover") /\ Written
            BY <1>3, <2>3 DEF Settles, Inv, ScanTells
        <3> QED
            BY <1>1, <2>1, <2>2, <3>1, SettledKeeps DEF Settled
    <2>4. CASE ~scan.visible
        <3>1. ScanWrites(Reconciled("blocked", "manual_required"), "recover")
            BY <1>3, <2>4 DEF Settles
        <3> QED
            BY <1>1, <2>1, <2>2, <3>1, SettledKeeps DEF Settled
    <2> QED
        BY <2>3, <2>4
<1> QED
    BY <1>2, <1>3

\* The reconciliation of one kind of write.
LEMMA ReconcilesKeeps ==
    ASSUME Inv, NEW k, NEW S \in {GitHubDoubt, LinearDoubt}, Reconciles(k, S) PROVE Inv'
<1>1. S # RepoDoubt
    BY DEF GitHubDoubt, LinearDoubt, RepoDoubt
<1> QED
    BY <1>1, LooksKeeps, SettlesKeeps DEF Reconciles

\* The repository that was found is recorded before it is cloned.
LEMMA RecordedKeeps ==
    ASSUME Inv, kind = "repo_create", scan.pc = "settle", Written, job.op \in RepoDoubt,
           ScanWrites([job EXCEPT !.op = "remote_created"], "clone"),
           UNCHANGED <<kind, cancel, remote, heard, spent>>
    PROVE  Inv'
<1> DEFINE j == [job EXCEPT !.op = "remote_created"]
<1>1. j \in Jobs
    BY Typed DEF Jobs, Ops
<1>2. /\ j.status = job.status /\ j.op = "remote_created" /\ j.base = job.base
      /\ j.intent = job.intent /\ (j.known <=> job.known)
      /\ (j.confirmed <=> job.confirmed) /\ (j.owned <=> job.owned)
    BY Typed DEF Jobs
<1> HIDE DEF j
<1>3. ScanTo("clone") /\ job' = j /\ wk' = Stale
    BY <1>2 DEF ScanWrites, j
<1>4. scan' \in Scans /\ scan'.pc = "clone" /\ (scan'.visible <=> scan.visible)
    BY <1>3, ScanToFields
<1>5. wk' \in Workers /\ wk'.pc = wk.pc /\ wk'.base = wk.base /\ ~wk'.fresh
    BY <1>3, StaleFields
<1>6. TypeOK'
    BY <1>1, <1>3, <1>4, <1>5 DEF Inv, TypeOK, Jobs, Workers, Scans
<1>7. job.confirmed /\ job.op \in Doubt \cup {"remote_created"}
    BY DEF RepoDoubt, GitHubDoubt, Doubt, Inv, OpTells
<1>8. job'.status = job.status /\ job'.op = "remote_created" /\ job'.base = job.base
      /\ job'.intent = job.intent
      /\ (job'.known <=> job.known) /\ (job'.confirmed <=> job.confirmed)
      /\ (job'.owned <=> job.owned)
    BY <1>2, <1>3
<1>9. OpTells' /\ StatusTells' /\ PlanKept'
    BY <1>5, <1>7, <1>8 DEF Inv, OpTells, StatusTells, PlanKept, Settled, Doubt
<1>10. WorkerTells' /\ ScanTells'
    BY <1>4, <1>5, <1>7, <1>8 DEF Inv, WorkerTells, ScanTells
<1> QED
    BY <1>6, <1>9, <1>10 DEF Inv, AtMostOneWrite, WorldCounted, SentTells

\* The reconciliation of a repository goes by way of the clone.
LEMMA ReconcileRepoCreationKeeps == ASSUME Inv, ReconcileRepoCreation PROVE Inv'
<1>1. ASSUME scan.pc = "settle", ~scan.visible, Settles(RepoDoubt) PROVE Inv'
    BY <1>1, SettlesKeeps
<1>2. ASSUME scan.pc \in {"settle", "clone"}, ScanTo("recover"), UNCHANGED <<job, wk>>,
             UNCHANGED <<kind, cancel, remote, heard>>, UNCHANGED spent \/ Errs
      PROVE  Inv'
    BY <1>2, ScanToFields, ScanMoves, NothingSpent, ErrsSpends DEF Inv, ScanTells
<1>3. ASSUME kind = "repo_create", scan.pc = "settle", scan.visible, StillInDoubt(RepoDoubt),
             ScanWrites([job EXCEPT !.op = "remote_created"], "clone"),
             UNCHANGED <<kind, cancel, remote, heard, spent>>
      PROVE  Inv'
    <2>1. Written
        BY <1>3 DEF Inv, ScanTells
    <2> QED
        BY <1>3, <2>1, RecordedKeeps DEF StillInDoubt
<1>4. ASSUME scan.pc = "clone", job.op = "remote_created",
             ScanWrites(Reconciled("completed", "created"), "recover"),
             UNCHANGED <<kind, cancel, remote, heard, spent>>
      PROVE  Inv'
    <2>1. Written
        BY <1>4 DEF Inv, OpTells
    <2> QED
        BY <1>4, <2>1, SettledKeeps DEF Settled
<1> QED
    BY <1>1, <1>2, <1>3, <1>4, LooksKeeps DEF ReconcileRepoCreation

\* A new worker is launched for a job that has submitted nothing, or whose repository the
\* scan has just passed over.
LEMMA LaunchedKeeps ==
    ASSUME Inv, NEW STATE j, j \in Jobs, job' = Launched(j), wk' = NewWorker, At("off"),
           job.intent = "none", j.intent = "none", j.op = job.op, j.base = job.base,
           job.known => j.known, job.confirmed => j.confirmed, job.op \in Unsent \cup {"remote_created"},
           j.confirmed => heard' = job.base /\ job.base # 0,
           job.op = "remote_created" => /\ scan.pc = "recover" /\ scan'.pc = "idle"
                                        /\ j.confirmed,
           heard' \in Versions, heard' # heard => ~Requested,
           scan' \in Scans, scan'.visible <=> scan.visible,
           UNCHANGED <<kind, cancel, remote, spent>>
    PROVE  Inv'
<1>1. job' \in Jobs
    BY DEF Launched, Jobs, Active
<1>2. /\ job'.status = "queued" /\ job'.op = job.op /\ job'.base = job.base
      /\ job'.intent = "none" /\ (job'.known <=> j.known)
      /\ (job'.confirmed <=> j.confirmed) /\ job'.owned
    BY DEF Launched, Jobs
<1>3. wk' \in Workers /\ wk'.pc = "launched"
    BY OffTyped DEF NewWorker, Workers, Pcs
<1>4. TypeOK'
    BY <1>1, <1>3 DEF Inv, TypeOK, Jobs, Workers, Scans
<1>5. PlanKept' /\ OpTells' /\ StatusTells'
    BY <1>2, <1>3 DEF Inv, PlanKept, OpTells, StatusTells, Doubt, Settled
<1>6. WorkerTells' /\ SentTells' /\ ScanTells'
    BY <1>2, <1>3 DEF Inv, WorkerTells, SentTells, ScanTells
<1> QED
    BY <1>4, <1>5, <1>6 DEF Inv, AtMostOneWrite, WorldCounted

\* recover starts an abandoned job again, unless its operation is in doubt.
LEMMA RecoverKeeps == ASSUME Inv, Recover PROVE Inv'
<1>1. scan.pc = "recover" /\ ScanTo("idle") /\ UNCHANGED <<kind, cancel, remote, heard, spent>>
    BY DEF Recover
<1>2. scan' \in Scans /\ scan'.pc = "idle" /\ (scan'.visible <=> scan.visible)
    BY <1>1, ScanToFields
<1>3. ASSUME job.intent # "none", job' = Materialized, wk' = Off PROVE Inv'
    BY <1>1, <1>2, <1>3, OffTyped, MaterializedKeeps DEF Scans, Inv, TypeOK
<1>4. ASSUME job.intent = "none", ~LeftAlone, Abandoned, wk' = NewWorker,
             job' = Launched([job EXCEPT !.reconcile = @ /\ job.status = "queued"])
      PROVE  Inv'
    <2> DEFINE j == [job EXCEPT !.reconcile = @ /\ job.status = "queued"]
    <2>1. j \in Jobs
        BY Typed DEF Jobs
    <2>2. /\ j.op = job.op /\ j.base = job.base /\ j.intent = job.intent
          /\ (j.known <=> job.known) /\ (j.confirmed <=> job.confirmed)
        BY Typed DEF Jobs
    <2>3. At("off") /\ job.status \in {"queued", "routing", "running", "reconciling"}
        BY <1>4 DEF Abandoned, Working
    <2>4. job.op \in Unsent \cup {"remote_created"}
        BY <1>4, <2>3, Typed DEF LeftAlone, Uncertain, Jobs, Ops, Inv, OpTells, StatusTells, Settled, Terminal
    <2>5. /\ job.confirmed => heard = job.base /\ job.base # 0
          /\ job.op = "remote_created" => job.confirmed
          /\ heard \in Versions
        BY DEF Inv, PlanKept, OpTells, TypeOK
    <2>6. job' = Launched(j)
        BY <1>4
    <2> HIDE DEF j
    <2> QED
        BY <1>1, <1>2, <1>4, <2>1, <2>2, <2>3, <2>4, <2>5, <2>6, LaunchedKeeps
<1>5. ASSUME UNCHANGED <<job, wk>> PROVE Inv'
    BY <1>1, <1>2, <1>5, ScanMoves, NothingSpent DEF Inv, ScanTells
<1> QED
    BY <1>3, <1>4, <1>5 DEF Recover

\* The invariant survives every step of the scan.
LEMMA ScanKeeps == ASSUME Inv, Scan PROVE Inv'
    BY ScanStartKeeps, RecoverKeeps, ReconcilesKeeps, ReconcileRepoCreationKeeps
    DEF Scan, ReconcileIssueCreation, ReconcilePullRequestCreation, ReconcilePullRequestMerge,
        ReconcileIssueUpdate, ReconcileIssueClose, ReconcileLinearTicketCreation,
        ReconcileLinearTicketUpdate, ReconcileLinearTicketClose

-----------------------------------------------------------------------------

\* A yes makes the plan in the job the one to be written.
LEMMA AnswerYesKeeps == ASSUME Inv, NEW k, AnswerYes(k) PROVE Inv'
<1> DEFINE j == [job EXCEPT !.confirmed = TRUE]
<1>1. /\ job.status = "awaiting" /\ job.known /\ At("off") /\ job' = Launched(j)
      /\ wk' = NewWorker /\ heard' = job.base
      /\ UNCHANGED <<kind, scan, cancel, remote, spent>>
    BY DEF AnswerYes
<1>2. j \in Jobs
    BY Typed DEF Jobs
<1>3. /\ j.op = job.op /\ j.base = job.base /\ j.intent = job.intent /\ (j.known <=> job.known)
      /\ j.confirmed
    BY Typed DEF Jobs
<1>4. job.op \in Unsent /\ job.base # 0 /\ job.intent = "none" /\ ~Requested
    BY <1>1 DEF Inv, StatusTells, OpTells
<1>5. heard' \in Versions /\ scan' \in Scans
    BY <1>1, Typed DEF Jobs, Inv, TypeOK, Scans
<1> HIDE DEF j
<1> QED
    BY <1>1, <1>2, <1>3, <1>4, <1>5, LaunchedKeeps

\* The target that was asked for is known.
LEMMA AnswerIdentityKeeps == ASSUME Inv, AnswerIdentity PROVE Inv'
<1> DEFINE j == [job EXCEPT !.known = TRUE]
<1>1. /\ job.status = "awaiting" /\ ~job.known /\ At("off") /\ job' = Launched(j)
      /\ wk' = NewWorker /\ UNCHANGED <<kind, scan, cancel, remote, heard, spent>>
    BY DEF AnswerIdentity
<1>2. j \in Jobs
    BY Typed DEF Jobs
<1>3. /\ j.op = job.op /\ j.base = job.base /\ j.intent = job.intent /\ j.known
      /\ (j.confirmed <=> job.confirmed)
    BY Typed DEF Jobs
<1>4. job.op \in Unsent /\ ~job.confirmed /\ job.intent = "none"
    BY <1>1 DEF Inv, StatusTells
<1>5. heard' \in Versions /\ scan' \in Scans
    BY <1>1 DEF Inv, TypeOK, Scans
<1> HIDE DEF j
<1> QED
    BY <1>1, <1>2, <1>3, <1>4, <1>5, LaunchedKeeps

\* A no completes a job that has submitted nothing.
LEMMA AnswerNoKeeps == ASSUME Inv, NEW k, AnswerNo(k) PROVE Inv'
<1>1. /\ job.status = "awaiting" /\ job' = [job EXCEPT !.status = "completed"] /\ heard' = 0
      /\ UNCHANGED <<kind, wk, scan, cancel, remote, spent>>
    BY DEF AnswerNo
<1>2. job' \in Jobs
    BY <1>1, Typed DEF Jobs, Terminal
<1>3. /\ job'.status = "completed" /\ job'.op = job.op /\ job'.base = job.base
      /\ job'.intent = job.intent /\ (job'.known <=> job.known)
      /\ (job'.confirmed <=> job.confirmed) /\ (job'.owned <=> job.owned)
    BY <1>1, Typed DEF Jobs
<1>4. job.op \in Unsent /\ ~job.confirmed /\ At("off") /\ job.intent = "none" /\ ~Requested
    BY <1>1 DEF Inv, StatusTells, OpTells
<1>5. heard' \in Versions
    BY <1>1, WriteConstants DEF Versions
<1>6. TypeOK'
    BY <1>1, <1>2, <1>5 DEF Inv, TypeOK, Jobs
<1> QED
    BY <1>1, <1>3, <1>4, <1>6 DEF Inv, AtMostOneWrite, WorldCounted, PlanKept, OpTells,
       StatusTells, WorkerTells, SentTells, ScanTells, Terminal, Settled, Doubt

\* A cancellation is staged and makes the worker stale.
LEMMA CancelStageKeeps == ASSUME Inv, CancelStage PROVE Inv'
<1>1. /\ job' = Staged("cancelled") /\ wk' = Stale /\ cancel' = "stop"
      /\ spent.cancels < MaxCancels /\ spent' = [spent EXCEPT !.cancels = @ + 1]
      /\ UNCHANGED <<kind, scan, remote, heard>> /\ job.status # "completed"
    BY DEF CancelStage, Active
<1>2. job' \in Jobs
    BY <1>1, Typed DEF Jobs, Active, Staged
<1>3. /\ job'.status = "reconciling" /\ job'.op = job.op /\ job'.base = job.base
      /\ job'.intent = "cancelled" /\ (job'.known <=> job.known)
      /\ (job'.confirmed <=> job.confirmed) /\ (job'.owned <=> job.owned)
    BY <1>1, Typed DEF Jobs, Staged
<1>4. wk' \in Workers /\ wk'.pc = wk.pc /\ wk'.base = wk.base /\ ~wk'.fresh
    BY <1>1, StaleFields
<1>5. Spends
    <2>1. spent.cancels + 1 \in 0..MaxCancels
        BY <1>1, Typed, WriteConstants DEF Spendings
    <2> QED
        BY <1>1, <2>1, Typed DEF Spends, Spendings
<1>6. TypeOK'
    BY <1>1, <1>2, <1>4, <1>5 DEF Inv, TypeOK, Jobs, Workers, Spends, Spendings
<1> QED
    BY <1>1, <1>3, <1>4, <1>5, <1>6 DEF Inv, AtMostOneWrite, WorldCounted, PlanKept, OpTells,
       StatusTells, WorkerTells, SentTells, ScanTells, Spends

\* The staged cancellation is released, unless the scan has done so.
LEMMA CancelReleaseKeeps == ASSUME Inv, CancelRelease PROVE Inv'
<1>1. cancel' = "idle" /\ UNCHANGED <<kind, wk, scan, remote, heard, spent>>
    BY DEF CancelRelease
<1>2. CASE job.intent = "cancelled"
    BY <1>1, <1>2, MaterializedKeeps, Typed DEF CancelRelease, Inv, TypeOK
<1>3. CASE job.intent # "cancelled"
    <2>1. job' = job
        BY <1>3 DEF CancelRelease
    <2> QED
        BY <1>1, <2>1 DEF Inv, TypeOK, AtMostOneWrite, WorldCounted, PlanKept, OpTells,
           StatusTells, WorkerTells, SentTells, ScanTells
<1> QED
    BY <1>2, <1>3

\* The invariant survives the canceller and every crash.
LEMMA CancellerKeeps == ASSUME Inv, Canceller \/ WorkerCrash \/ CancellerCrash PROVE Inv'
<1>1. ASSUME CancelStop PROVE Inv'
    BY <1>1, WorkerGone, NothingSpent DEF CancelStop
<1>2. ASSUME WorkerCrash PROVE Inv'
    BY <1>2, WorkerGone, CrashSpends DEF WorkerCrash, Inv, TypeOK
<1>3. ASSUME CancellerCrash PROVE Inv'
    <2>1. Spends
        BY <1>3, CrashSpends DEF CancellerCrash
    <2>2. TypeOK'
        BY <1>3, <2>1 DEF CancellerCrash, Inv, TypeOK, Spends, Spendings
    <2> QED
        BY <1>3, <2>1, <2>2 DEF CancellerCrash, Inv, AtMostOneWrite, WorldCounted, PlanKept, OpTells,
           StatusTells, WorkerTells, SentTells, ScanTells, Spends
<1> QED
    BY <1>1, <1>2, <1>3, CancelReleaseKeeps DEF Canceller

\* The invariant survives every answer of the user.
LEMMA UserKeeps == ASSUME Inv, User PROVE Inv'
    BY AnswerYesKeeps, AnswerNoKeeps, AnswerIdentityKeeps, CancelStageKeeps
    DEF User, AnswerIssueCreation, AnswerPullRequestCreation, AnswerPullRequestMerge,
        AnswerRepoCreation, AnswerLinearTicketCreation, AnswerIssueUpdate, AnswerLinearTicketUpdate,
        AnswerIssueClose, AnswerLinearTicketClose

\* A new job satisfies the invariant.
LEMMA InitInv == ASSUME Init PROVE Inv
<1>1. PICK k \in BOOLEAN, r \in BOOLEAN :
        /\ ~k => kind \in {"issue_create", "pr_merge", "repo_create", "linear_create"}
        /\ job = [status |-> "queued", op |-> "none", known |-> k, resolved |-> r,
                  confirmed |-> FALSE, base |-> 0, owned |-> FALSE, reconcile |-> FALSE,
                  intent |-> "none"]
    BY DEF Init
<1>2. 0 \in Versions /\ 1 \in Versions
    BY WriteConstants DEF Versions
<1>3. job \in Jobs
    BY <1>1, <1>2 DEF Jobs, Active, Ops
<1>4. remote \in Remotes /\ spent \in Spendings /\ wk \in Workers
    BY <1>2, OffTyped, WriteConstants DEF Init, Remotes, Spendings
<1>5. TypeOK
    BY <1>2, <1>3, <1>4 DEF Init, TypeOK, Jobs, Remotes, Spendings, Workers
<1> QED
    BY <1>1, <1>5, OffTyped DEF Init, Inv, AtMostOneWrite, WorldCounted, PlanKept, OpTells,
       StatusTells, WorkerTells, SentTells, ScanTells, Settled, Doubt

\* Every step keeps the invariant.
LEMMA NextInv == ASSUME Inv, [Next]_vars PROVE Inv'
<1>1. CASE UNCHANGED vars
    BY <1>1 DEF vars, Inv, TypeOK, AtMostOneWrite, WorldCounted, PlanKept, OpTells,
       StatusTells, WorkerTells, SentTells, ScanTells
<1>2. CASE Next
    BY <1>2, WorkerKeeps, ScanKeeps, UserKeeps, CancellerKeeps, ProviderKeeps, OutsideEditKeeps
    DEF Next
<1> QED
    BY <1>1, <1>2

\* The inductive invariant: what the store says is never behind the provider, and where
\* the worker and the scan stand agrees with the store.
THEOREM WriteInvariant == Spec => []Inv
    BY InitInv, NextInv, PTL DEF Spec

\* Every state of the store, of the processes and of the provider is of its type.
THEOREM TypeCorrect == Spec => []TypeOK
<1>1. Inv => TypeOK
    BY DEF Inv
<1> QED
    BY <1>1, WriteInvariant, PTL

\* The provider is asked at most once per job, for every kind of write and any number of
\* crashes, lost answers, cancellations and edits by others.
THEOREM NeverWrittenTwice == Spec => []AtMostOneWrite
<1>1. Inv => AtMostOneWrite
    BY DEF Inv
<1> QED
    BY <1>1, WriteInvariant, PTL

\* What the job reports as done was done, and a job completed without a write wrote nothing
\* and has nothing out, but for a confirmed repository whose creation was taken for a gh
\* that could not be started.
THEOREM TruthfulReports == Spec => []ReportedTruthfully
<1>1. Inv => ReportedTruthfully
    BY RemoteTyped DEF Inv, ReportedTruthfully, AtMostOneWrite, OpTells, StatusTells, Remotes
<1> QED
    BY <1>1, WriteInvariant, PTL

\* Planning asks the provider for nothing that writes.
LEMMA PlanLeavesProvider == Plan => UNCHANGED remote
<1>1. \A c : Drafts(c) => UNCHANGED remote
    BY DEF Drafts
<1>2. Resumes \/ Asks(job) \/ AsksOtherName \/ Records => UNCHANGED remote
    BY DEF Resumes, Asks, AsksOtherName, Records
<1>3. \A k : PlansOnce(k) \/ PlansFresh(k) \/ AsksIdentity(k) => UNCHANGED remote
    BY <1>1, <1>2 DEF PlansOnce, PlansFresh, AsksIdentity
<1>4. PlanPullRequestCreation \/ PlanRepoCreation \/ RefuseWrite \/ ResolveTarget \/ PlanFails
        \/ AskConfirmation => UNCHANGED remote
    BY <1>1, <1>2, <1>3 DEF PlanPullRequestCreation, PlanRepoCreation, RefuseWrite, ResolveTarget,
       PlanFails, AskConfirmation
<1> QED
    BY <1>3, <1>4 DEF Plan, PlanIssueCreation, PlanLinearTicketCreation, PlanIssueClose,
       PlanLinearTicketClose, PlanPullRequestMerge, PlanIssueUpdate, PlanLinearTicketUpdate

\* A submission changes the provider only by the request that leaves.
LEMMA SubmitSends == Submit => UNCHANGED remote \/ Sends(wk.base)
<1>1. MarksSubmitted \/ MarksRunning \/ Drafts(FALSE) => UNCHANGED remote
    BY DEF MarksSubmitted, MarksRunning, Drafts
<1>2. Prompts => UNCHANGED remote \/ Sends(wk.base)
    BY DEF Prompts
<1>3. SubmitPullRequestCreation \/ SubmitPullRequestMerge => UNCHANGED remote \/ Sends(wk.base)
    BY <1>1 DEF SubmitPullRequestCreation, SubmitPullRequestMerge
<1>4. PushFails \/ CannotStart \/ NotSubmitted \/ PromptFails => UNCHANGED remote
    BY DEF PushFails, CannotStart, NotSubmitted, PromptFails
<1> QED
    BY <1>1, <1>2, <1>3, <1>4 DEF Submit, SubmitIssueCreation, SubmitRepoCreation,
       SubmitLinearTicketCreation, SubmitIssueUpdate, SubmitLinearTicketUpdate, SubmitIssueClose,
       SubmitLinearTicketClose

\* Concluding writes nothing.
LEMMA ConcludeLeavesProvider == Conclude => UNCHANGED remote
<1>1. \A k : Hears(k) \/ Finishes(k) => UNCHANGED remote
    BY DEF Hears, Finishes
<1>2. QueuesAmbiguous \/ NotFound \/ Records \/ AsksOtherName => UNCHANGED remote
    BY DEF QueuesAmbiguous, NotFound, RetriesLater, Records, AsksOtherName, Asks
<1>3. \A k : Concludes(k, Finishes(k)) \/ ConcludesLinear(k, Finishes(k)) => UNCHANGED remote
    BY <1>1, <1>2 DEF Concludes, ConcludesLinear
<1>4. ConcludePullRequestMerge => UNCHANGED remote
    BY <1>3 DEF ConcludePullRequestMerge, FinishPullRequestMerge
<1>5. ConcludeRepoCreation \/ CloneCreatedRepo \/ CloneFails \/ LosesAnswer
        \/ ObservationCannotStart => UNCHANGED remote
    BY <1>2 DEF ConcludeRepoCreation, Concludes, CloneCreatedRepo, CloneFails, LosesAnswer,
       ObservationCannotStart
<1>6. ASSUME \/ HearsIssue \/ HearsPullRequest \/ HearsMerge \/ HearsRepository
             \/ HearsIssueUpdate \/ HearsIssueClose \/ HearsTicket \/ HearsTicketUpdate
             \/ HearsTicketClose
      PROVE  UNCHANGED remote
    BY <1>1, <1>6 DEF HearsIssue, HearsPullRequest, HearsMerge, HearsRepository,
       HearsIssueUpdate, HearsIssueClose, HearsTicket, HearsTicketUpdate, HearsTicketClose
<1>7. ASSUME \/ ConcludeIssueCreation \/ ConcludePullRequestCreation \/ ConcludeIssueUpdate
             \/ ConcludeIssueClose
      PROVE  UNCHANGED remote
    BY <1>3, <1>7 DEF ConcludeIssueCreation, ConcludePullRequestCreation, ConcludeIssueUpdate,
       ConcludeIssueClose, FinishIssueCreation, FinishPullRequestCreation, FinishIssueUpdate,
       FinishIssueClose
<1>8. ConcludeLinearTicketCreation \/ ConcludeLinearTicketUpdate \/ ConcludeLinearTicketClose
        => UNCHANGED remote
    BY <1>3 DEF ConcludeLinearTicketCreation, ConcludeLinearTicketUpdate,
       ConcludeLinearTicketClose, FinishLinearTicketCreation, FinishLinearTicketUpdate,
       FinishLinearTicketClose
<1> QED
    BY <1>4, <1>5, <1>6, <1>7, <1>8 DEF Conclude

\* Reconciling and recovering write nothing.
LEMMA ScanLeavesProvider == Scan => UNCHANGED remote
<1>1. \A k, S : Reconciles(k, S) => UNCHANGED remote
    BY DEF Reconciles, Looks, Settles
<1>2. ScanStart \/ Recover \/ ReconcileRepoCreation => UNCHANGED remote
    BY DEF ScanStart, Recover, ReconcileRepoCreation, Looks, Settles
<1> QED
    BY <1>1, <1>2 DEF Scan, ReconcileIssueCreation, ReconcilePullRequestCreation,
       ReconcilePullRequestMerge, ReconcileIssueUpdate, ReconcileIssueClose,
       ReconcileLinearTicketCreation, ReconcileLinearTicketUpdate, ReconcileLinearTicketClose

\* Answers write nothing.
LEMMA UserLeavesProvider == User => UNCHANGED remote
<1>1. \A k : AnswerYes(k) \/ AnswerNo(k) => UNCHANGED remote
    BY DEF AnswerYes, AnswerNo
<1> QED
    BY <1>1 DEF User, AnswerIdentity, CancelStage, AnswerIssueCreation, AnswerPullRequestCreation,
       AnswerPullRequestMerge, AnswerRepoCreation, AnswerLinearTicketCreation, AnswerIssueUpdate,
       AnswerLinearTicketUpdate, AnswerIssueClose, AnswerLinearTicketClose

\* Only the provider's own step writes.
LEMMA OnlyApplyWrites == ASSUME Inv, Next, ~Apply PROVE remote'.applied = remote.applied
<1>1. remote \in Remotes
    BY RemoteTyped
<1>2. ASSUME Sends(wk.base) PROVE remote'.applied = remote.applied
    BY <1>1, <1>2 DEF Sends, Remotes
<1>3. ASSUME Refuse PROVE remote'.applied = remote.applied
    BY <1>1, <1>3 DEF Refuse, Remotes
<1>4. ASSUME OutsideEdit PROVE remote'.applied = remote.applied
    BY <1>1, <1>4 DEF OutsideEdit, Remotes
<1>5. Worker => UNCHANGED remote \/ Sends(wk.base)
    BY PlanLeavesProvider, SubmitSends, ConcludeLeavesProvider
    DEF Worker, Begin, LaunchFails, Leaves, WorkerRelease
<1>6. Canceller \/ WorkerCrash \/ CancellerCrash => UNCHANGED remote
    BY DEF Canceller, CancelStop, CancelRelease, WorkerCrash, CancellerCrash
<1> QED
    BY <1>2, <1>3, <1>4, <1>5, <1>6, ScanLeavesProvider, UserLeavesProvider DEF Next, Provider

\* What is written is the plan the user last said yes to, in every step of every behaviour.
THEOREM WritesWhatWasConfirmed == Spec => WrittenAsConfirmed
<1> DEFINE A == remote'.applied > remote.applied =>
                  /\ heard # 0
                  /\ kind = "pr_create" \/ remote.sent = heard
<1>1. ASSUME Inv, [Next]_vars PROVE [A]_vars
    <2>1. ASSUME Apply PROVE A
        BY <1>1, <2>1 DEF Apply, Inv, SentTells
    <2>2. ASSUME Next, ~Apply PROVE A
        BY <1>1, <2>2, OnlyApplyWrites, RemoteTyped DEF Remotes
    <2> QED
        BY <1>1, <2>1, <2>2
<1> QED
    BY <1>1, WriteInvariant, PTL DEF Spec, WrittenAsConfirmed
=============================================================================
