# Verification of local-voice-harness

TLA+ models of the durable core of the voice harness, the TLC configurations
that check them on small instances, and TLAPS proofs of what matters most.
Source paths are relative to `src/local_voice_harness/` of the repository.

The harness turns speech into work: a wake daemon records an utterance, a
speech-to-text server transcribes it, the daemon answers it or starts a coding
agent's job, detached workers drive the job through an agent provider, and the
result is announced by voice or on the desktop.  Four kinds of process share
state (the wake daemon, the STT and TTS servers, detached workers, command-line
turns), and each of them may be killed between any two file or database
operations.  The code answers with leases, fences, compare-and-swap revisions
and at-most-once markers; those protocols are what this project models.

## Inventory

| Part | State it keeps | Operations | Talks to | What makes it correct | Module |
|---|---|---|---|---|---|
| Durable outbox (`cursor/outbox.py`, `agent_outbox.py`, outbox tables of `sqlite_store.py`, `store.py`) | effect rows with status, lease, fence and attempts; consumption marks; command events | admit, claim, mark dispatched, observe, release, renew, reap, consume | job commands, workers, daemon recovery, agent provider | a provider call that is not idempotent happens at most once; its recorded outcome is true; the result reaches the job exactly once | `Outbox`, `EffectContract` |
| Result delivery (`cursor/lifecycle.py`, `delivery.py`, `announcements.py`, playback half of `wake/daemon.py`) | generation, claim token and lease, acknowledgement of a job's result | publish, claim, speak, notify, defer, dismiss, answer, release, renew | job store, playback queue, desktop notices, command-line turns | a result is acknowledged only for what the user got of it; it is never silently lost | `Delivery` |
| Voice turn (`stt/server.py`, `stt/client.py`, retained-delivery half of `wake/daemon.py`) | audio files, `delivery.json`, one thread per connection, the turn of the daemon | claim, transcribe, acknowledge, retain, restore, recover, fence, act, release | recorder, wake daemon, dictation commands | audio is not given up before its user has the outcome (one exception, below); a side effect never runs twice | `VoiceTurn` |
| Spoken output (`tts/`, queue use in `wake/daemon.py`) | playback queue, prefetch threads, server streams, chunk files | enqueue, prefetch, cancel, drain, discard | TTS server, `pw-play`, delivery | what is reported as played was heard; a finished turn leaves no speech, thread or claim behind; every turn ends | `Speech` |
| Job lifecycle and cleanup (`job_lifecycle.py`, `cursor/recovery.py`, `lifecycle_ownership.py`, `worker_lifecycle.py`) | status, revision, worker identity, terminal intent, cleanup ownership | transition, launch, recover, stage terminal intent, cancel and release | store, workers, agent session | an outcome is given only when no agent of the job works any more; every abandoned job is taken up again or says what it waits for | `Provision`, and the recovery half of `ConfirmedWrite`, `CompositeWrite`, `Workflow` |
| Job store (`cursor/store.py`, `sqlite_store.py`, `model.py`) | rows, revisions, commands, reservations, maintenance lease, capacity | apply, create, reserve, maintain, migrate | everyone | serial transitions, idempotent commands, no work during maintenance | partly (`Outbox`; revisions and legal transitions are guards everywhere) |
| Uncertain operations (`cursor/operations.py`, `provisioning.py`, `recovery.py`, `prompt_operations.py`) | one record per external effect: planned, submitting, confirmed, uncertain | plan, submit, observe, reconcile | GitHub, Linear, Git, agent session | an effect of unknown outcome is never repeated blindly | `Outbox`, `ConfirmedWrite`, `CompositeWrite`, `Provision` |
| Questions (`questions/`, `cursor/questions.py`) | open question, its state, identity and owner | ask, answer, dispatch, resolve, cancel | agent session, delivery | an answer goes to the question it names, once | `Workflow`; confirmations in `ConfirmedWrite`, `CompositeWrite`, `Provision` |
| Workflow (`cursor/workflow.py`, `consultation.py`, `prompts.py`, `user_config.py`) | tier, phase, plan, review, approval, learned preference | classify, plan, review, revise, approve, implement, promote, complete | agent session, questions, outbox | nothing is implemented without the approval its tier needs; only real approvals teach the preference; the job comes to rest | `Workflow` |
| Tickets (`ticket_*.py`, `github_issue_creation.py`, `linear_ticket_creation.py`, `integrations/`) | pending confirmation, provider objects | propose, confirm, execute, verify | GitHub, Linear, Zendesk | the change confirmed is the change made, once, in order | `ConfirmedWrite`, `CompositeWrite` |
| Configuration (`user_config.py`, `config_activation.py`, `config_management.py`) | configuration file, activation journal, services | commit, offer, accept, restart, observe, roll back, report | services, wake daemon | no restart is repeated; what is reported is what was observed; nobody's edit is overwritten that the code can see | `Activation` |
| Recording (`recorder.py`, `dictation.py`, `vad.py`) | capture process, generation files | start, stop, retry | STT | one recorder; a generation is complete or absent | its files in `VoiceTurn`; capture is not modelled |
| Agent session (`integrations/herdr/`, `agents/`) | panes, sessions, prompts | start, submit, observe, close | Herdr | one agent at a time; a prompt is not sent twice | panes and sessions in `Provision`, prompts in `Workflow`; the transport is external |
| Services and installation (`service_units.py`, `service_manager.py`, `platform_services.py`, `install_*`) | unit files | render, install, start | systemd | generated text | not planned: rendering and process management |
| Diagnostics (`diagnostics/`), replay (`replay.py`), vocabulary, intent, LLM, desktop and browser context, credentials | caches, read-only views | classify, render, read | models, desktop | text in, text out | not planned: no protocol state |

Hard behaviours, and where they bite, are listed as hazards in `PROJECT.json`:
leases that expire under a live holder, a crash between an effect and its
record, requests that outlive the client that gave up on them, stale results
applied late, unlocked read-modify-write of a file, and bounded pools at their
limit.

## Plan

1. `Outbox` with its abstract specification `EffectContract` - done, proved.
2. `Delivery` - done, proved.
3. `VoiceTurn` - done, proved.
4. `ConfirmedWrite` - done, proved.
5. `Speech` - done, proved.
6. `CompositeWrite` - done, proved.
7. `Activation` - done, proved.
8. `Provision` - done, proved.
9. `Workflow` - done, proved.

`Workflow` abstracts what `Provision` and `Outbox` detail (a hand-over between
participants is one step, a prompt's outbox row has four states); `Speech` meets
`Delivery` in what is reported as played.

Every safety property of the passing runs is also a theorem; liveness stays with
TLC.

## Modules

### Outbox (and EffectContract)

A job admits an effect (an agent session, a prompt) in the transaction that
moves the job; executors claim due rows under a lease, cross a durable fence
just before the provider call, call, and record what they saw; anyone may reap
an expired lease; consumers apply the result to the job and mark it consumed.
`outbox` is the table; `rev`, `op`, `turn`, `worker`, `user` and `intent` are
the columns of a job that matter to its effects; `exec` is the program counter
and the locals of every thread that drains or consumes, `events` the commands
already committed; `calls` and `applied` are ghosts.  Every SQL transaction is one action, and nothing else is
atomic: a lease may expire between any two of them, an executor may die, and
its late observation meets whatever the row has become.

`EffectContract` says what a caller may rely on: an effect is offered, is
performed at most once, ends as succeeded, failed or uncertain with a true
report, and its result is applied at most once.  `ImplementsContract` checks
that `Outbox` implements it under a refinement mapping of row status and calls.

The `submitting` branch of `_execute_phase_prompt` is unreachable from the
admissions modelled and only defends against rows of other versions.

### Delivery

A job publishes a result as a new generation; a speaker (the daemon, or a
command-line turn) claims it with a token under a lease, tells the user, and
acknowledges with the token; the daemon drains batches under a lock, decides
per result whether to speak, notify or defer, and renews leases while it plays.
Users answer, dismiss and ask for repetition in between.  `told` is the ghost
of what the user got.  Tokens are drawn from a finite set; the proofs need only
that a token is never handed out twice.

### VoiceTurn

A finished recording is a generation file.  `file[u]` is the set of directories
that hold a link to the audio of `u`, so each rename, link and unlink of
`stt/server.py` is a step, and the hard link of a restore is two places at
once.  `hnd` and `conn` are the server's thread for a transcription and its
connection, `ops` the delivery requests that the server runs in threads without
a lock, `daemon` the single thread of the wake daemon with the local variables
of `process_utterance`.  A request becomes *late* when its client gives up on
it or dies; it goes on all the same.

`fate[u]` is the ghost of what the user of `u` has.  A turn without a side effect
is called terminal before its answer is generated or spoken
(`wake/daemon.py:2944`): from then to the answer its fate is `harmless`, and a
daemon that dies in between makes it `unanswered`; recovery releases the delivery
of a question nobody answered.  `AudioNeverLost` excepts exactly that fate, and
says that audio goes in no other way before its user has text, answer or failure.

Every state change of a delivery writes a replacement file and moves it over
`delivery.json`; a server that dies between the two, or a release that renames the
directory meanwhile, leaves the replacement behind (`litter`).  The
removal of a released delivery refuses such a leftover (`stt/server.py:931`), and
every `recover` then fails before it reports anything.  Recovery also stops at the
oldest ambiguous delivery and does not get to the ones behind it
(`wake/daemon.py:3977`).  Both can stand for ever; `Blocked` says which deliveries
they block, and `VoiceConcludes` promises nothing for those that stay pending behind
them.

Abstractions: the body of a turn is either harmless or one fenced side effect
(all of `process_utterance` between transcript and finally clause funnels
through `fence_side_effect` and `terminalize_non_side_effect`); a `recover`
request is one step of the daemon, since it publishes, removes and reads; a reply
is delivered with the server's last step of the request; a crash between writing
the metadata and moving the audio into the hidden directory leaves an incomplete
directory that recovery ignores, and is not distinguished from a crash before
it; retries from the command line are not counted as side effects.

### ConfirmedWrite

A job that writes to GitHub or Linear on the user's behalf.  A worker drafts the
write, asks for a confirmation and leaves; the answer queues the job again; the
next worker records that it is about to submit, submits, and records the
outcome.  `job` holds the fields the protocol uses (`op` is the operation state
of the write, `base` the version of the target the plan was made from, `intent`
the staged terminal outcome), `wk` the worker process, `scan` the daemon's
`recover_jobs`, `cancel` the process that runs `cancel_job`, `remote` the
provider.  Every update of the store and every exchange with the provider is a
step, so a crash, a cancellation or a scan may come between any two.

The nine writes (create an issue, a pull request, a repository, a ticket; update
or close an issue or a ticket; merge a pull request) share one skeleton and have
an action each to plan, to submit, to conclude and to reconcile, which say where
they differ: GitHub writes are marked submitted before the command, Linear
writes are fenced inside the router's lock and marked submitted when the prompt
is accepted; updates are rebased and confirmed again when the ticket changed;
a repository is recorded, then cloned; a pull request's head is recorded, then
pushed.

Abstractions: texts and snapshots are versions of the thing written, and others
may change it until the write has happened; the job's revision is two facts
about the worker, whether anything was written since its last update and since
its claim; a state a function gives its own name (`merged`, `updated`, `closed`,
`clone_verified`) is `created`.  Left out: an issue that continues the workflow
of a repository just created, and the offer to file a split as one issue.

`ReportedTruthfully` leaves out a confirmed repository, which may exist although
the job completed as refused (`cursor/provisioning.py:2089`, the organization cannot
be looked up), in two ways.  It is recorded as created, and the refusal comes from
the worker that was to clone it; or `gh repo create` was executed, `gh` could not be
started again for the observation that follows (`integrations/github.py:1620`,
`ObservationCannotStart`), the code takes that for a command that never ran and puts
the operation back to planned (`cursor/provisioning.py:2365`), and the refusal comes
from the next worker.  Everything else completed without a write wrote nothing.
`WrittenAsConfirmed` says nothing of the version of a pull request, because only
origin and branch are compared again after the last confirmation
(`cursor/provisioning.py:1452`).  `SubmittedSettles` starts at `submitted`,
because a write that was left at `submitting` is stranded (see below).

### CompositeWrite

One confirmation covers several writes: the children and then the parent of a
split, the survivor and then the closings of a merge.  Each part has its own
state beside the operation's, so a job whose worker died in the middle goes on
where it stood.  The processes are those of `ConfirmedWrite`; `remote` counts
how often each part was written, `yeses` holds the drafts the user confirmed.

A part the user was to write by hand is not done for the code: once the lead part
was found, the loops submit it again like one that was never tried
(`MarksPart`); the proof of `PartsOnceInOrder` is where this was noticed, and it
holds because such a part was never in flight.

What the model shows of the code beyond its properties: a merge that is taken up
again after its survivor was rewritten takes its own write for a change by
others, drafts and asks again, and answered "no" then reports that nothing was
merged although the survivor was rewritten; a merge may complete with a closing
left to the user; a Linear split or merge whose lead part was in flight when its
worker died stays in doubt for ever (`cursor/provisioning.py:5929`, the exception
in `DoubtSettles`); a cancelled job with a visible part in flight and parts left
makes every scan raise.

### Speech

A request is one utterance of `Chunks` chunks.  Its handle is a thread that asks
the TTS server for the chunks ahead of time; the server writes each chunk to a
file and announces it; the player writes the chunks of all queued requests into
one `pw-play` process, which plays them later.  `mode` is the function of the
daemon that speaks (`play_response`, `play_streamed_response` with its generator
thread, `_play_pending_announcements`).  The server's pool, its cancellation
before, during and after a stream, the bounded discard of a handle and the
barge-in at every poll are steps.  `PlayedIsHeard` leaves out the tail a barge-in
cuts: `tts/queue.py` reports earlier requests of the batch as played although
`pw-play` still buffers them.  `TurnLeavesNothing` leaves out a handle that did not
stop in time: its discard raises in the cleanup and the request stays queued.

### Activation

A confirmed change of the configuration is written to the file, offered for
activation, and carried out by a worker process of its own, because the daemon
that launches it may be among the services it restarts.  `rec` is the journal,
rewritten atomically; `dm`, `wk` and `svc` run at their own pace.  A configuration
is the changed value and a version of everything else, standing for its digest.  A
voice is validated first and rolled back whole.

Any service may die at any moment, also after it was observed, and systemd starts it
again with the file as it is then (`Restart=on-failure`, `service_units.py:40`).  The
daemon is one of them: when it dies, it dies as a service too, and when it is
restarted its loop starts afresh.  The worker looks at each service once and not
again when it finishes (`config_activation.py:1256`), so `ReportedIsReal` speaks of
the process that was observed: after a success every service came up as a new process
with the new value, and it is that process that runs unless it died since.  After a
rollback reported as done, no service that is up has the new value.

The commit of a change (`pc` = commit) and the rollback of a voice (`rbwrite`) load
the file, compare, and write it in two steps, under an advisory lock.  A command that
takes the lock (value `set`) cannot come between; an editor, or `reset_config`
(`third`), can.  `ForeignValueKept` therefore has two parts: what was set under the
lock is never replaced by the activation's own values, and what an editor put there
is replaced only by a write whose load came before it.  So the program does lose an
edit saved in that window.

Not claimed: that what the user was told stays what the journal says.  `finish`
(`config_activation.py:605`) lets a worker that was given up as dead, and was only
slow, replace an outcome already told and acknowledged, although
docs/development.md:137 wants the completion told only once the service is active
with the expected configuration.

### Provision

The infrastructure of one job: repository (fork, clone, pull request), worktree,
pane and session, and a pane and a session for every further participant.  Each
request is recorded before it is made; its answer may be an error, be lost, or
come after it was given up (`world` keeps what is on its way).  `wk.fresh` and
`wk.outer` say whether the worker's own revision and the error handler's snapshot
are still current; `rl` are the three processes that may release what the job
holds (the worker, the canceller, the scan), each with its own ownership token.

What the model shows of the code:

* an issue's job whose worktree some workspace already has open fails: the open one
  does not tell its root pane, the settlement would be quarantined, and a planned
  checkout may not become quarantined (`cursor/operations.py:67`, `SettleExisting`);
* recovery that finds the worktree ready or retained leads the next worker into a
  reservation that is refused, and the job fails (`provision_recovery_fails`);
* a failed checkout of a pull request leaves the job routing for ever: the
  quarantine makes the worker's own failure stale (exception in `Concludes`);
* a job cancelled or failed with a merely planned pane, or without worktree or
  session identity, cannot be verified and stays with the operator;
* an agent that starts late after a cancellation is seen and neither closed nor
  counted (`LateAgent`); an interrupted clone stays submitted (`LostClone`);
* a fork the operator reports as there is recorded as retained, and the job then
  fails; `session.create` is not fenced against a staged outcome; a scan during a
  slow creation hands the operation to the operator although the worker lives.

Abstractions: paths for records of older versions, agents of follow-ups that turn
out to be somebody else's, the direct cancellation of a job that was never
claimed, the workspace's root pane, errors of the scan's own observations and
back-off times are left out; handing the session over and stopping the worker is
one step; the operator tells the truth.

### Workflow

The worker's loop over the phases of one job, with the durable prompt, the voice
question, the preferences file and recovery.  A turn is a prompt with a token;
an output counts only under the token of the prompt it answers.  Plans, prompts
and questions are numbered as they come to be, so `hist` can say which plan the
user was shown, which he said yes to and which implementers were given.  An
answer names the question it is for, or none: `voice-harness text`, `end` and
`transcribe` send only the words (`app.py:728`), and `reply_job` takes them for the
question that is open when they come (`cursor/service.py:1874`, `Meant`).  Both kinds
arrive at any time, old ones too.  The daemon names a question, but looks its
identity up when the transcript is routed (`wake/daemon.py:2833`), so what it names may
be newer than what the user heard; the model has that as an answer that names any
question asked so far.  `ImplementedAsApproved` promises accordingly that an
implementer's plan was said yes to by an answer that names the question showing this
plan, or that names none while it was open: a late unnamed yes does approve the plan
that is open then, and docs/architecture.md:219 (answers are fenced by the question's
identity, stale ones do not mutate) holds for named answers only.  `MaxTurns` bounds only the turns begun over a clarification that is already
dispatched: those are the turns the code may repeat for ever.

What the model shows of the code:

* nothing ever marks a dispatched clarification as submitted (`_mark_prompt_boundary`,
  `cursor/provisioning.py:9532`, has no caller), so a crash begins a new turn over the
  submitted prompt (`workflow_implemented_again`).  If the job was also promoted
  meanwhile, every new plan meets the old approval proof, which cannot be
  rewritten, and recovery prompts the planner for ever: the exception in `Proceeds`;
* a job whose approval question was resolved cannot be cancelled: resolved to
  cancelled is an illegal transition of a question, and `cancel_job`
  (`cursor/service.py:2168`) raises, although README.md:180 says that spoken requests
  can cancel a running job.  `Cancel` has it as a guard;
* a promotion after an approved plan is refused (`cursor/workflow.py:556`) and fails
  the job, although docs/architecture.md:135 has it return to planning;
* a high-risk plan gets two revisions where docs/architecture.md:123 says one;
* after a question in classification the planning prompt is only a delta
  (`cursor/provisioning.py:8917`), though the phase is new;
* the same turn cannot be admitted twice (`cursor/store.py:2761`), so a blocked job
  that is retried fails; and a scan that drains the prompt first makes the living
  worker fail the job (`cursor/provisioning.py:9245`, `Missed`).

Abstractions: the panes and sessions of a hand-over are `Provision`; a hard risk in
the request or the reason makes the tier high; a staged outcome counts as the
outcome (its release is `Provision`); the interactive questionnaire and the stalled
agent are left out, as is the branch of `_execute_phase_prompt` that finds a prompt
still submitting (scans leave uncertain operations alone); deferring or repeating a question changes nothing.

## Runs

| Run | Instance | Shows |
|---|---|---|
| `outbox_protocol` | 1 job, 2 effects, 2 executors, 2 attempts, 5 revisions, 1 death, fair | implementation of `EffectContract` (at most one call, honest and final outcome), at-most-once application; every admitted effect is settled and consumed |
| `delivery_protocol` | 1 job, 2 generations, daemon and command line, 1 fault, fair | truthful acknowledgement; nothing announced is silently lost |
| `voice_protocol` | 2 voice utterances and 1 dictation of which 2 are recorded, 2 faults, fair | audio given up only for an outcome (one exception), no side effect twice; every utterance comes to an end unless recovery is blocked before it |
| `write_protocol` | each of the 9 writes, 3 provider errors, 2 crashes, 1 change by others, 1 cancellation, fair | asked at most once, for the confirmed plan; reported as it is; every submitted write is settled |
| `composite_protocol` | splits and merges of 3 parts on GitHub and Linear, 3 drafts, 1 error, 1 crash, 1 change by others, 1 cancellation, fair | every part at most once and in order, as confirmed, reported as it is; doubt is settled |
| `speech_protocol` | 2 utterances of 2 chunks, prefetch 1, window 2, each way of speaking, 2 faults, fair | what is reported as played was heard; a finished turn leaves nothing behind; every turn ends |
| `activation_protocol` | voice and other settings, 2 services, one of them the daemon, 1 edit, 1 error, 1 death, 2 of them together, fair | no restart repeated; what is reported was so; no foreign value overwritten that the code can see; every accepted activation is concluded and told |
| `provision_protocol` | 5 kinds of job, 2 participants, 3 panes, 1 error, 1 crash, 1 act of the user, fair | nothing asked for twice, one agent at a time, none outlives its job, the user's session is left alone; every job ends or says what it waits for |
| `workflow_protocol` | 2 or 3 approvals by other jobs, offer after 3, 1 question of an agent, 1 fault, fair | only approved plans are implemented, only real approvals counted; the job comes to rest |

Bounds.  Two executors and two effects are what an overtaking needs; two
attempts reach the retry limit; five revisions let a job be admitted, taken
over, resolved and admitted again.  Two generations let an old playback meet a
new result; two speakers let a lease change hands.  Two voice utterances let one wait
behind the other in recovery, and a dictation compete with a turn for the server's
lock; two faults let a crash, a late request and a failing file operation meet in
pairs, and a leftover replacement needs one of them (two of three utterances and two
faults are what TLC exhausts, 625,612 states; the proofs bound neither).  Three
errors let the lost start, a second failure and the failing look at the organization
meet in one write; one
change by others is one more version than the plan.  Three parts have a first, a
middle and a last; three drafts let a merge be redrafted twice.  Two requests let
one be prefetched while the other plays, two chunks let one be heard and one be
cut.  Two services are one before and one that is the daemon; one edit, one
error and one death, of which any two meet in a run (`MaxTroubles`), are 1.7 million
states.  Two participants
are one hand-over, three panes let one be planned again.  The preference starts
one short of the offer or at it; all three review rounds happen.  Faults are
bounded because nothing bounds them in the program.  `CHECK_DEADLOCK FALSE` is set
where the system really may stop: everything is consumed, delivered, written,
spoken or concluded.

### Disagreements found

Each of these runs checks one statement of the repository's docs, comments or
error texts, and TLC shows how the code contradicts it.

| Run | Statement | What happens |
|---|---|---|
| `voice_terminal_overwritten` | terminal retained delivery cannot become replayable or ambiguous (`stt/server.py:890`) | `delivery.json` is checked and replaced without a lock; a late request overwrites the terminal state |
| `provision_recovery_fails` | abandoned jobs are recovered at daemon startup and during normal polling (docs/architecture.md:30) | a crash after the worktree is there makes the next worker's reservation illegal, and the job fails |
| `workflow_implemented_again` | a settled same-session task may resume event observation without resubmission (docs/agent-harness-contract.md:45) | after a crash an implementer that has given its summary is told to implement again |

Seen while modelling, without a run of their own:

* once the announcement of a question was dismissed, every reply raises in
  `acknowledge_without_claim` (`cursor/lifecycle.py:461`), although "Answer later"
  leaves the question durably deferred (docs/architecture.md:226);
* the turn of an interruption clears `retained_recovery_required` with its own
  cleanup (`wake/daemon.py:3955`), and the delivery whose cleanup failed before is
  never released, although a failed cleanup is to be retried (`wake/daemon.py:3966`);
* a Linear worker that dies at `submitting` leaves a job that recovery skips as
  uncertain and the reconciler skips as not submitted (`cursor/recovery.py:1030`);
* the outcome of a write in doubt cannot be applied under a terminal intent
  (`cursor/model.py:5199`): the exception ends every scan, and a cancellation never
  takes effect;
* a repository that was created and not cloned is not counted as uncertain
  (`cursor/model.py:5359`), so workers are started again and again;
* a foreground turn never renews its claim (`cursor/service.py:2322`): an answer that
  takes longer than the lease is announced a second time.

## Fairness

The runs assume weak fairness of what a thread does on its own: an executor that
is alive goes on, the daemon's loop comes round (and with it recovery, reaping
and draining), a server thread runs, systemd restarts a server that died.  No
fairness is assumed of users, of new requests, of crashes, timeouts or failures,
and a dead process never moves again.  In `ConfirmedWrite` and `CompositeWrite`
workers, the scan and the canceller go on while they live, and a request in flight
is acted on or lost.  In `Delivery` a daemon's drain is strongly fair: the lock
file that another drain holds only delays it; there the policy (quiet hours,
snooze, do-not-disturb) is assumed to let results be spoken again and again;
without it a result may wait for ever by design.  In `Speech` the sink plays what
it holds.  In `Activation` the daemon's loop and the worker go on while they
live, and a service told to start, or restarted by systemd after its death, comes up
or fails.  In
`Provision` what is on its way arrives or is lost, and scans come round.  In
`Workflow` an agent that was given a prompt prints something and settles: without
that no harness could end a turn.

## Proofs

TLAPS checks these for every value of the constants.

* `OutboxProofs`: `TypeCorrect`, `AtMostOnceSubmission`, `HonestOutcomes`,
  `AtMostOnceReduction`, `NoStrandedResult`, `FenceFollowsAdmission`,
  `TargetsExclusive`, `FinalOutcomes`, `KeepsContract`.  None of
  the properties is inductive: that a row was called at most once depends on who
  may still call it.  `SafetyInv` says so in six parts: who holds the lease
  (`LeaseShape`), what an executor knows of its row (`ExecShape`), what a fence
  implies (`FenceShape`), how calls and status agree (`CallShape`), what a row
  shares with the job that admitted it (`AdmissionShape`), and what consumers
  carry (`ReductionShape`).  The last three sort the steps by what they do to an
  outcome (`StepKinds`): a sweep that settles open rows, a claim, an admission, a
  call, a consumption.  A claim starts a row only when no row of its target runs,
  no kind touches a settled row, and each kind is a step of `EffectContract`:
  a sweep is one `Settle` of the rows whose outcome it records, honest because the
  invariant holds after the step, and a stutter when it records none.
* `SpokenProofs`, first half, about `Delivery`: `LoadableAlways`, `ClaimsInShape`, `TruthfulAcknowledgement`,
  `SingleClaimant`, `DeliveredOnce`, from `ClaimInv`: a token that still opens a
  delivery is in one speaker's hands, for the current generation, and that
  speaker has told no more than it claims.
* `SpokenProofs`, second half, about `Speech` (the module extends both, whose names
  are disjoint; neither half uses the other): `SpeechInvariant`, `SpeechTyped`,
  `HeardWhatWasReported`, `NothingLeftBehind`, from `SpeechInv`.  Neither property is
  inductive: a result is recorded when a request was written, long before `pw-play`
  has played it and before the batch is reported.  So the invariant counts: what was
  heard of a request and what `pw-play` still holds of it (`Written`) is exactly what
  the player gave it, until somebody stops the process (`WriteShape`).  A result in
  full was recorded for a complete stream of which all chunks were written, and from
  then to the report nothing is taken from `pw-play` unless the user barged in or the
  batch is invalidated (`ResultShape`, `SinkShape`); at the report the buffer is
  empty, so written means heard.  That a turn leaves nothing behind needs the queue's
  order: requests are queued one after the other and the one in play is the head
  (`QueueShape`), so finishing it removes it and no other; a handle off the queue, or
  discarded and joined, has ended (`HandleShape`); and how each of the three ways to
  speak gets to its end (`TurnShape`).  Two lemmas carry most of the steps: a step of
  a handle or of the server may only move a request forward (`Moves`, `Keeps`,
  `MovesKeep`), and an item that ends early is cut or deferred, never recorded in full
  (`EarlyEnd`).
* `VoiceTurnProofs`: `ShapesHold`, `TurnInvariant`, `NeverActedTwice`,
  `ActedNeverReplayed`, `NoAudioLost`, from `TurnInv`.  The argument: a request to make a
  delivery pending is made once, at the handoff, before anyone may run the turn
  and before any terminal request (`FenceShape`); a delivery is pending, or in a
  batch to be run, only while it was not acted on; a turn acts only after its
  fence was answered, and the only non-late request is the one the daemon waits
  for (`CallShape`), so a late request can never undo that fence with "pending".
  `NoAudioLost` needs two more.  `KeptInv`: audio that became a delivery never comes
  back and no error is reported for it; a delivery is called terminal, or given up,
  only when its user has a result, or is about to get the answer of a harmless turn;
  a dictation is committed only when acknowledged.  `HeldInv`: the delivery of such a
  turn is in the daemon's hands and nothing releases it before the turn concludes, so
  only the daemon's death can come between, and a delivery once ended is in no batch.
* `ConfirmedWriteProofs`: `WriteInvariant`, `TypeCorrect`, `NeverWrittenTwice`,
  `TruthfulReports`, `WritesWhatWasConfirmed`.  That a write happened at most once
  follows from who may still send it: the operation's state says whether a request
  may be in flight (`OpTells`), a worker's place in the code what it may still do
  to that state (`WorkerTells`), the status and the scan's local copy what a
  recovery may conclude (`StatusTells`, `ScanTells`), and a request in flight that
  its operation knows of it and carries the confirmed draft (`SentTells`,
  `PlanKept`).  One state hides a write, that of a repository whose operation went back
  to planned (`Unseen`); a worker that would submit it again looks for it first.
* `CompositeWriteProofs`: `CompositeInvariant`, `TypeCorrect`, `PartsWrittenOnce`,
  `TruthfulParts`, `SendsWhatWasConfirmed`.  The same with a ledger: how often each
  part was written and what its state says of it (`PartTells`), that a part is
  open only if all later ones are untouched (`OrderTells`), so only the first open
  part can be in flight, and that every write of a survivor has a confirmation of
  its own (`CountTells`).
* `ActivationProofs`: `ActivationInvariant`, `TypeCorrect`, `NeverRestartedTwice`,
  `TruthfulResult`, `OthersValueKept`.  The journal's phase bounds what was
  restarted (`JournalTells`), the worker's place what it may still restart
  (`WorkerTells`), and per service the count of restarts and the outcome written
  down agree with what it runs (`Counted`, `OutcomeTrue`): a service that does not
  die by itself comes up at most twice more, and the process that was observed is told
  by its generation from any that systemd starts later.
* `ProvisionProofs`: `ProvisionInvariant`, `TypeCorrect`, `NothingAskedTwice`,
  `OneAgent`, `OutcomeAfterRelease`, `UserLeftAlone`.  What was asked for outside
  is known only through the record, so `RecordTells` ties the two: what the
  record may still ask for was not asked for (`AskTells`), a session that lives or is
  on its way is the one of the current operation, which knows of it (`AgentTells`),
  panes are planned one after the other (`PaneTells`), a source's parts come in order
  and before any session (`SourceTells`), one operation is observed at a time
  (`TriesTell`), and a job that is over has neither (`StatusTells`).  `WorkerTells` adds
  what the worker relies on at its place in the code, `ReleaseTells` that what a
  current release confirmed is closed.
  Writers that are not the worker are shown never to take from a running worker's
  record what it relies on (`Gentle`), and every step of the recovery scan, which
  composes many of them, to leave the record consistent (`Follows`).
* `WorkflowProofs`: `WorkflowInvariant`, `TypeCorrect`, `BuiltAsApproved`,
  `HonestLedger`.  What an implementer was given is known to the job only through its
  prompt, so the invariant follows the plan from one to the other: a phase says which
  plan, review and approval the job has (`PhaseTells`, `ApprovalTells`), a session
  that answers the job's phase was given the job's plan, also when the prompt was only
  a reply to a session that knows it (`AgentTells`), a row under way is that of the
  prompt being submitted (`EffectTells`), what the worker relies on at its place holds
  (`WorkerTells`), and the question the user answers shows the plan that is to be
  approved (`QuestionTells`).  The ledger needs that an approval is counted only after
  the implementer's prompt was accepted, across crashes between the two, and that a
  full ledger has brought its offer (`PrefsTell`).  An answer that names a question or
  none reaches only the question whose identity it means (`Addressed`), and that one is
  open.

The assumptions are those of the `ASSUME`s: the sets of names are disjoint
and the bounds are naturals; nothing is assumed of their size beyond finiteness
where a cardinality is taken.

Of the proved properties `AppliedAtMostOnce`, `ImplementsContract`, `AcknowledgedTruthfully`,
`ActedAtMostOnce`, `AudioNeverLost`, those of `Speech`, `ConfirmedWrite`,
`CompositeWrite`, `Activation`, `Provision` and `Workflow`, and the type invariants of the
nine modules are also checked by runs; the others (`SubmittedAtMostOnce`, `OutcomeHonest`, `ConsumedNotStranded`,
`FenceOnlyWhileAdmitted`, `OneRunningPerTarget`, `OutcomeFinal`, `OneClaimant`, `ClaimInv`, `DeliveredStays`, `TurnInv`,
`ReplayFence`) rest on their proofs, which cover batches, several jobs and several
utterances that the runs' instances do not have.

Only model-checked: liveness (`EveryEffectConsumed`, `NoSilentLoss`, `VoiceConcludes`,
`SubmittedSettles`, `DoubtSettles`, `TurnEnds`, `ActivationConcludes`, `Concludes`,
`Proceeds`).  Temporal fairness arguments are out of the prover's reach.

## Not modelled

What audio sounds like and what a model answers; the text of prompts, notices
and logs; SQLite itself (a transaction is atomic and durable), the file system
(a rename is atomic; `fsync` failures are failing operations); systemd beyond
restarting; the provider's side of a call beyond whether it happened.

Of the parts that are modelled: starting jobs, batches of tickets and follow-ups
(`cursor/service.py`), reservations across jobs, capacity, maintenance, quarantine
and migration of the store, choosing a repository, the generic `agents` package,
the command line's playback, parsing and rendering of settings, the capture
process of the recorder.  `lifecycle_ownership.py` is an inventory that only tests
read.

Not at all, because they keep no protocol state: intent and language model,
desktop, browser and Git context, rendering of unit files and installation,
diagnostics, credentials and the command line; wake detection is signal
processing.
