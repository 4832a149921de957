------------------------------ MODULE Delivery ------------------------------
(***************************************************************************)
(* Announcing a job's results to the user (cursor/delivery.py, the delivery*)
(* half of cursor/lifecycle.py, cursor/announcements.py, and the playback  *)
(* path of wake/daemon.py and app.py).                                     *)
(*                                                                         *)
(* Each result a job publishes opens a delivery generation.  Speakers (the *)
(* wake daemon, a command-line turn) claim open generations under a lease, *)
(* speak them, show them on the desktop or defer them, and acknowledge     *)
(* under the claim's token.  Meanwhile the job may publish a newer result, *)
(* and the user may dismiss, repeat or answer.                             *)
(*                                                                         *)
(* Every update of the job store is one action.  Time is abstract: a lease *)
(* may run out, a retry may come due and the quiet hours, the snooze or    *)
(* the kind of the result may change the disposition at any moment.  The   *)
(* times foreground_until and completed_at only delay a background claim.  *)
(* A token is a fresh uuid: here, one that no claim in use carries.        *)
(***************************************************************************)
EXTENDS Naturals, FiniteSets

CONSTANTS
    Jobs,        \* managed jobs
    Speakers,    \* processes that announce results
    Daemons,     \* the speakers that run the wake daemon's loop; others run single turns
    BatchLimit,  \* ANNOUNCEMENT_BATCH_LIMIT
    Tokens,      \* claim tokens
    NoToken,     \* delivery_claim_token is None
    MaxGen,      \* bound on the results published by one job
    MaxFaults    \* bound on crashes, failed playbacks and leases lost by a live holder

ASSUME DeliveryConstants ==
    /\ Daemons \subseteq Speakers
    /\ BatchLimit \in Nat \ {0}
    /\ NoToken \notin Tokens
    /\ MaxGen \in Nat
    /\ MaxFaults \in Nat

VARIABLES
    status,   \* job.status: working, awaiting an answer, or another announceable status
    dlv,      \* job.delivery_state
    proc,     \* program counter and claims of every speaker
    told,     \* what the user really got of the current result
    loud,     \* the announcement policy has settled on speaking everything
    faults

vars == <<status, dlv, proc, told, loud, faults>>

Statuses == {"working", "awaiting", "settled"}
Acks == {"pending", "spoken", "desktop", "deferred", "dismissed"}
Evidence == {"heard", "shown", "handled"}
Modes == {"drain", "missed", "turn"}
Locked == {"claiming", "choosing", "shown"}
Pcs == {"idle", "playing", "finishing"} \cup Locked

DeliveryFields == [gen : Nat, delivered : BOOLEAN, ack : Acks,
                   token : Tokens \cup {NoToken}, expired : BOOLEAN, due : BOOLEAN]

\* load_delivery_state: a claim never outlives its delivery, and an acknowledgement is
\* final exactly when the delivery is
Loadable(d) == /\ d.delivered <=> d.ack \in {"spoken", "dismissed"}
               /\ d.delivered => d.token = NoToken
               /\ d.expired => d.token # NoToken

Deliveries == {d \in DeliveryFields : Loadable(d)}
Claims == [job : Jobs, token : Tokens, gen : Nat]
Locals == [pc : Pcs, mode : Modes,
           todo : SUBSET Claims,    \* claimed and not decided, or to be released
           speak : SUBSET Claims,   \* claimed and to be spoken
           cur : SUBSET Claims]     \* shown on the desktop and not yet acknowledged

Idle == [pc |-> "idle", mode |-> "drain", todo |-> {}, speak |-> {}, cur |-> {}]
At(p, l) == proc[p].pc = l
Held(p) == proc[p].todo \cup proc[p].speak \cup proc[p].cur
InUse == {dlv[j].token : j \in Jobs} \cup UNION {{c.token : c \in Held(p)} : p \in Speakers}

(***************************************************************************)
(* Transitions of the delivery state (cursor/lifecycle.py).                *)
(***************************************************************************)

\* Mutant: a new generation keeps the claim of the old one.
PreparedKeepingClaim(d) == [d EXCEPT !.gen = @ + 1, !.delivered = FALSE, !.ack = "pending",
                                     !.due = TRUE]

\* prepare_delivery: the next generation, unclaimed and due at once
Prepared(d) == [gen |-> d.gen + 1, delivered |-> FALSE, ack |-> "pending",
                token |-> NoToken, expired |-> FALSE, due |-> TRUE]

\* Mutant: an expired claim is never taken over.
ClaimableIfUnclaimed(j) == /\ status[j] # "working"
                           /\ ~dlv[j].delivered /\ dlv[j].due
                           /\ dlv[j].token = NoToken

\* claim_delivery: open, due, and not under a live claim
Claimable(j) == /\ status[j] # "working"
                /\ ~dlv[j].delivered /\ dlv[j].due
                /\ dlv[j].token = NoToken \/ dlv[j].expired

ClaimedBy(d, t) == [d EXCEPT !.token = t, !.expired = FALSE]

\* acknowledge_announcement: spoken and dismissed are final
Advances(from, to) == \/ from = "pending"
                      \/ from = "desktop" /\ to = "spoken"
                      \/ from = "deferred" /\ to \in {"spoken", "desktop"}

\* acknowledge_delivery: only spoken closes the generation
Acknowledged(d, a) == [d EXCEPT !.ack = a, !.delivered = (a = "spoken"),
                                !.token = NoToken, !.expired = FALSE, !.due = TRUE]

AckLegal(c, a) == /\ dlv[c.job].token = c.token
                  /\ ~dlv[c.job].delivered
                  /\ Advances(dlv[c.job].ack, a)

\* release_delivery: the retry is due a little later
Released(c) == IF dlv[c.job].token = c.token /\ ~dlv[c.job].delivered
               THEN [dlv EXCEPT ![c.job].token = NoToken, ![c.job].expired = FALSE,
                                ![c.job].due = FALSE]
               ELSE dlv

\* acknowledge_without_claim raises when it would change a final acknowledgement
CanSettle(j) == ~(dlv[j].delivered /\ dlv[j].ack # "spoken")

Settled(d, a) == [d EXCEPT !.delivered = TRUE, !.ack = a, !.token = NoToken,
                           !.expired = FALSE, !.due = TRUE]

(***************************************************************************)
(* The job and the user.                                                   *)
(***************************************************************************)

Others == <<proc, loud, faults>>

\* evolve_for_delivery: the job asks, finishes, blocks or is cancelled.
Publish(j) ==
    /\ dlv[j].gen < MaxGen
    /\ \E s \in {"awaiting", "settled"} : status' = [status EXCEPT ![j] = s]
    /\ dlv' = [dlv EXCEPT ![j] = Prepared(@)]
    /\ told' = [told EXCEPT ![j] = {}]
    /\ UNCHANGED Others

Repeat(j) ==
    /\ dlv[j].gen < MaxGen /\ status[j] # "working"
    /\ dlv' = [dlv EXCEPT ![j] = Prepared(@)]
    /\ told' = [told EXCEPT ![j] = {}]
    /\ UNCHANGED <<status, Others>>

\* Mutant: dismissing leaves the delivery open.
DismissKeepingOpen(j) ==
    /\ ~(dlv[j].delivered /\ dlv[j].ack = "dismissed")
    /\ dlv' = [dlv EXCEPT ![j].ack = "dismissed", ![j].token = NoToken]
    /\ told' = [told EXCEPT ![j] = @ \cup {"handled"}]
    /\ UNCHANGED <<status, Others>>

Dismiss(j) ==
    /\ ~(dlv[j].delivered /\ dlv[j].ack = "dismissed")
    /\ dlv' = [dlv EXCEPT ![j] = Settled(@, "dismissed")]
    /\ told' = [told EXCEPT ![j] = @ \cup {"handled"}]
    /\ UNCHANGED <<status, Others>>

\* reply_job: the answer is recorded and the job goes on, or the question is put off.
Answer(j) ==
    /\ status[j] = "awaiting" /\ CanSettle(j)
    /\ \E s \in {"working", "awaiting"} : status' = [status EXCEPT ![j] = s]
    /\ dlv' = [dlv EXCEPT ![j] = IF @.delivered THEN @ ELSE Settled(@, "spoken")]
    /\ told' = [told EXCEPT ![j] = @ \cup {"handled"}]
    /\ UNCHANGED Others

\* recover_jobs: a blocked job the user was told of is looked at again.
Requeue(j) ==
    /\ status[j] = "settled" /\ dlv[j].delivered
    /\ status' = [status EXCEPT ![j] = "working"]
    /\ UNCHANGED <<dlv, told, Others>>

(***************************************************************************)
(* The announcement policy.                                                *)
(***************************************************************************)

\* disposition: by mode, kind, quiet hours and snooze at the moment it is asked
Dispositions == IF loud THEN {"speak"} ELSE {"speak", "desktop", "defer"}

EligibleAcks(d) == CASE d = "speak" -> {"pending", "deferred", "desktop"}
                     [] d = "desktop" -> {"pending", "deferred"}
                     [] OTHER -> {"pending"}

\* auto_eligible for a drain, digest_eligible for "what did I miss?"
Eligible(p, j) ==
    IF proc[p].mode = "drain"
    THEN \E d \in Dispositions : dlv[j].ack \in EligibleAcks(d)
    ELSE dlv[j].ack \in {"deferred", "desktop"}

Skipped(p, j) ==
    \/ ~Claimable(j)
    \/ IF proc[p].mode = "drain"
       THEN \E d \in Dispositions : dlv[j].ack \notin EligibleAcks(d)
       ELSE dlv[j].ack \notin {"deferred", "desktop"}

SettleOnSpeaking ==
    /\ ~loud /\ loud' = TRUE
    /\ UNCHANGED <<status, dlv, proc, told, faults>>

(***************************************************************************)
(* Claiming.                                                               *)
(***************************************************************************)

TokenFor(j) == CHOOSE t \in Tokens : t \notin InUse
ClaimOf(j) == [job |-> j, token |-> TokenFor(j), gen |-> dlv[j].gen]

\* announcement_drain_lock: one drain at a time; the lock goes with its process.
AcquireDrainLock(p) ==
    /\ At(p, "idle")
    /\ \A q \in Speakers : proc[q].pc \notin Locked
    /\ \E m \in IF p \in Daemons THEN {"drain", "missed"} ELSE {"missed"} :
           proc' = [proc EXCEPT ![p] = [Idle EXCEPT !.pc = "claiming", !.mode = m]]
    /\ UNCHANGED <<status, dlv, told, loud, faults>>

ClaimDelivery(p, j) ==
    /\ At(p, "claiming") /\ Cardinality(proc[p].todo) < BatchLimit
    /\ Claimable(j) /\ Eligible(p, j)
    /\ Tokens \ InUse # {}
    /\ dlv' = [dlv EXCEPT ![j] = ClaimedBy(@, TokenFor(j))]
    /\ proc' = [proc EXCEPT ![p].todo = @ \cup {ClaimOf(j)}]
    /\ UNCHANGED <<status, told, loud, faults>>

\* pending_deliveries ends: the batch is full or nothing more is due and eligible.
StopClaiming(p) ==
    /\ At(p, "claiming")
    /\ \/ Cardinality(proc[p].todo) >= BatchLimit
       \/ \A j \in Jobs : Skipped(p, j)
    /\ proc' = [proc EXCEPT ![p] =
           IF @.todo = {} THEN Idle
           ELSE IF @.mode = "drain" THEN [@ EXCEPT !.pc = "choosing"]
           ELSE [@ EXCEPT !.pc = "playing", !.speak = proc[p].todo, !.todo = {}]]
    /\ UNCHANGED <<status, dlv, told, loud, faults>>

\* _defer_or_acknowledge: a turn answers with the result of the job it is about.
ClaimForeground(p, j) ==
    /\ At(p, "idle") /\ Claimable(j)
    /\ Tokens \ InUse # {}
    /\ dlv' = [dlv EXCEPT ![j] = ClaimedBy(@, TokenFor(j))]
    /\ proc' = [proc EXCEPT ![p] = [Idle EXCEPT !.pc = "playing", !.mode = "turn",
                                                !.speak = {ClaimOf(j)}]]
    /\ UNCHANGED <<status, told, loud, faults>>

(***************************************************************************)
(* drain_background_announcements: the disposition is asked again for each *)
(* claim.  Desktop and deferred acknowledgements carry the clock reading   *)
(* taken before the claims were made, so their lease never looks expired.  *)
(***************************************************************************)

Current(c) == c.gen = dlv[c.job].gen
Tell(cs, what) == [j \in Jobs |-> IF \E c \in cs : c.job = j /\ Current(c)
                                  THEN told[j] \cup {what} ELSE told[j]]

ChooseSpeak(p, c) ==
    /\ At(p, "choosing") /\ c \in proc[p].todo
    /\ proc' = [proc EXCEPT ![p].todo = @ \ {c}, ![p].speak = @ \cup {c}]
    /\ UNCHANGED <<status, dlv, told, loud, faults>>

\* A refused acknowledgement is not followed by a release: the claim stays behind.
ChooseDefer(p, c) ==
    /\ At(p, "choosing") /\ c \in proc[p].todo /\ "defer" \in Dispositions
    /\ dlv' = IF AckLegal(c, "deferred")
              THEN [dlv EXCEPT ![c.job] = Acknowledged(@, "deferred")] ELSE dlv
    /\ proc' = [proc EXCEPT ![p].todo = @ \ {c}]
    /\ UNCHANGED <<status, told, loud, faults>>

\* External: the desktop shows the notification.
NotifyDesktop(p, c) ==
    /\ At(p, "choosing") /\ c \in proc[p].todo /\ "desktop" \in Dispositions
    /\ told' = Tell({c}, "shown")
    /\ proc' = [proc EXCEPT ![p].pc = "shown", ![p].todo = @ \ {c}, ![p].cur = {c}]
    /\ UNCHANGED <<status, dlv, loud, faults>>

NotifyFails(p, c) ==
    /\ At(p, "choosing") /\ c \in proc[p].todo /\ "desktop" \in Dispositions
    /\ faults < MaxFaults /\ faults' = faults + 1
    /\ dlv' = Released(c)
    /\ proc' = [proc EXCEPT ![p].todo = @ \ {c}]
    /\ UNCHANGED <<status, told, loud>>

AcknowledgeDesktop(p, c) ==
    /\ At(p, "shown") /\ c \in proc[p].cur
    /\ dlv' = IF AckLegal(c, "desktop")
              THEN [dlv EXCEPT ![c.job] = Acknowledged(@, "desktop")] ELSE dlv
    /\ proc' = [proc EXCEPT ![p].pc = "choosing", ![p].cur = {}]
    /\ UNCHANGED <<status, told, loud, faults>>

\* The drain returns, the lock is released, and what is to be spoken is queued.
EndDrain(p) ==
    /\ At(p, "choosing") /\ proc[p].todo = {}
    /\ proc' = [proc EXCEPT ![p] = IF @.speak = {} THEN Idle ELSE [@ EXCEPT !.pc = "playing"]]
    /\ UNCHANGED <<status, dlv, told, loud, faults>>

(***************************************************************************)
(* Playback, then acknowledgement or release of each claim.                *)
(***************************************************************************)

\* External: the batch was played to its end.
PlayedToEnd(p) ==
    /\ At(p, "playing")
    /\ told' = Tell(proc[p].speak, "heard")
    /\ proc' = [proc EXCEPT ![p].pc = "finishing"]
    /\ UNCHANGED <<status, dlv, loud, faults>>

ReleaseAll(p) == proc' = [proc EXCEPT ![p].pc = "finishing", ![p].speak = {},
                                      ![p].todo = proc[p].speak]

\* The user barges in, or synthesis or the sink fails.
CutShort(p) ==
    /\ At(p, "playing")
    /\ faults < MaxFaults /\ faults' = faults + 1
    /\ ReleaseAll(p)
    /\ UNCHANGED <<status, dlv, told, loud>>

\* _DeliveryLeaseGuard: a renewal found a claim lost or expired.  Only announcements
\* are guarded; a renewal in time is no step, it only puts the expiry off.
GuardAborts(p) ==
    /\ At(p, "playing") /\ proc[p].mode = "drain"
    /\ \E c \in proc[p].speak :
           dlv[c.job].token # c.token \/ dlv[c.job].delivered \/ dlv[c.job].expired
    /\ ReleaseAll(p)
    /\ UNCHANGED <<status, dlv, told, loud, faults>>

AcknowledgeSpoken(p, c) ==
    /\ At(p, "finishing") /\ c \in proc[p].speak /\ proc[p].todo = {}
    /\ IF AckLegal(c, "spoken") /\ ~dlv[c.job].expired
       THEN /\ dlv' = [dlv EXCEPT ![c.job] = Acknowledged(@, "spoken")]
            /\ proc' = [proc EXCEPT ![p].speak = @ \ {c}]
       ELSE /\ proc' = [proc EXCEPT ![p].speak = @ \ {c},
                            ![p].todo = IF proc[p].mode = "drain" THEN {c} ELSE {}]
            /\ UNCHANGED dlv
    /\ UNCHANGED <<status, told, loud, faults>>

ReleaseDelivery(p, c) ==
    /\ At(p, "finishing") /\ c \in proc[p].todo
    /\ dlv' = Released(c)
    /\ proc' = [proc EXCEPT ![p].todo = @ \ {c}]
    /\ UNCHANGED <<status, told, loud, faults>>

FinishPlayback(p) ==
    /\ At(p, "finishing") /\ Held(p) = {}
    /\ proc' = [proc EXCEPT ![p] = Idle]
    /\ UNCHANGED <<status, dlv, told, loud, faults>>

(***************************************************************************)
(* Time and failure.                                                       *)
(***************************************************************************)

Holds(p, j) == \E c \in Held(p) : c.job = j /\ c.token = dlv[j].token

\* A claim left behind runs out; a live holder may be suspended past its lease.
ForgottenLeaseExpires(j) ==
    /\ dlv[j].token # NoToken /\ ~dlv[j].expired
    /\ \A p \in Speakers : ~Holds(p, j)
    /\ dlv' = [dlv EXCEPT ![j].expired = TRUE]
    /\ UNCHANGED <<status, proc, told, loud, faults>>

HeldLeaseExpires(j) ==
    /\ dlv[j].token # NoToken /\ ~dlv[j].expired
    /\ \E p \in Speakers : Holds(p, j)
    /\ faults < MaxFaults /\ faults' = faults + 1
    /\ dlv' = [dlv EXCEPT ![j].expired = TRUE]
    /\ UNCHANGED <<status, proc, told, loud>>

RetryDue(j) ==
    /\ ~dlv[j].due
    /\ dlv' = [dlv EXCEPT ![j].due = TRUE]
    /\ UNCHANGED <<status, proc, told, loud, faults>>

Crash(p) ==
    /\ ~At(p, "idle") /\ faults < MaxFaults /\ faults' = faults + 1
    /\ proc' = [proc EXCEPT ![p] = Idle]
    /\ UNCHANGED <<status, dlv, told, loud>>

(***************************************************************************)
(* The specification.                                                      *)
(***************************************************************************)

Init ==
    /\ status = [j \in Jobs |-> "working"]
    /\ dlv = [j \in Jobs |-> [gen |-> 0, delivered |-> FALSE, ack |-> "pending",
                              token |-> NoToken, expired |-> FALSE, due |-> TRUE]]
    /\ proc = [p \in Speakers |-> Idle]
    /\ told = [j \in Jobs |-> {}]
    /\ loud = FALSE
    /\ faults = 0

JobStep(j) == Publish(j) \/ Repeat(j) \/ Dismiss(j) \/ Answer(j) \/ Requeue(j)

ClaimStep(p) ==
    \/ AcquireDrainLock(p) \/ StopClaiming(p)
    \/ \E j \in Jobs : ClaimDelivery(p, j)

ChooseStep(p) ==
    \/ EndDrain(p)
    \/ \E c \in Held(p) : \/ ChooseSpeak(p, c) \/ ChooseDefer(p, c)
                          \/ NotifyDesktop(p, c) \/ AcknowledgeDesktop(p, c)

PlayStep(p) ==
    \/ PlayedToEnd(p) \/ GuardAborts(p) \/ FinishPlayback(p)
    \/ \E c \in Held(p) : AcknowledgeSpoken(p, c) \/ ReleaseDelivery(p, c)

SpeakerFault(p) == CutShort(p) \/ Crash(p) \/ \E c \in Held(p) : NotifyFails(p, c)

Next ==
    \/ \E j \in Jobs : \/ JobStep(j) \/ ForgottenLeaseExpires(j) \/ HeldLeaseExpires(j)
                       \/ RetryDue(j)
    \/ \E p \in Speakers : \/ ClaimStep(p) \/ ChooseStep(p) \/ PlayStep(p) \/ SpeakerFault(p)
                           \/ \E j \in Jobs : ClaimForeground(p, j)
    \/ SettleOnSpeaking

Spec == Init /\ [][Next]_vars

(***************************************************************************)
(* Fairness.  The daemon's main loop drains announcements for as long as   *)
(* it runs; a playback that nothing cuts short ends; time passes.          *)
(***************************************************************************)

\* A daemon's loop begins with the drain; the lock of another drain only delays it.
BeginDrain(p) == AcquireDrainLock(p) /\ proc'[p].mode = "drain"
Underway(p) == ~At(p, "idle") /\ (ClaimStep(p) \/ ChooseStep(p) \/ PlayStep(p))

FairSpec ==
    /\ Spec
    /\ \A p \in Speakers : WF_vars(Underway(p))
    /\ \A p \in Daemons : SF_vars(BeginDrain(p))
    /\ \A j \in Jobs : WF_vars(ForgottenLeaseExpires(j)) /\ WF_vars(RetryDue(j))

(***************************************************************************)
(* Properties.                                                             *)
(***************************************************************************)

\* Every variable keeps its type; in particular load_delivery_state accepts every state
\* that the transitions store.
TypeOK ==
    /\ status \in [Jobs -> Statuses]
    /\ dlv \in [Jobs -> Deliveries]
    /\ proc \in [Speakers -> Locals]
    /\ told \in [Jobs -> SUBSET Evidence]
    /\ loud \in BOOLEAN
    /\ faults \in 0 .. MaxFaults

\* An acknowledgement is true of the result it stands for: "spoken" was played to its
\* end or answered by the user, "desktop" was shown, "dismissed" was the user's wish.
\* A playback of an older result never acknowledges the newer one.
AcknowledgedTruthfully ==
    \A j \in Jobs :
        /\ dlv[j].ack = "spoken" => told[j] \cap {"heard", "handled"} # {}
        /\ dlv[j].ack = "desktop" => "shown" \in told[j]
        /\ dlv[j].ack = "dismissed" => "handled" \in told[j]

\* Whatever speakers hold of a job's delivery, at most one of them can settle it, and
\* only for the generation it claimed.
OneClaimant ==
    \A p, q \in Speakers : \A c \in Held(p), d \in Held(q) :
        c.job = d.job /\ c.token = dlv[c.job].token /\ d.token = dlv[d.job].token
        => p = q /\ c = d /\ Current(c)

\* A delivered result is reopened only by a newer generation: no late release,
\* acknowledgement or claim makes the harness announce it again.
DeliveredStays ==
    [][\A j \in Jobs : dlv[j].delivered /\ dlv'[j].gen = dlv[j].gen => dlv'[j].delivered]_vars

(***************************************************************************)
(* The inductive invariant behind the safety properties.                   *)
(***************************************************************************)

Standing(c) == c.token = dlv[c.job].token

\* A claim that still stands is for the current result, and has been told what it says.
ClaimShape ==
    \A p \in Speakers :
        /\ \A c \in Held(p) : Standing(c) => Current(c)
        /\ \A c \in proc[p].cur : Standing(c) => "shown" \in told[c.job]
        /\ At(p, "finishing") =>
               \A c \in proc[p].speak : Standing(c) => "heard" \in told[c.job]

\* No two claims that any speaker remembers share a token.
TokenShape ==
    \A p, q \in Speakers : \A c \in Held(p), d \in Held(q) :
        c.token = d.token => p = q /\ c = d

\* What the truth of acknowledgements rests on, as one inductive invariant.
ClaimInv == AcknowledgedTruthfully /\ ClaimShape /\ TokenShape

\* No result is silently lost: once the policy lets it be spoken, an announced result is
\* in the end delivered or replaced, whatever crashes, interruptions and lost leases
\* there were.
NoSilentLoss ==
    \A j \in Jobs : \A g \in 1 .. MaxGen :
        loud /\ status[j] # "working" /\ dlv[j].gen = g ~> dlv[j].delivered \/ dlv[j].gen # g
=============================================================================
