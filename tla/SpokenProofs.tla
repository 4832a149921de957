---------------------------- MODULE SpokenProofs ----------------------------
(***************************************************************************)
(* Proofs about how a result reaches the user's ears: Delivery, which      *)
(* claims, acknowledges and dismisses results, and Speech, which plays     *)
(* them.  The two modules share no name, so that their theorems stand      *)
(* side by side here.                                                      *)
(*                                                                         *)
(* Delivery: the types, the truth of acknowledgements, the single          *)
(* claimant, and that a delivered result stays delivered, for any number   *)
(* of jobs, speakers, tokens, results and faults.                          *)
(*                                                                         *)
(* Speech: the types, that what is reported as played was heard, and that  *)
(* a turn leaves nothing behind, for any number of requests, chunks and    *)
(* failures and any prefetch limits.                                       *)
(***************************************************************************)
EXTENDS Delivery, Speech, FiniteSetTheorems, TLAPS

Inv == TypeOK /\ ClaimInv

(***************************************************************************)
(* What the transitions of one delivery state return.                      *)
(***************************************************************************)

\* A new generation is loadable, open and unclaimed.
LEMMA PreparedShape ==
    ASSUME NEW d \in Deliveries
    PROVE  /\ Prepared(d) \in Deliveries
           /\ Prepared(d).token = NoToken /\ Prepared(d).ack = "pending"
           /\ Prepared(d).gen = d.gen + 1
BY DEF Deliveries, DeliveryFields, Loadable, Prepared, Acks

\* A claim of an open delivery keeps everything but its token.
LEMMA ClaimedShape ==
    ASSUME NEW d \in Deliveries, NEW t \in Tokens, ~d.delivered
    PROVE  /\ ClaimedBy(d, t) \in Deliveries
           /\ ClaimedBy(d, t).token = t /\ ClaimedBy(d, t).ack = d.ack
           /\ ClaimedBy(d, t).gen = d.gen /\ ClaimedBy(d, t).delivered = d.delivered
BY DeliveryConstants DEF Deliveries, DeliveryFields, Loadable, ClaimedBy, Acks

\* An acknowledgement under a claim drops the claim and closes only what was spoken.
LEMMA AcknowledgedShape ==
    ASSUME NEW d \in Deliveries, NEW a \in {"spoken", "desktop", "deferred"}
    PROVE  /\ Acknowledged(d, a) \in Deliveries
           /\ Acknowledged(d, a).token = NoToken /\ Acknowledged(d, a).ack = a
           /\ Acknowledged(d, a).gen = d.gen
           /\ Acknowledged(d, a).delivered = (a = "spoken")
BY DEF Deliveries, DeliveryFields, Loadable, Acknowledged, Acks

\* Settling without a claim closes the delivery and drops the claim.
LEMMA SettledShape ==
    ASSUME NEW d \in Deliveries, NEW a \in {"spoken", "dismissed"}
    PROVE  /\ Settled(d, a) \in Deliveries
           /\ Settled(d, a).token = NoToken /\ Settled(d, a).ack = a
           /\ Settled(d, a).gen = d.gen /\ Settled(d, a).delivered
BY DEF Deliveries, DeliveryFields, Loadable, Settled, Acks

\* A release changes no acknowledgement and no generation, and drops at most a claim.
LEMMA ReleasedShape ==
    ASSUME TypeOK, NEW c \in Claims
    PROVE  /\ Released(c) \in [Jobs -> Deliveries]
           /\ \A j \in Jobs : /\ Released(c)[j].ack = dlv[j].ack
                              /\ Released(c)[j].gen = dlv[j].gen
                              /\ Released(c)[j].delivered = dlv[j].delivered
                              /\ Released(c)[j].token \in {dlv[j].token, NoToken}
<1>1. c.job \in Jobs  BY DEF Claims
<1>2. dlv \in [Jobs -> Deliveries]  BY DEF TypeOK
<1>3. CASE dlv[c.job].token = c.token /\ ~dlv[c.job].delivered
  <2> DEFINE d == [dlv[c.job] EXCEPT !.token = NoToken, !.expired = FALSE, !.due = FALSE]
  <2>1. d \in Deliveries
    BY ZenonT(30), <1>1, <1>2, <1>3 DEF Deliveries, DeliveryFields, Loadable, Acks
  <2>2. d.ack = dlv[c.job].ack /\ d.gen = dlv[c.job].gen /\ d.delivered = dlv[c.job].delivered
            /\ d.token = NoToken
    BY <1>1, <1>2 DEF Deliveries, DeliveryFields
  <2>3. Released(c) = [dlv EXCEPT ![c.job] = d]
    BY <1>1, <1>2, <1>3 DEF Released
  <2> HIDE DEF d
  <2> QED BY <1>1, <1>2, <2>1, <2>2, <2>3
<1>4. CASE ~(dlv[c.job].token = c.token /\ ~dlv[c.job].delivered)
  BY <1>2, <1>4 DEF Released
<1> QED BY <1>3, <1>4

(***************************************************************************)
(* Frames: what a step must show to keep the claims in shape.              *)
(***************************************************************************)

\* A claim keeps standing only if its job's token, result and evidence were kept.
Undisturbed == \A j \in Jobs :
    \/ dlv'[j].token = NoToken
    \/ dlv'[j].token = dlv[j].token /\ dlv'[j].gen = dlv[j].gen /\ told[j] \subseteq told'[j]

\* Every claim a speaker holds is of the right type.
LEMMA HeldType ==
    ASSUME TypeOK, NEW p \in Speakers
    PROVE  /\ proc[p] \in Locals
           /\ \A c \in Held(p) : c \in Claims /\ c.job \in Jobs /\ c.token \in Tokens
BY DEF TypeOK, Locals, Held, Claims

\* A step that makes no new claim, and tells before it finishes, keeps the invariant.
LEMMA NoNewClaim ==
    ASSUME Inv, TypeOK', AcknowledgedTruthfully', Undisturbed,
           \A p \in Speakers : Held(p)' \subseteq Held(p),
           \A p \in Speakers : \A c \in proc'[p].cur :
               c \in proc[p].cur \/ "shown" \in told'[c.job] \/ c.token # dlv'[c.job].token,
           \A p \in Speakers : proc'[p].pc = "finishing" => \A c \in proc'[p].speak :
               \/ proc[p].pc = "finishing" /\ c \in proc[p].speak
               \/ "heard" \in told'[c.job]
               \/ c.token # dlv'[c.job].token
    PROVE  Inv'
<1>1. ASSUME NEW p \in Speakers, NEW c \in Held(p)', c.token = dlv'[c.job].token
      PROVE  /\ c \in Held(p) /\ c.token = dlv[c.job].token
             /\ dlv'[c.job].gen = dlv[c.job].gen /\ told[c.job] \subseteq told'[c.job]
  <2>1. c \in Held(p)
    BY <1>1
  <2>2. c.job \in Jobs /\ c.token \in Tokens
    BY <2>1, HeldType DEF Inv
  <2> QED BY <1>1, <2>1, <2>2, DeliveryConstants DEF Undisturbed
<1>2. ASSUME NEW p \in Speakers
      PROVE  /\ \A c \in Held(p)' : Standing(c)' => Current(c)'
             /\ \A c \in proc'[p].cur : Standing(c)' => "shown" \in told'[c.job]
             /\ proc'[p].pc = "finishing" =>
                    \A c \in proc'[p].speak : Standing(c)' => "heard" \in told'[c.job]
  <2>1. \A c \in Held(p)' : Standing(c)' => Current(c)'
    BY <1>1 DEF Inv, ClaimInv, ClaimShape, Standing, Current
  <2>2. proc'[p].cur \subseteq Held(p)' /\ proc'[p].speak \subseteq Held(p)'
    BY DEF Held
  <2>3. \A c \in proc'[p].cur : Standing(c)' => "shown" \in told'[c.job]
    BY <1>1, <2>2 DEF Inv, ClaimInv, ClaimShape, Standing
  <2>4. proc'[p].pc = "finishing" =>
            \A c \in proc'[p].speak : Standing(c)' => "heard" \in told'[c.job]
    BY <1>1, <2>2 DEF Inv, ClaimInv, ClaimShape, Standing, At
  <2> QED BY <2>1, <2>3, <2>4
<1>3. ClaimShape'
  BY <1>2 DEF ClaimShape, At
<1>4. TokenShape'
  BY DEF Inv, ClaimInv, TokenShape
<1> QED BY <1>3, <1>4 DEF Inv, ClaimInv

\* A step of the job or of time, which no speaker takes.
LEMMA SpeakersRest ==
    ASSUME Inv, TypeOK', AcknowledgedTruthfully', Undisturbed, UNCHANGED proc
    PROVE  Inv'
<1>1. \A p \in Speakers : Held(p)' = Held(p)
  BY DEF Held
<1> QED BY <1>1, NoNewClaim

\* Replacing one speaker's locals changes nothing of the others.
LEMMA LocalStep ==
    ASSUME TypeOK, NEW p \in Speakers, NEW l \in Locals, proc' = [proc EXCEPT ![p] = l]
    PROVE  /\ proc' \in [Speakers -> Locals] /\ proc'[p] = l
           /\ Held(p)' = l.todo \cup l.speak \cup l.cur
           /\ \A q \in Speakers : q # p => proc'[q] = proc[q] /\ Held(q)' = Held(q)
BY DEF TypeOK, Held

\* A step of one speaker that makes no new claim.
LEMMA SpeakerStep ==
    ASSUME Inv, NEW p \in Speakers, NEW l \in Locals, proc' = [proc EXCEPT ![p] = l],
           TypeOK', AcknowledgedTruthfully', Undisturbed,
           l.todo \cup l.speak \cup l.cur \subseteq Held(p),
           \A c \in l.cur :
               c \in proc[p].cur \/ "shown" \in told'[c.job] \/ c.token # dlv'[c.job].token,
           l.pc = "finishing" => \A c \in l.speak :
               \/ proc[p].pc = "finishing" /\ c \in proc[p].speak
               \/ "heard" \in told'[c.job]
               \/ c.token # dlv'[c.job].token
    PROVE  Inv'
<1>1. /\ proc'[p] = l /\ Held(p)' \subseteq Held(p)
      /\ \A q \in Speakers : q # p => proc'[q] = proc[q] /\ Held(q)' = Held(q)
  BY LocalStep DEF Inv
<1>2. \A q \in Speakers : Held(q)' \subseteq Held(q)
  BY <1>1
<1>3. \A q \in Speakers : \A c \in proc'[q].cur :
          c \in proc[q].cur \/ "shown" \in told'[c.job] \/ c.token # dlv'[c.job].token
  BY <1>1
<1>4. \A q \in Speakers : proc'[q].pc = "finishing" => \A c \in proc'[q].speak :
          \/ proc[q].pc = "finishing" /\ c \in proc[q].speak
          \/ "heard" \in told'[c.job]
          \/ c.token # dlv'[c.job].token
  BY <1>1
<1> QED BY <1>2, <1>3, <1>4, NoNewClaim

\* Replacing one job's delivery changes nothing of the others.
LEMMA DeliveryStep ==
    ASSUME TypeOK, NEW j \in Jobs, NEW d \in Deliveries, dlv' = [dlv EXCEPT ![j] = d]
    PROVE  /\ dlv' \in [Jobs -> Deliveries] /\ dlv'[j] = d
           /\ \A i \in Jobs : i # j => dlv'[i] = dlv[i]
BY DEF TypeOK

\* Acknowledgements stay true when none is made and no evidence is lost.
LEMMA NoNewAck ==
    ASSUME Inv, \A j \in Jobs : \/ dlv'[j].ack = dlv[j].ack /\ told[j] \subseteq told'[j]
                                \/ dlv'[j].ack \in {"pending", "deferred"}
    PROVE  AcknowledgedTruthfully'
BY DEF Inv, ClaimInv, AcknowledgedTruthfully

(***************************************************************************)
(* The job, the user and time.                                             *)
(***************************************************************************)

\* A new generation stands unclaimed and unacknowledged.
LEMMA NewGeneration ==
    ASSUME Inv, NEW j \in Jobs, dlv' = [dlv EXCEPT ![j] = Prepared(@)],
           told' = [told EXCEPT ![j] = {}], status' \in [Jobs -> Statuses],
           UNCHANGED Others
    PROVE  Inv'
<1> DEFINE d == Prepared(dlv[j])
<1>1. d \in Deliveries /\ d.token = NoToken /\ d.ack = "pending"
  BY PreparedShape DEF Inv, TypeOK
<1>2. dlv' = [dlv EXCEPT ![j] = d]
  OBVIOUS
<1> HIDE DEF d
<1>3. /\ dlv' \in [Jobs -> Deliveries] /\ dlv'[j] = d
      /\ \A i \in Jobs : i # j => dlv'[i] = dlv[i]
  BY <1>1, <1>2, DeliveryStep DEF Inv
<1>4. /\ told' \in [Jobs -> SUBSET Evidence]
      /\ \A i \in Jobs : i # j => told'[i] = told[i]
  BY DEF Inv, TypeOK
<1>5. TypeOK'
  BY <1>3, <1>4 DEF Inv, TypeOK, Others
<1>6. AcknowledgedTruthfully'
  BY <1>1, <1>3, <1>4, NoNewAck
<1>7. Undisturbed
  BY <1>1, <1>3, <1>4 DEF Undisturbed
<1> QED BY <1>5, <1>6, <1>7, SpeakersRest DEF Others

\* A result that asks, finishes, blocks or is cancelled.
LEMMA PublishInv == ASSUME Inv, NEW j \in Jobs, Publish(j) PROVE Inv'
<1>1. status' \in [Jobs -> Statuses]
  BY DEF Publish, Inv, TypeOK, Statuses
<1> QED BY <1>1, NewGeneration DEF Publish

\* A result announced again on the user's wish.
LEMMA RepeatInv == ASSUME Inv, NEW j \in Jobs, Repeat(j) PROVE Inv'
<1>1. status' \in [Jobs -> Statuses]
  BY DEF Repeat, Inv, TypeOK
<1> QED BY <1>1, NewGeneration DEF Repeat

\* The user's own word settles the delivery and is its evidence.
LEMMA SettledByUser ==
    ASSUME Inv, NEW j \in Jobs, NEW a \in {"spoken", "dismissed"},
           dlv' = [dlv EXCEPT ![j] = Settled(@, a)],
           told' = [told EXCEPT ![j] = @ \cup {"handled"}], status' \in [Jobs -> Statuses],
           UNCHANGED Others
    PROVE  Inv'
<1> DEFINE d == Settled(dlv[j], a)
<1>1. d \in Deliveries /\ d.token = NoToken /\ d.ack = a
  BY SettledShape DEF Inv, TypeOK
<1>2. dlv' = [dlv EXCEPT ![j] = d]
  OBVIOUS
<1> HIDE DEF d
<1>3. /\ dlv' \in [Jobs -> Deliveries] /\ dlv'[j] = d
      /\ \A i \in Jobs : i # j => dlv'[i] = dlv[i]
  BY <1>1, <1>2, DeliveryStep DEF Inv
<1>4. /\ told' \in [Jobs -> SUBSET Evidence] /\ "handled" \in told'[j]
      /\ \A i \in Jobs : i # j => told'[i] = told[i]
  BY DEF Inv, TypeOK, Evidence
<1>5. TypeOK'
  BY <1>3, <1>4 DEF Inv, TypeOK, Others
<1>6. AcknowledgedTruthfully'
  BY <1>1, <1>3, <1>4 DEF Inv, ClaimInv, AcknowledgedTruthfully
<1>7. Undisturbed
  BY <1>1, <1>3, <1>4 DEF Undisturbed
<1> QED BY <1>5, <1>6, <1>7, SpeakersRest DEF Others

\* Dismissing.
LEMMA DismissInv == ASSUME Inv, NEW j \in Jobs, Dismiss(j) PROVE Inv'
<1>1. status' \in [Jobs -> Statuses]
  BY DEF Dismiss, Inv, TypeOK
<1> QED BY <1>1, SettledByUser DEF Dismiss

\* Answering, or putting the question off.
LEMMA AnswerInv == ASSUME Inv, NEW j \in Jobs, Answer(j) PROVE Inv'
<1>1. status' \in [Jobs -> Statuses]
  BY DEF Answer, Inv, TypeOK, Statuses
<1>2. CASE dlv[j].delivered
  <2>1. dlv' = dlv
    BY <1>2 DEF Answer, Inv, TypeOK
  <2>2. told' \in [Jobs -> SUBSET Evidence] /\ \A i \in Jobs : told[i] \subseteq told'[i]
    BY DEF Answer, Inv, TypeOK, Evidence
  <2>3. TypeOK'
    BY <1>1, <2>1, <2>2 DEF Answer, Others, Inv, TypeOK
  <2>4. AcknowledgedTruthfully'
    BY <2>1, <2>2, NoNewAck
  <2>5. Undisturbed
    BY <2>1, <2>2 DEF Undisturbed
  <2> QED BY <2>3, <2>4, <2>5, SpeakersRest DEF Answer, Others
<1>3. CASE ~dlv[j].delivered
  <2>1. dlv' = [dlv EXCEPT ![j] = Settled(@, "spoken")]
    BY <1>3 DEF Answer
  <2> QED BY <1>1, <2>1, SettledByUser DEF Answer
<1> QED BY <1>2, <1>3

\* A requeue leaves the delivery alone.
LEMMA RequeueInv == ASSUME Inv, NEW j \in Jobs, Requeue(j) PROVE Inv'
<1> USE DEF Requeue, Others
<1>1. TypeOK'
  BY DEF Inv, TypeOK, Statuses
<1>2. AcknowledgedTruthfully'
  BY NoNewAck
<1> QED BY <1>1, <1>2, SpeakersRest DEF Undisturbed

\* Time changes neither tokens nor acknowledgements.
LEMMA TimeStep ==
    ASSUME Inv, NEW j \in Jobs, NEW d \in Deliveries, dlv' = [dlv EXCEPT ![j] = d],
           d.ack = dlv[j].ack, d.token = dlv[j].token, d.gen = dlv[j].gen,
           faults' \in 0 .. MaxFaults, UNCHANGED <<status, proc, told, loud>>
    PROVE  Inv'
<1>1. /\ dlv' \in [Jobs -> Deliveries] /\ dlv'[j] = d
      /\ \A i \in Jobs : i # j => dlv'[i] = dlv[i]
  BY DeliveryStep DEF Inv
<1>2. TypeOK'
  BY <1>1 DEF Inv, TypeOK
<1>3. AcknowledgedTruthfully'
  BY <1>1, NoNewAck
<1>4. Undisturbed
  BY <1>1 DEF Undisturbed
<1> QED BY <1>2, <1>3, <1>4, SpeakersRest

\* An expired claim is still a claim.
LEMMA ExpiredShape ==
    ASSUME NEW d \in Deliveries, d.token # NoToken
    PROVE  /\ [d EXCEPT !.expired = TRUE] \in Deliveries
           /\ [d EXCEPT !.expired = TRUE].ack = d.ack
           /\ [d EXCEPT !.expired = TRUE].token = d.token
           /\ [d EXCEPT !.expired = TRUE].gen = d.gen
           /\ [d EXCEPT !.expired = TRUE].delivered = d.delivered
BY DEF Deliveries, DeliveryFields, Loadable, Acks

\* A retry that comes due.
LEMMA DueShape ==
    ASSUME NEW d \in Deliveries
    PROVE  /\ [d EXCEPT !.due = TRUE] \in Deliveries
           /\ [d EXCEPT !.due = TRUE].ack = d.ack
           /\ [d EXCEPT !.due = TRUE].token = d.token
           /\ [d EXCEPT !.due = TRUE].gen = d.gen
           /\ [d EXCEPT !.due = TRUE].delivered = d.delivered
BY DEF Deliveries, DeliveryFields, Loadable, Acks

\* Leases run out and retries come due.
LEMMA TimeInv ==
    ASSUME Inv, NEW j \in Jobs,
           ForgottenLeaseExpires(j) \/ HeldLeaseExpires(j) \/ RetryDue(j)
    PROVE  Inv'
<1>1. dlv[j] \in Deliveries /\ dlv \in [Jobs -> Deliveries] /\ faults \in 0 .. MaxFaults
  BY DEF Inv, TypeOK
<1>2. CASE ForgottenLeaseExpires(j) \/ HeldLeaseExpires(j)
  <2>1. dlv' = [dlv EXCEPT ![j] = [dlv[j] EXCEPT !.expired = TRUE]] /\ dlv[j].token # NoToken
    BY <1>1, <1>2 DEF ForgottenLeaseExpires, HeldLeaseExpires
  <2>2. faults' \in 0 .. MaxFaults /\ UNCHANGED <<status, proc, told, loud>>
    BY <1>1, <1>2, DeliveryConstants DEF ForgottenLeaseExpires, HeldLeaseExpires
  <2> QED BY <1>1, <2>1, <2>2, ExpiredShape, TimeStep
<1>3. CASE RetryDue(j)
  <2>1. dlv' = [dlv EXCEPT ![j] = [dlv[j] EXCEPT !.due = TRUE]]
    BY <1>1, <1>3 DEF RetryDue
  <2> QED BY <1>1, <1>3, <2>1, DueShape, TimeStep DEF RetryDue
<1> QED BY <1>2, <1>3

\* The policy touches no claim.
LEMMA SettleOnSpeakingInv == ASSUME Inv, SettleOnSpeaking PROVE Inv'
<1> USE DEF SettleOnSpeaking
<1>1. TypeOK'
  BY DEF Inv, TypeOK
<1>2. AcknowledgedTruthfully'
  BY NoNewAck
<1> QED BY <1>1, <1>2, SpeakersRest DEF Undisturbed

(***************************************************************************)
(* Claiming: the only steps that make a claim.                             *)
(***************************************************************************)

\* A fresh token is in nobody's hands, and on no job.
LEMMA FreshToken ==
    ASSUME Tokens \ InUse # {}, NEW j \in Jobs
    PROVE  TokenFor(j) \in Tokens /\ TokenFor(j) \notin InUse
BY DEF TokenFor

\* A speaker that claims a delivery under a fresh token.
LEMMA NewClaim ==
    ASSUME Inv, NEW p \in Speakers, NEW j \in Jobs, NEW t \in Tokens, t \notin InUse,
           ~dlv[j].delivered, dlv' = [dlv EXCEPT ![j] = ClaimedBy(@, t)],
           NEW l \in Locals, proc' = [proc EXCEPT ![p] = l],
           l.todo \cup l.speak \cup l.cur \subseteq
               Held(p) \cup {[job |-> j, token |-> t, gen |-> dlv[j].gen]},
           l.cur \subseteq proc[p].cur, l.pc # "finishing",
           UNCHANGED <<status, told, loud, faults>>
    PROVE  Inv'
<1> DEFINE k == [job |-> j, token |-> t, gen |-> dlv[j].gen]
           d == ClaimedBy(dlv[j], t)
<1>1. d \in Deliveries /\ d.token = t /\ d.ack = dlv[j].ack /\ d.gen = dlv[j].gen
  BY ClaimedShape DEF Inv, TypeOK
<1>2. dlv' = [dlv EXCEPT ![j] = d]
  OBVIOUS
<1>3. k.job = j /\ k.token = t /\ k.gen = dlv[j].gen
  OBVIOUS
<1>4. l.todo \cup l.speak \cup l.cur \subseteq Held(p) \cup {k}
  OBVIOUS
<1> HIDE DEF k, d
<1>5. /\ dlv' \in [Jobs -> Deliveries] /\ dlv'[j] = d
      /\ \A i \in Jobs : i # j => dlv'[i] = dlv[i]
  BY <1>1, <1>2, DeliveryStep DEF Inv
<1>6. /\ proc' \in [Speakers -> Locals] /\ proc'[p] = l
      /\ Held(p)' \subseteq Held(p) \cup {k}
      /\ \A q \in Speakers : q # p => proc'[q] = proc[q] /\ Held(q)' = Held(q)
  BY ZenonT(30), <1>4, LocalStep DEF Inv
<1>7. TypeOK'
  BY <1>5, <1>6 DEF Inv, TypeOK
<1>8. AcknowledgedTruthfully'
  BY <1>1, <1>5, NoNewAck
<1>9. ASSUME NEW q \in Speakers, NEW c \in Held(q)
      PROVE  c.token # t /\ c.job \in Jobs
  <2>1. c.token \in InUse
    BY <1>9 DEF InUse
  <2> QED BY <1>9, <2>1, HeldType DEF Inv
<1>10. ASSUME NEW q \in Speakers, NEW c \in Held(q), c.token = dlv'[c.job].token
       PROVE  c.token = dlv[c.job].token /\ dlv'[c.job] = dlv[c.job]
  BY <1>1, <1>5, <1>9, <1>10
<1>11. ClaimShape'
  <2>1. ASSUME NEW q \in Speakers, NEW c \in Held(q)', Standing(c)' PROVE Current(c)'
    <3>1. CASE c \in Held(q)
      BY <1>10, <2>1, <3>1 DEF Inv, ClaimInv, ClaimShape, Standing, Current
    <3>2. CASE c = k
      BY <1>1, <1>3, <1>5, <3>2 DEF Current
    <3> QED BY <1>6, <3>1, <3>2
  <2>2. ASSUME NEW q \in Speakers, NEW c \in proc'[q].cur, Standing(c)'
        PROVE  "shown" \in told'[c.job]
    <3>1. c \in proc[q].cur /\ c \in Held(q)
      BY <1>6, <2>2 DEF Held
    <3> QED BY <1>10, <2>2, <3>1 DEF Inv, ClaimInv, ClaimShape, Standing
  <2>3. ASSUME NEW q \in Speakers, proc'[q].pc = "finishing",
               NEW c \in proc'[q].speak, Standing(c)'
        PROVE  "heard" \in told'[c.job]
    <3>1. q # p /\ c \in proc[q].speak /\ c \in Held(q) /\ proc[q].pc = "finishing"
      BY <1>6, <2>3 DEF Held
    <3> QED BY <1>10, <2>3, <3>1 DEF Inv, ClaimInv, ClaimShape, Standing, At
  <2> QED BY <2>1, <2>2, <2>3 DEF ClaimShape, At
<1>12. TokenShape'
  <2>1. ASSUME NEW q \in Speakers, NEW r \in Speakers, NEW b \in Held(q)', NEW c \in Held(r)',
               b.token = c.token
        PROVE  q = r /\ b = c
    <3>1. (b \in Held(q) \/ (q = p /\ b = k)) /\ (c \in Held(r) \/ (r = p /\ c = k))
      BY <1>6
    <3>2. CASE b \in Held(q) /\ c \in Held(r)
      BY <2>1, <3>2 DEF Inv, ClaimInv, TokenShape
    <3>3. CASE b \notin Held(q) \/ c \notin Held(r)
      BY <1>3, <1>9, <2>1, <3>1, <3>3
    <3> QED BY <3>2, <3>3
  <2> QED BY <2>1 DEF TokenShape
<1> QED BY <1>7, <1>8, <1>11, <1>12 DEF Inv, ClaimInv

\* A claim record made for a job is of the right type.
LEMMA ClaimOfType ==
    ASSUME TypeOK, NEW j \in Jobs, TokenFor(j) \in Tokens
    PROVE  ClaimOf(j) \in Claims
BY DEF TypeOK, ClaimOf, Claims, Deliveries, DeliveryFields

\* pending_deliveries claims one more delivery.
LEMMA ClaimDeliveryInv ==
    ASSUME Inv, NEW p \in Speakers, NEW j \in Jobs, ClaimDelivery(p, j) PROVE Inv'
<1> DEFINE l == [proc[p] EXCEPT !.todo = proc[p].todo \cup {ClaimOf(j)}]
<1>1. TokenFor(j) \in Tokens /\ TokenFor(j) \notin InUse
  BY FreshToken DEF ClaimDelivery
<1>2. ClaimOf(j) \in Claims
  BY <1>1, ClaimOfType DEF Inv
<1>3. proc' = [proc EXCEPT ![p] = l]
  BY DEF ClaimDelivery, Inv, TypeOK
<1>4. proc[p] \in Locals
  BY DEF Inv, TypeOK
<1>5. /\ l \in Locals /\ l.pc = proc[p].pc /\ l.cur = proc[p].cur
      /\ l.speak = proc[p].speak /\ l.todo = proc[p].todo \cup {ClaimOf(j)}
  BY <1>2, <1>4 DEF Locals
<1> HIDE DEF l
<1>6. l.todo \cup l.speak \cup l.cur \subseteq Held(p) \cup {ClaimOf(j)} /\ l.pc # "finishing"
  BY <1>5 DEF Held, ClaimDelivery, At
<1>7. /\ dlv' = [dlv EXCEPT ![j] = ClaimedBy(@, TokenFor(j))] /\ ~dlv[j].delivered
      /\ UNCHANGED <<status, told, loud, faults>>
  BY DEF ClaimDelivery, Claimable
<1> QED BY <1>1, <1>3, <1>5, <1>6, <1>7, NewClaim DEF ClaimOf

\* A turn claims the one result it is about.
LEMMA ClaimForegroundInv ==
    ASSUME Inv, NEW p \in Speakers, NEW j \in Jobs, ClaimForeground(p, j) PROVE Inv'
<1> DEFINE l == [Idle EXCEPT !.pc = "playing", !.mode = "turn", !.speak = {ClaimOf(j)}]
<1>1. TokenFor(j) \in Tokens /\ TokenFor(j) \notin InUse
  BY FreshToken DEF ClaimForeground
<1>2. ClaimOf(j) \in Claims
  BY <1>1, ClaimOfType DEF Inv
<1>3. proc' = [proc EXCEPT ![p] = l]
  BY DEF ClaimForeground
<1>4. l \in Locals /\ l.pc = "playing" /\ l.cur = {} /\ l.speak = {ClaimOf(j)} /\ l.todo = {}
  BY <1>2 DEF Idle, Locals, Pcs, Locked, Modes
<1> HIDE DEF l
<1>5. l.todo \cup l.speak \cup l.cur \subseteq Held(p) \cup {ClaimOf(j)}
  BY <1>4
<1>6. /\ dlv' = [dlv EXCEPT ![j] = ClaimedBy(@, TokenFor(j))] /\ ~dlv[j].delivered
      /\ UNCHANGED <<status, told, loud, faults>>
  BY DEF ClaimForeground, Claimable
<1> QED BY <1>1, <1>3, <1>4, <1>5, <1>6, NewClaim DEF ClaimOf

(***************************************************************************)
(* The other steps of a speaker.                                           *)
(***************************************************************************)

\* A step that only moves claims about inside one speaker.
LEMMA QuietStep ==
    ASSUME Inv, NEW p \in Speakers, NEW l \in Locals, proc' = [proc EXCEPT ![p] = l],
           UNCHANGED <<status, dlv, told, loud>>, faults' \in 0 .. MaxFaults,
           l.todo \cup l.speak \cup l.cur \subseteq Held(p), l.cur \subseteq proc[p].cur,
           l.pc = "finishing" =>
               l.speak = {} \/ (proc[p].pc = "finishing" /\ l.speak \subseteq proc[p].speak)
    PROVE  Inv'
<1>1. TypeOK'
  BY LocalStep DEF Inv, TypeOK
<1>2. AcknowledgedTruthfully'
  BY NoNewAck
<1>3. Undisturbed
  BY DEF Undisturbed
<1> QED BY <1>1, <1>2, <1>3, SpeakerStep

\* A step that releases a claim.
LEMMA ReleaseStep ==
    ASSUME Inv, NEW p \in Speakers, NEW l \in Locals, proc' = [proc EXCEPT ![p] = l],
           NEW c \in Claims, dlv' = Released(c),
           UNCHANGED <<status, told, loud>>, faults' \in 0 .. MaxFaults,
           l.todo \cup l.speak \cup l.cur \subseteq Held(p), l.cur \subseteq proc[p].cur,
           l.pc = "finishing" => proc[p].pc = "finishing" /\ l.speak \subseteq proc[p].speak
    PROVE  Inv'
<1>1. /\ dlv' \in [Jobs -> Deliveries]
      /\ \A j \in Jobs : /\ dlv'[j].ack = dlv[j].ack /\ dlv'[j].gen = dlv[j].gen
                         /\ dlv'[j].token \in {dlv[j].token, NoToken}
  BY ReleasedShape DEF Inv
<1>2. TypeOK'
  BY <1>1, LocalStep DEF Inv, TypeOK
<1>3. AcknowledgedTruthfully'
  BY <1>1, NoNewAck
<1>4. Undisturbed
  BY <1>1 DEF Undisturbed
<1> QED BY <1>2, <1>3, <1>4, SpeakerStep

\* A step that acknowledges a claim whose standing is evidence of what it says.
LEMMA AckStep ==
    ASSUME Inv, NEW p \in Speakers, NEW l \in Locals, proc' = [proc EXCEPT ![p] = l],
           NEW c \in Claims, NEW a \in {"spoken", "desktop", "deferred"},
           AckLegal(c, a), dlv' = [dlv EXCEPT ![c.job] = Acknowledged(@, a)],
           a = "spoken" => "heard" \in told[c.job],
           a = "desktop" => "shown" \in told[c.job],
           UNCHANGED <<status, told, loud, faults>>,
           l.todo \cup l.speak \cup l.cur \subseteq Held(p), l.cur \subseteq proc[p].cur,
           l.pc = "finishing" => proc[p].pc = "finishing" /\ l.speak \subseteq proc[p].speak
    PROVE  Inv'
<1> DEFINE d == Acknowledged(dlv[c.job], a)
<1>1. c.job \in Jobs
  BY DEF Claims
<1>2. d \in Deliveries /\ d.token = NoToken /\ d.ack = a
  BY <1>1, AcknowledgedShape DEF Inv, TypeOK
<1>3. dlv' = [dlv EXCEPT ![c.job] = d]
  OBVIOUS
<1> HIDE DEF d
<1>4. /\ dlv' \in [Jobs -> Deliveries] /\ dlv'[c.job] = d
      /\ \A i \in Jobs : i # c.job => dlv'[i] = dlv[i]
  BY <1>1, <1>2, <1>3, DeliveryStep DEF Inv
<1>5. TypeOK'
  BY <1>4, LocalStep DEF Inv, TypeOK
<1>6. AcknowledgedTruthfully'
  BY <1>1, <1>2, <1>4 DEF Inv, ClaimInv, AcknowledgedTruthfully
<1>7. Undisturbed
  BY <1>2, <1>4 DEF Undisturbed
<1> QED BY <1>5, <1>6, <1>7, SpeakerStep

\* The locals of a speaker at rest, and after losing all it knew.
LEMMA IdleType == Idle \in Locals /\ Idle.pc = "idle" /\ Idle.todo = {} /\ Idle.speak = {}
                  /\ Idle.cur = {}
BY DEF Idle, Locals, Pcs, Modes

\* A drain begins with nothing claimed.
LEMMA AcquireDrainLockInv == ASSUME Inv, NEW p \in Speakers, AcquireDrainLock(p) PROVE Inv'
<1>1. PICK m \in Modes :
          proc' = [proc EXCEPT ![p] = [Idle EXCEPT !.pc = "claiming", !.mode = m]]
  BY DEF AcquireDrainLock, Modes
<1> DEFINE l == [Idle EXCEPT !.pc = "claiming", !.mode = m]
<1>2. l \in Locals /\ l.pc = "claiming" /\ l.todo = {} /\ l.speak = {} /\ l.cur = {}
  BY DEF Idle, Locals, Pcs, Locked
<1>3. proc' = [proc EXCEPT ![p] = l]
  BY <1>1
<1> HIDE DEF l
<1>4. UNCHANGED <<status, dlv, told, loud>> /\ faults' \in 0 .. MaxFaults
  BY DEF AcquireDrainLock, Inv, TypeOK
<1> QED BY <1>2, <1>3, <1>4, QuietStep

\* The end of claiming.
LEMMA StopClaimingInv == ASSUME Inv, NEW p \in Speakers, StopClaiming(p) PROVE Inv'
<1> DEFINE l == IF proc[p].todo = {} THEN Idle
                ELSE IF proc[p].mode = "drain" THEN [proc[p] EXCEPT !.pc = "choosing"]
                ELSE [proc[p] EXCEPT !.pc = "playing", !.speak = proc[p].todo, !.todo = {}]
<1>1. proc[p] \in Locals
  BY DEF Inv, TypeOK
<1>2. /\ l \in Locals /\ l.pc # "finishing" /\ l.cur \subseteq proc[p].cur
      /\ l.todo \cup l.speak \cup l.cur \subseteq Held(p)
  <2>1. CASE proc[p].todo = {}
    BY <2>1, IdleType
  <2>2. CASE proc[p].todo # {} /\ proc[p].mode = "drain"
    BY <1>1, <2>2 DEF Locals, Pcs, Locked, Held
  <2>3. CASE proc[p].todo # {} /\ proc[p].mode # "drain"
    BY <1>1, <2>3 DEF Locals, Pcs, Held
  <2> QED BY <2>1, <2>2, <2>3
<1>3. proc' = [proc EXCEPT ![p] = l]
  BY DEF StopClaiming, Inv, TypeOK
<1> HIDE DEF l
<1>4. UNCHANGED <<status, dlv, told, loud>> /\ faults' \in 0 .. MaxFaults
  BY DEF StopClaiming, Inv, TypeOK
<1> QED BY <1>2, <1>3, <1>4, QuietStep

\* A claim that is to be spoken.
LEMMA ChooseSpeakInv ==
    ASSUME Inv, NEW p \in Speakers, NEW c \in Held(p), ChooseSpeak(p, c) PROVE Inv'
<1> DEFINE l == [proc[p] EXCEPT !.todo = proc[p].todo \ {c}, !.speak = proc[p].speak \cup {c}]
<1>1. proc[p] \in Locals /\ c \in Claims /\ c \in proc[p].todo
  BY HeldType DEF Inv, ChooseSpeak
<1>2. /\ l \in Locals /\ l.pc = proc[p].pc /\ l.cur \subseteq proc[p].cur
      /\ l.todo \cup l.speak \cup l.cur \subseteq Held(p)
  BY <1>1 DEF Locals, Held
<1>3. proc' = [proc EXCEPT ![p] = l]
  BY DEF ChooseSpeak, Inv, TypeOK
<1> HIDE DEF l
<1>4. /\ UNCHANGED <<status, dlv, told, loud>> /\ faults' \in 0 .. MaxFaults
      /\ proc[p].pc # "finishing"
  BY DEF ChooseSpeak, Inv, TypeOK, At
<1> QED BY <1>2, <1>3, <1>4, QuietStep

\* A claim that is deferred: no evidence is needed.
LEMMA ChooseDeferInv ==
    ASSUME Inv, NEW p \in Speakers, NEW c \in Held(p), ChooseDefer(p, c) PROVE Inv'
<1> DEFINE l == [proc[p] EXCEPT !.todo = proc[p].todo \ {c}]
<1>1. proc[p] \in Locals /\ c \in Claims
  BY HeldType DEF Inv
<1>2. /\ l \in Locals /\ l.pc = proc[p].pc /\ l.cur \subseteq proc[p].cur
      /\ l.todo \cup l.speak \cup l.cur \subseteq Held(p)
  BY <1>1 DEF Locals, Held
<1>3. proc' = [proc EXCEPT ![p] = l]
  BY DEF ChooseDefer, Inv, TypeOK
<1> HIDE DEF l
<1>4. /\ UNCHANGED <<status, told, loud, faults>> /\ faults' \in 0 .. MaxFaults
      /\ proc[p].pc # "finishing"
  BY DEF ChooseDefer, Inv, TypeOK, At
<1>5. CASE AckLegal(c, "deferred")
  <2>1. dlv' = [dlv EXCEPT ![c.job] = Acknowledged(@, "deferred")]
    BY <1>5 DEF ChooseDefer
  <2> QED BY <1>1, <1>2, <1>3, <1>4, <1>5, <2>1, AckStep
<1>6. CASE ~AckLegal(c, "deferred")
  <2>1. dlv' = dlv
    BY <1>6 DEF ChooseDefer
  <2> QED BY <1>2, <1>3, <1>4, <2>1, QuietStep
<1> QED BY <1>5, <1>6

\* Telling adds evidence, to every job with a current claim among those told.
LEMMA TellShape ==
    ASSUME TypeOK, NEW cs, NEW w \in Evidence
    PROVE  /\ Tell(cs, w) \in [Jobs -> SUBSET Evidence]
           /\ \A j \in Jobs : told[j] \subseteq Tell(cs, w)[j]
           /\ \A c \in cs : c.job \in Jobs /\ Current(c) => w \in Tell(cs, w)[c.job]
BY DEF TypeOK, Tell

\* A step that tells claims, and may then treat the standing ones as told.
LEMMA TellStep ==
    ASSUME Inv, NEW p \in Speakers, NEW l \in Locals, proc' = [proc EXCEPT ![p] = l],
           NEW cs \in SUBSET Held(p), NEW w \in {"heard", "shown"}, told' = Tell(cs, w),
           UNCHANGED <<status, dlv, loud, faults>>,
           l.todo \cup l.speak \cup l.cur \subseteq Held(p),
           w = "shown" => l.cur \subseteq cs /\ l.pc # "finishing",
           w = "heard" => l.cur \subseteq proc[p].cur /\ l.speak \subseteq cs
    PROVE  Inv'
<1>1. /\ told' \in [Jobs -> SUBSET Evidence] /\ \A j \in Jobs : told[j] \subseteq told'[j]
      /\ \A c \in cs : c.job \in Jobs /\ Current(c) => w \in told'[c.job]
  BY TellShape DEF Inv, Evidence
<1>2. TypeOK'
  BY <1>1, LocalStep DEF Inv, TypeOK
<1>3. AcknowledgedTruthfully'
  BY <1>1, NoNewAck
<1>4. Undisturbed
  BY <1>1 DEF Undisturbed
<1>5. \A c \in cs : w \in told'[c.job] \/ c.token # dlv'[c.job].token
  <2>1. ASSUME NEW c \in cs, c.token = dlv[c.job].token PROVE w \in told'[c.job]
    <3>1. c \in Held(p) /\ c.job \in Jobs
      BY HeldType DEF Inv
    <3>2. Current(c)
      BY <2>1, <3>1 DEF Inv, ClaimInv, ClaimShape, Standing
    <3> QED BY <1>1, <3>1, <3>2
  <2> QED BY <2>1
<1>6. \A c \in l.cur :
          c \in proc[p].cur \/ "shown" \in told'[c.job] \/ c.token # dlv'[c.job].token
  BY <1>5
<1>7. l.pc = "finishing" => \A c \in l.speak :
          \/ proc[p].pc = "finishing" /\ c \in proc[p].speak
          \/ "heard" \in told'[c.job]
          \/ c.token # dlv'[c.job].token
  BY <1>5
<1> QED BY <1>2, <1>3, <1>4, <1>6, <1>7, SpeakerStep

\* The desktop shows a result.
LEMMA NotifyDesktopInv ==
    ASSUME Inv, NEW p \in Speakers, NEW c \in Held(p), NotifyDesktop(p, c) PROVE Inv'
<1> DEFINE l == [proc[p] EXCEPT !.pc = "shown", !.todo = proc[p].todo \ {c}, !.cur = {c}]
<1>1. proc[p] \in Locals /\ c \in Claims
  BY HeldType DEF Inv
<1>2. /\ l \in Locals /\ l.pc = "shown" /\ l.cur = {c}
      /\ l.todo \cup l.speak \cup l.cur \subseteq Held(p)
  BY <1>1 DEF Locals, Held, Pcs, Locked
<1>3. proc' = [proc EXCEPT ![p] = l]
  BY DEF NotifyDesktop, Inv, TypeOK
<1> HIDE DEF l
<1>4. told' = Tell({c}, "shown") /\ UNCHANGED <<status, dlv, loud, faults>>
  BY DEF NotifyDesktop
<1> QED BY <1>2, <1>3, <1>4, TellStep

\* A notification that fails is released.
LEMMA NotifyFailsInv ==
    ASSUME Inv, NEW p \in Speakers, NEW c \in Held(p), NotifyFails(p, c) PROVE Inv'
<1> DEFINE l == [proc[p] EXCEPT !.todo = proc[p].todo \ {c}]
<1>1. proc[p] \in Locals /\ c \in Claims
  BY HeldType DEF Inv
<1>2. /\ l \in Locals /\ l.pc = proc[p].pc /\ l.cur \subseteq proc[p].cur
      /\ l.todo \cup l.speak \cup l.cur \subseteq Held(p)
  BY <1>1 DEF Locals, Held
<1>3. proc' = [proc EXCEPT ![p] = l]
  BY DEF NotifyFails, Inv, TypeOK
<1> HIDE DEF l
<1>4. /\ UNCHANGED <<status, told, loud>> /\ dlv' = Released(c) /\ proc[p].pc # "finishing"
  BY DEF NotifyFails, At
<1>5. faults' \in 0 .. MaxFaults
  BY DeliveryConstants DEF NotifyFails, Inv, TypeOK
<1> QED BY <1>1, <1>2, <1>3, <1>4, <1>5, ReleaseStep

\* What is acknowledged as shown was shown.
LEMMA AcknowledgeDesktopInv ==
    ASSUME Inv, NEW p \in Speakers, NEW c \in Held(p), AcknowledgeDesktop(p, c) PROVE Inv'
<1> DEFINE l == [proc[p] EXCEPT !.pc = "choosing", !.cur = {}]
<1>1. proc[p] \in Locals /\ c \in Claims /\ c \in proc[p].cur
  BY HeldType DEF Inv, AcknowledgeDesktop
<1>2. /\ l \in Locals /\ l.pc = "choosing" /\ l.cur = {}
      /\ l.todo \cup l.speak \cup l.cur \subseteq Held(p)
  BY <1>1 DEF Locals, Held, Pcs, Locked
<1>3. proc' = [proc EXCEPT ![p] = l]
  BY DEF AcknowledgeDesktop, Inv, TypeOK
<1> HIDE DEF l
<1>4. /\ UNCHANGED <<status, told, loud, faults>> /\ faults' \in 0 .. MaxFaults
  BY DEF AcknowledgeDesktop, Inv, TypeOK
<1>5. CASE AckLegal(c, "desktop")
  <2>1. dlv' = [dlv EXCEPT ![c.job] = Acknowledged(@, "desktop")]
    BY <1>5 DEF AcknowledgeDesktop
  <2>2. "shown" \in told[c.job]
    BY <1>1, <1>5 DEF AckLegal, Inv, ClaimInv, ClaimShape, Standing
  <2> QED BY <1>1, <1>2, <1>3, <1>4, <1>5, <2>1, <2>2, AckStep
<1>6. CASE ~AckLegal(c, "desktop")
  <2>1. dlv' = dlv
    BY <1>6 DEF AcknowledgeDesktop
  <2> QED BY <1>2, <1>3, <1>4, <2>1, QuietStep
<1> QED BY <1>5, <1>6

\* The end of a drain.
LEMMA EndDrainInv == ASSUME Inv, NEW p \in Speakers, EndDrain(p) PROVE Inv'
<1> DEFINE l == IF proc[p].speak = {} THEN Idle ELSE [proc[p] EXCEPT !.pc = "playing"]
<1>1. proc[p] \in Locals
  BY DEF Inv, TypeOK
<1>2. /\ l \in Locals /\ l.pc # "finishing" /\ l.cur \subseteq proc[p].cur
      /\ l.todo \cup l.speak \cup l.cur \subseteq Held(p)
  <2>1. CASE proc[p].speak = {}
    BY <2>1, IdleType
  <2>2. CASE proc[p].speak # {}
    BY <1>1, <2>2 DEF Locals, Pcs, Held
  <2> QED BY <2>1, <2>2
<1>3. proc' = [proc EXCEPT ![p] = l]
  BY DEF EndDrain, Inv, TypeOK
<1> HIDE DEF l
<1>4. UNCHANGED <<status, dlv, told, loud>> /\ faults' \in 0 .. MaxFaults
  BY DEF EndDrain, Inv, TypeOK
<1> QED BY <1>2, <1>3, <1>4, QuietStep

\* Playing to the end tells every claim of the batch that still stands.
LEMMA PlayedToEndInv == ASSUME Inv, NEW p \in Speakers, PlayedToEnd(p) PROVE Inv'
<1> DEFINE l == [proc[p] EXCEPT !.pc = "finishing"]
<1>1. proc[p] \in Locals /\ proc[p].speak \subseteq Held(p)
  BY DEF Inv, TypeOK, Held
<1>2. /\ l \in Locals /\ l.cur = proc[p].cur /\ l.speak = proc[p].speak
      /\ l.todo \cup l.speak \cup l.cur \subseteq Held(p)
  BY <1>1 DEF Locals, Held, Pcs
<1>3. proc' = [proc EXCEPT ![p] = l]
  BY DEF PlayedToEnd, Inv, TypeOK
<1> HIDE DEF l
<1>4. told' = Tell(proc[p].speak, "heard") /\ UNCHANGED <<status, dlv, loud, faults>>
  BY DEF PlayedToEnd
<1> QED BY <1>1, <1>2, <1>3, <1>4, TellStep

\* Giving up a playback releases the whole batch.
LEMMA AbortInv ==
    ASSUME Inv, NEW p \in Speakers, CutShort(p) \/ GuardAborts(p) PROVE Inv'
<1> DEFINE l == [proc[p] EXCEPT !.pc = "finishing", !.speak = {}, !.todo = proc[p].speak]
<1>1. proc[p] \in Locals
  BY DEF Inv, TypeOK
<1>2. /\ l \in Locals /\ l.cur = proc[p].cur /\ l.speak = {}
      /\ l.todo \cup l.speak \cup l.cur \subseteq Held(p)
  BY <1>1 DEF Locals, Held, Pcs
<1>3. proc' = [proc EXCEPT ![p] = l]
  BY DEF CutShort, GuardAborts, ReleaseAll, Inv, TypeOK
<1> HIDE DEF l
<1>4. UNCHANGED <<status, dlv, told, loud>> /\ faults' \in 0 .. MaxFaults
  BY DeliveryConstants DEF CutShort, GuardAborts, Inv, TypeOK
<1> QED BY <1>2, <1>3, <1>4, QuietStep

\* What is acknowledged as spoken was heard.
LEMMA AcknowledgeSpokenInv ==
    ASSUME Inv, NEW p \in Speakers, NEW c \in Held(p), AcknowledgeSpoken(p, c) PROVE Inv'
<1>1. proc[p] \in Locals /\ c \in Claims /\ c \in proc[p].speak /\ proc[p].pc = "finishing"
  BY HeldType DEF Inv, AcknowledgeSpoken, At
<1>2. /\ UNCHANGED <<status, told, loud, faults>> /\ faults' \in 0 .. MaxFaults
  BY DEF AcknowledgeSpoken, Inv, TypeOK
<1>3. CASE AckLegal(c, "spoken") /\ ~dlv[c.job].expired
  <2> DEFINE l == [proc[p] EXCEPT !.speak = proc[p].speak \ {c}]
  <2>1. /\ l \in Locals /\ l.cur = proc[p].cur /\ l.speak \subseteq proc[p].speak
        /\ l.todo \cup l.speak \cup l.cur \subseteq Held(p)
    BY <1>1 DEF Locals, Held
  <2>2. proc' = [proc EXCEPT ![p] = l]
    BY <1>3 DEF AcknowledgeSpoken, Inv, TypeOK
  <2> HIDE DEF l
  <2>3. dlv' = [dlv EXCEPT ![c.job] = Acknowledged(@, "spoken")]
    BY <1>3 DEF AcknowledgeSpoken
  <2>4. "heard" \in told[c.job]
    BY <1>1, <1>3 DEF AckLegal, Inv, ClaimInv, ClaimShape, Standing, At
  <2> QED BY <1>1, <1>2, <1>3, <2>1, <2>2, <2>3, <2>4, AckStep
<1>4. CASE ~(AckLegal(c, "spoken") /\ ~dlv[c.job].expired)
  <2> DEFINE cs == IF proc[p].mode = "drain" THEN {c} ELSE {}
             l == [proc[p] EXCEPT !.speak = proc[p].speak \ {c}, !.todo = cs]
  <2>1. /\ l \in Locals /\ l.cur = proc[p].cur /\ l.speak \subseteq proc[p].speak
        /\ l.todo \cup l.speak \cup l.cur \subseteq Held(p)
    BY <1>1 DEF Locals, Held
  <2>2. proc' = [proc EXCEPT ![p] = l] /\ dlv' = dlv
    BY <1>4 DEF AcknowledgeSpoken, Inv, TypeOK
  <2> HIDE DEF l
  <2> QED BY <1>1, <1>2, <2>1, <2>2, QuietStep
<1> QED BY <1>3, <1>4

\* A release after playback.
LEMMA ReleaseDeliveryInv ==
    ASSUME Inv, NEW p \in Speakers, NEW c \in Held(p), ReleaseDelivery(p, c) PROVE Inv'
<1> DEFINE l == [proc[p] EXCEPT !.todo = proc[p].todo \ {c}]
<1>1. proc[p] \in Locals /\ c \in Claims
  BY HeldType DEF Inv
<1>2. /\ l \in Locals /\ l.speak = proc[p].speak /\ l.cur = proc[p].cur
      /\ l.todo \cup l.speak \cup l.cur \subseteq Held(p)
  BY <1>1 DEF Locals, Held
<1>3. proc' = [proc EXCEPT ![p] = l]
  BY DEF ReleaseDelivery, Inv, TypeOK
<1> HIDE DEF l
<1>4. /\ UNCHANGED <<status, told, loud>> /\ dlv' = Released(c) /\ proc[p].pc = "finishing"
      /\ faults' \in 0 .. MaxFaults
  BY DEF ReleaseDelivery, At, Inv, TypeOK
<1> QED BY <1>1, <1>2, <1>3, <1>4, ReleaseStep

\* The end of a turn, and a crash, leave nothing in hand.
LEMMA ToIdleInv == ASSUME Inv, NEW p \in Speakers, FinishPlayback(p) \/ Crash(p) PROVE Inv'
<1>1. proc' = [proc EXCEPT ![p] = Idle] /\ UNCHANGED <<status, dlv, told, loud>>
  BY DEF FinishPlayback, Crash
<1>2. faults' \in 0 .. MaxFaults
  BY DeliveryConstants DEF FinishPlayback, Crash, Inv, TypeOK
<1> QED BY <1>1, <1>2, IdleType, QuietStep

(***************************************************************************)
(* The theorems.                                                           *)
(***************************************************************************)

\* The invariant holds initially.
LEMMA InitInv == ASSUME Init PROVE Inv
<1>1. TypeOK
  <2>1. dlv \in [Jobs -> Deliveries]
    BY DEF Init, Deliveries, DeliveryFields, Loadable, Acks
  <2>2. proc \in [Speakers -> Locals] /\ status \in [Jobs -> Statuses]
    BY IdleType DEF Init, Statuses
  <2>3. told \in [Jobs -> SUBSET Evidence] /\ loud \in BOOLEAN
    BY DEF Init
  <2>4. faults \in 0 .. MaxFaults
    BY DeliveryConstants DEF Init
  <2> QED BY <2>1, <2>2, <2>3, <2>4 DEF TypeOK
<1>2. \A p \in Speakers : Held(p) = {} /\ proc[p].pc = "idle" /\ proc[p].cur = {}
  BY IdleType DEF Init, Held
<1>3. AcknowledgedTruthfully
  BY DEF Init, AcknowledgedTruthfully
<1>4. ClaimShape /\ TokenShape
  BY <1>2 DEF ClaimShape, TokenShape, At
<1> QED BY <1>1, <1>3, <1>4 DEF Inv, ClaimInv

\* Every step keeps the invariant.
LEMMA NextInv == ASSUME Inv, [Next]_vars PROVE Inv'
<1>1. ASSUME NEW j \in Jobs, JobStep(j) PROVE Inv'
  BY <1>1, PublishInv, RepeatInv, DismissInv, AnswerInv, RequeueInv DEF JobStep
<1>2. ASSUME NEW j \in Jobs,
             ForgottenLeaseExpires(j) \/ HeldLeaseExpires(j) \/ RetryDue(j)
      PROVE  Inv'
  BY <1>2, TimeInv
<1>3. ASSUME NEW p \in Speakers, ClaimStep(p) PROVE Inv'
  BY <1>3, AcquireDrainLockInv, StopClaimingInv, ClaimDeliveryInv DEF ClaimStep
<1>4. ASSUME NEW p \in Speakers, ChooseStep(p) PROVE Inv'
  BY <1>4, EndDrainInv, ChooseSpeakInv, ChooseDeferInv, NotifyDesktopInv,
     AcknowledgeDesktopInv DEF ChooseStep
<1>5. ASSUME NEW p \in Speakers, PlayStep(p) PROVE Inv'
  BY <1>5, PlayedToEndInv, AbortInv, ToIdleInv, AcknowledgeSpokenInv, ReleaseDeliveryInv
     DEF PlayStep
<1>6. ASSUME NEW p \in Speakers, SpeakerFault(p) PROVE Inv'
  BY <1>6, AbortInv, ToIdleInv, NotifyFailsInv DEF SpeakerFault
<1>7. ASSUME NEW p \in Speakers, NEW j \in Jobs, ClaimForeground(p, j) PROVE Inv'
  BY <1>7, ClaimForegroundInv
<1>8. CASE SettleOnSpeaking
  BY <1>8, SettleOnSpeakingInv
<1>9. CASE UNCHANGED vars
  <2> USE <1>9 DEF vars
  <2>1. TypeOK'
    BY DEF Inv, TypeOK
  <2>2. AcknowledgedTruthfully'
    BY NoNewAck
  <2> QED BY <2>1, <2>2, SpeakersRest DEF Undisturbed
<1> QED BY <1>1, <1>2, <1>3, <1>4, <1>5, <1>6, <1>7, <1>8, <1>9 DEF Next

\* The invariant is an invariant of the specification.
LEMMA Invariance == Spec => []Inv
<1>1. Init => Inv
  BY InitInv
<1>2. Inv /\ [Next]_vars => Inv'
  BY NextInv
<1> QED BY <1>1, <1>2, PTL DEF Spec

\* Every transition stores a delivery state that load_delivery_state accepts: for any
\* interleaving of claims, acknowledgements, releases, answers and crashes.
THEOREM LoadableAlways == Spec => []TypeOK
<1>1. Inv => TypeOK
  BY DEF Inv
<1> QED BY <1>1, Invariance, PTL

\* The claims of all speakers stay in the shape the acknowledgements rely on: a claim
\* that still stands is of the current result and was told what it is about to say.
THEOREM ClaimsInShape == Spec => []ClaimInv
<1>1. Inv => ClaimInv
  BY DEF Inv
<1> QED BY <1>1, Invariance, PTL

\* No acknowledgement says more than the user got: spoken results were heard or answered,
\* desktop results shown, dismissed ones dismissed, for any jobs, speakers and faults.
THEOREM TruthfulAcknowledgement == Spec => []AcknowledgedTruthfully
<1>1. Inv => AcknowledgedTruthfully
  BY DEF Inv, ClaimInv
<1> QED BY <1>1, Invariance, PTL

\* At any time at most one claim can settle a job's delivery, and it is of the current
\* generation.
THEOREM SingleClaimant == Spec => []OneClaimant
<1>1. ASSUME Inv PROVE OneClaimant
  <2>1. SUFFICES ASSUME NEW p \in Speakers, NEW q \in Speakers,
                        NEW c \in Held(p), NEW d \in Held(q), c.job = d.job,
                        c.token = dlv[c.job].token, d.token = dlv[d.job].token
                 PROVE  p = q /\ c = d /\ Current(c)
    BY DEF OneClaimant
  <2>2. c.token = d.token
    BY <2>1
  <2>3. p = q /\ c = d
    BY <1>1, <2>2 DEF Inv, ClaimInv, TokenShape
  <2>4. Current(c)
    BY <1>1, <2>1 DEF Inv, ClaimInv, ClaimShape, Standing
  <2> QED BY <2>3, <2>4
<1> QED BY <1>1, Invariance, PTL

(***************************************************************************)
(* A delivered result stays delivered.                                     *)
(***************************************************************************)

\* What every step must show of a delivered result.
Stays == \A j \in Jobs : dlv[j].delivered /\ dlv'[j].gen = dlv[j].gen => dlv'[j].delivered

\* A step that replaces one delivery by a newer, a delivered or a not yet delivered one.
LEMMA OneStays ==
    ASSUME Inv, NEW j \in Jobs, NEW d, dlv' = [dlv EXCEPT ![j] = d],
           ~dlv[j].delivered \/ d.delivered \/ d.gen # dlv[j].gen
    PROVE  Stays
BY DEF Inv, TypeOK, Stays

\* The job, the user and time reopen nothing but by a new generation.
LEMMA JobStays ==
    ASSUME Inv, NEW j \in Jobs,
           JobStep(j) \/ ForgottenLeaseExpires(j) \/ HeldLeaseExpires(j) \/ RetryDue(j)
    PROVE  Stays
<1>1. dlv[j] \in Deliveries /\ dlv \in [Jobs -> Deliveries] /\ dlv[j].gen \in Nat
  BY DEF Inv, TypeOK, Deliveries, DeliveryFields
<1>2. CASE Publish(j) \/ Repeat(j)
  <2>1. dlv' = [dlv EXCEPT ![j] = Prepared(dlv[j])]
    BY <1>2 DEF Publish, Repeat
  <2>2. Prepared(dlv[j]).gen # dlv[j].gen
    BY <1>1, PreparedShape
  <2> QED BY <2>1, <2>2, OneStays
<1>3. CASE Dismiss(j)
  <2>1. dlv' = [dlv EXCEPT ![j] = Settled(dlv[j], "dismissed")]
    BY <1>3 DEF Dismiss
  <2>2. Settled(dlv[j], "dismissed").delivered
    BY <1>1, SettledShape
  <2> QED BY <2>1, <2>2, OneStays
<1>4. CASE Answer(j)
  <2>1. CASE dlv[j].delivered
    <3>1. dlv' = dlv
      BY <1>1, <1>4, <2>1 DEF Answer
    <3> QED BY <3>1 DEF Stays
  <2>2. CASE ~dlv[j].delivered
    <3>1. dlv' = [dlv EXCEPT ![j] = Settled(dlv[j], "spoken")]
      BY <1>4, <2>2 DEF Answer
    <3> QED BY <2>2, <3>1, OneStays
  <2> QED BY <2>1, <2>2
<1>5. CASE Requeue(j)
  BY <1>5 DEF Requeue, Stays
<1>6. CASE ForgottenLeaseExpires(j) \/ HeldLeaseExpires(j)
  <2>1. dlv' = [dlv EXCEPT ![j] = [dlv[j] EXCEPT !.expired = TRUE]] /\ dlv[j].token # NoToken
    BY <1>1, <1>6 DEF ForgottenLeaseExpires, HeldLeaseExpires
  <2>2. ~dlv[j].delivered
    BY <1>1, <2>1 DEF Deliveries, Loadable
  <2> QED BY <2>1, <2>2, OneStays
<1>7. CASE RetryDue(j)
  <2>1. dlv' = [dlv EXCEPT ![j] = [dlv[j] EXCEPT !.due = TRUE]]
    BY <1>1, <1>7 DEF RetryDue
  <2>2. [dlv[j] EXCEPT !.due = TRUE].delivered = dlv[j].delivered
    BY <1>1, DueShape
  <2> QED BY <2>1, <2>2, OneStays
<1> QED BY <1>2, <1>3, <1>4, <1>5, <1>6, <1>7 DEF JobStep

\* A speaker's release keeps what is delivered, and its claims and acknowledgements
\* touch only what is not.
LEMMA SpeakerStays ==
    ASSUME Inv, NEW p \in Speakers,
           \/ ClaimStep(p) \/ ChooseStep(p) \/ PlayStep(p) \/ SpeakerFault(p)
           \/ \E j \in Jobs : ClaimForeground(p, j)
    PROVE  Stays
<1>1. ASSUME dlv' = dlv PROVE Stays
  BY <1>1 DEF Stays
<1>2. ASSUME NEW j \in Jobs, ClaimDelivery(p, j) \/ ClaimForeground(p, j) PROVE Stays
  <2>1. dlv' = [dlv EXCEPT ![j] = ClaimedBy(dlv[j], TokenFor(j))] /\ ~dlv[j].delivered
    BY <1>2 DEF ClaimDelivery, ClaimForeground, Claimable
  <2> QED BY <2>1, OneStays
<1>3. ASSUME NEW c \in Held(p), NEW a, AckLegal(c, a),
             dlv' = [dlv EXCEPT ![c.job] = Acknowledged(@, a)]
      PROVE  Stays
  <2>1. c.job \in Jobs /\ ~dlv[c.job].delivered
    BY <1>3, HeldType DEF Inv, AckLegal
  <2> QED BY <1>3, <2>1, OneStays
<1>4. ASSUME NEW c \in Held(p), dlv' = Released(c) PROVE Stays
  <2>1. c \in Claims
    BY HeldType DEF Inv
  <2> QED BY <1>4, <2>1, ReleasedShape DEF Inv, Stays
<1>5. ASSUME NEW c \in Held(p),
             \/ ChooseSpeak(p, c) \/ ChooseDefer(p, c) \/ NotifyDesktop(p, c)
             \/ AcknowledgeDesktop(p, c) \/ AcknowledgeSpoken(p, c)
             \/ ReleaseDelivery(p, c) \/ NotifyFails(p, c)
      PROVE  Stays
  <2>1. \/ dlv' = dlv \/ dlv' = Released(c)
        \/ \E a \in {"spoken", "desktop", "deferred"} :
               AckLegal(c, a) /\ dlv' = [dlv EXCEPT ![c.job] = Acknowledged(@, a)]
    BY <1>5 DEF ChooseSpeak, ChooseDefer, NotifyDesktop, AcknowledgeDesktop,
        AcknowledgeSpoken, ReleaseDelivery, NotifyFails
  <2> QED BY <1>1, <1>3, <1>4, <2>1
<1>6. ASSUME \/ AcquireDrainLock(p) \/ StopClaiming(p) \/ EndDrain(p) \/ PlayedToEnd(p)
             \/ GuardAborts(p) \/ FinishPlayback(p) \/ CutShort(p) \/ Crash(p)
      PROVE  Stays
  <2>1. dlv' = dlv
    BY <1>6 DEF AcquireDrainLock, StopClaiming, EndDrain, PlayedToEnd, GuardAborts,
        FinishPlayback, CutShort, Crash
  <2> QED BY <1>1, <2>1
<1> QED BY <1>2, <1>5, <1>6 DEF ClaimStep, ChooseStep, PlayStep, SpeakerFault

\* No late release, acknowledgement, claim or expiry reopens a delivered result: only a
\* new generation does, so the harness never announces it a second time by itself.
THEOREM DeliveredOnce == Spec => DeliveredStays
<1>1. ASSUME Inv, Next PROVE Stays
  <2>1. CASE SettleOnSpeaking
    BY <2>1 DEF SettleOnSpeaking, Stays
  <2> QED BY <1>1, <2>1, JobStays, SpeakerStays DEF Next
<1>2. Inv /\ [Next]_vars => [Stays]_vars
  BY <1>1
<1>3. [][Stays]_vars => DeliveredStays
  BY DEF Stays, DeliveredStays
<1> QED BY <1>2, <1>3, Invariance, PTL DEF Spec

(***************************************************************************)
(* Speech.                                                                 *)
(***************************************************************************)

\* The inductive invariant: types and shapes.
HeardInv == SpeechOK /\ SpeechInv

(***************************************************************************)
(* Counting in a sequence.                                                 *)
(***************************************************************************)

\* A count is a natural number, and zero in the empty sequence.
LEMMA OccursNat ==
    ASSUME NEW S, NEW s \in Seq(S), NEW r
    PROVE  /\ IsFiniteSet({i \in DOMAIN s : s[i] = r})
           /\ Occurs(s, r) \in Nat
<1> DEFINE T == {i \in DOMAIN s : s[i] = r}
<1>1. Len(s) \in Nat /\ DOMAIN s = 1..Len(s)
  OBVIOUS
<1>2. IsFiniteSet(1..Len(s))
  BY <1>1, FS_Interval
<1>3. IsFiniteSet(T)
  BY <1>1, <1>2, FS_Subset
<1>4. Cardinality(T) \in Nat
  BY <1>3, FS_CardinalityType
<1> QED BY <1>3, <1>4 DEF Occurs

\* Nothing occurs in the empty sequence.
LEMMA OccursEmpty == ASSUME NEW r PROVE Occurs(<<>>, r) = 0
<1>1. {i \in DOMAIN <<>> : <<>>[i] = r} = {}
  OBVIOUS
<1> QED BY <1>1, FS_EmptySet DEF Occurs

\* Appending an element adds one to its count and nothing to another's.
LEMMA OccursAppend ==
    ASSUME NEW S, NEW s \in Seq(S), NEW e \in S, NEW r
    PROVE  Occurs(Append(s, e), r) = IF e = r THEN Occurs(s, r) + 1 ELSE Occurs(s, r)
<1> DEFINE T == {i \in DOMAIN s : s[i] = r}
           U == {i \in DOMAIN Append(s, e) : Append(s, e)[i] = r}
           n == Len(s) + 1
<1>1. /\ Len(s) \in Nat /\ DOMAIN s = 1..Len(s) /\ DOMAIN Append(s, e) = 1..n
      /\ \A i \in 1..Len(s) : Append(s, e)[i] = s[i]
      /\ Append(s, e)[n] = e
  OBVIOUS
<1>2. n \notin T
  BY <1>1
<1>3. CASE e = r
  <2>1. U = T \cup {n}
    BY <1>1, <1>3
  <2>2. IsFiniteSet(T)
    BY OccursNat
  <2>3. Cardinality(U) = Cardinality(T) + 1
    BY <1>2, <2>1, <2>2, FS_AddElement
  <2> QED BY <1>3, <2>3 DEF Occurs
<1>4. CASE e # r
  <2>1. U = T
    BY <1>1, <1>4
  <2> QED BY <1>4, <2>1 DEF Occurs
<1> QED BY <1>3, <1>4

\* Taking the head off takes one from its count and nothing from another's.
LEMMA OccursTail ==
    ASSUME NEW S, NEW s \in Seq(S), s # <<>>, NEW r
    PROVE  Occurs(s, r) = IF Head(s) = r THEN Occurs(Tail(s), r) + 1 ELSE Occurs(Tail(s), r)
<1> DEFINE T == {i \in DOMAIN s : s[i] = r}
           U == {i \in DOMAIN Tail(s) : Tail(s)[i] = r}
           V == T \ {1}
           f == [i \in U |-> i + 1]
<1>1. /\ Len(s) \in Nat /\ Len(s) > 0 /\ DOMAIN s = 1..Len(s)
      /\ Tail(s) \in Seq(S) /\ DOMAIN Tail(s) = 1..(Len(s) - 1)
      /\ \A i \in 1..(Len(s) - 1) : Tail(s)[i] = s[i + 1]
      /\ Head(s) = s[1]
  OBVIOUS
<1>2. f \in Bijection(U, V)
  <2>1. f \in [U -> V]
    BY <1>1
  <2>2. \A i, j \in U : f[i] = f[j] => i = j
    BY <1>1
  <2>3. \A k \in V : \E i \in U : f[i] = k
    <3> SUFFICES ASSUME NEW k \in V PROVE \E i \in U : f[i] = k
      OBVIOUS
    <3>1. k - 1 \in U /\ f[k - 1] = k
      BY <1>1
    <3> QED BY <3>1
  <2> QED BY <2>1, <2>2, <2>3 DEF Bijection, Injection, Surjection, IsInjective
<1>3. IsFiniteSet(U) /\ IsFiniteSet(T)
  BY <1>1, OccursNat
<1>4. Cardinality(V) = Cardinality(U)
  BY <1>2, <1>3, FS_Bijection DEF ExistsBijection
<1>5. Cardinality(V) = IF 1 \in T THEN Cardinality(T) - 1 ELSE Cardinality(T)
  BY <1>3, FS_RemoveElement
<1>6. 1 \in T <=> Head(s) = r
  BY <1>1
<1>7. Cardinality(T) \in Nat
  BY <1>3, FS_CardinalityType
<1>8. Occurs(s, r) = Cardinality(T) /\ Occurs(Tail(s), r) = Cardinality(U)
  BY DEF Occurs
<1> HIDE DEF T, U, V
<1> QED BY <1>4, <1>5, <1>6, <1>7, <1>8

(***************************************************************************)
(* Handles and streams.                                                    *)
(***************************************************************************)

\* What a step may do to the handle and the stream of a request: start a handle for a
\* queued request, or go on with them, without undoing what is final.
Moves(r) ==
    /\ hnd[r].th = "none" => \/ hnd'[r] = hnd[r]
                             \/ Queued(r) /\ hnd'[r] = [NoHandle EXCEPT !.th = "start"]
    /\ hnd[r].th # "none" => hnd'[r].th # "none"
    /\ hnd[r].noted <= hnd'[r].noted
    /\ Ended(r) => Ended(r)'
    /\ hnd[r].th = "complete" => hnd'[r].th = "complete" /\ (srv'[r].files => srv[r].files)
    /\ hnd'[r].th = "complete" => srv'[r].pc = "done" /\ hnd'[r].noted = Chunks
    /\ srv'[r].pc = "emit" => srv'[r].emitted < Chunks
    /\ srv'[r].pc = "done" => srv'[r].emitted = Chunks

\* The same, for a step that discards nothing.
Keeps(r) == Moves(r) /\ (hnd'[r].discarded => hnd[r].discarded)

\* A step that leaves handles and streams alone.
LEMMA MovesNot ==
    ASSUME HeardInv, UNCHANGED <<hnd, srv>>
    PROVE  /\ hnd' \in [Requests -> Handles] /\ srv' \in [Requests -> ServerStreams]
           /\ \A r \in Requests : Keeps(r)
<1>1. ASSUME NEW r \in Requests PROVE Keeps(r)
  <2>1. HandleShape(r) /\ hnd[r].noted \in Nat
    BY SpeechConstants DEF HeardInv, SpeechInv, SpeechOK, Handles
  <2> QED BY <2>1 DEF Keeps, Moves, HandleShape, Ended
<1> QED BY <1>1 DEF HeardInv, SpeechOK

\* A request that had no handle gets one.
Started == [NoHandle EXCEPT !.th = "start"]

\* start_prefetch starts handles of queued requests only.
LEMMA PrefetchStarts ==
    ASSUME HeardInv, NEW limit
    PROVE  /\ Started \in Handles /\ Started.th = "start" /\ ~Started.discarded
           /\ StartPrefetch(limit) \in [Requests -> Handles]
           /\ \A r \in Requests :
                \/ StartPrefetch(limit)[r] = hnd[r]
                \/ hnd[r].th = "none" /\ Queued(r) /\ StartPrefetch(limit)[r] = Started
<1> DEFINE h == StartPrefetch(limit)
<1>1. Started \in Handles /\ Started.th = "start" /\ ~Started.discarded
  <2>1. 0 \in 0..Chunks
    BY SpeechConstants
  <2>2. NoHandle \in Handles
    BY <2>1 DEF NoHandle, Handles, Threads
  <2> QED BY <2>2 DEF Started, NoHandle, Handles, Threads
<1>2. \A r \in Requests : \/ h[r] = hnd[r]
                          \/ hnd[r].th = "none" /\ Queued(r) /\ h[r] = Started
  BY DEF StartPrefetch, Bare, Queued, Started
<1>3. h \in [Requests -> Handles]
  <2>1. h = [r \in Requests |-> h[r]]
    BY DEF StartPrefetch
  <2> QED BY <1>1, <1>2, <2>1 DEF HeardInv, SpeechOK
<1> QED BY <1>1, <1>2, <1>3

\* A step that only starts handles of queued requests.
LEMMA StartsKeep ==
    ASSUME HeardInv, UNCHANGED srv, hnd' \in [Requests -> Handles],
           \A r \in Requests : \/ hnd'[r] = hnd[r]
                               \/ hnd[r].th = "none" /\ Queued(r) /\ hnd'[r] = Started
    PROVE  srv' \in [Requests -> ServerStreams] /\ \A r \in Requests : Keeps(r)
<1>1. ASSUME NEW r \in Requests PROVE Keeps(r)
  <2>1. HandleShape(r) /\ hnd[r].noted \in Nat
    BY SpeechConstants DEF HeardInv, SpeechInv, SpeechOK, Handles
  <2>2. CASE hnd'[r] = hnd[r]
    BY <2>1, <2>2 DEF Keeps, Moves, HandleShape, Ended
  <2>3. CASE hnd[r].th = "none" /\ Queued(r) /\ hnd'[r] = Started
    BY <2>1, <2>3 DEF Keeps, Moves, HandleShape, Ended, NoHandle, Started
  <2> QED BY <2>2, <2>3
<1> QED BY <1>1 DEF HeardInv, SpeechOK

\* The two together.
LEMMA PrefetchMoves ==
    ASSUME HeardInv, NEW limit, hnd' = StartPrefetch(limit), UNCHANGED srv
    PROVE  /\ hnd' \in [Requests -> Handles] /\ srv' \in [Requests -> ServerStreams]
           /\ \A r \in Requests : Keeps(r)
  BY PrefetchStarts, StartsKeep

\* A streamed response has queued only requests before the next one.
LEMMA QueuedBefore ==
    ASSUME HeardInv, mode = "stream", NEW r \in Requests, Queued(r)
    PROVE  r < gen.next
<1>1. PICK i \in DOMAIN queue : queue[i] = r
  BY DEF Queued
<1>2. queue \in Seq(Requests) /\ \A k \in DOMAIN queue : queue[k] \in Nat
  BY SpeechConstants DEF HeardInv, SpeechOK, Requests
<1>3. Len(queue) \in DOMAIN queue /\ i <= Len(queue) /\ i \in Nat /\ Len(queue) \in Nat
  BY <1>1, <1>2
<1>4. queue[i] + Len(queue) = queue[Len(queue)] + i /\ queue[Len(queue)] + 1 = gen.next
  BY <1>1, <1>3 DEF HeardInv, SpeechInv, QueueShape
<1> QED BY <1>1, <1>2, <1>3, <1>4

\* Steps of the handles and the server keep everything.
LEMMA MovesKeep ==
    ASSUME HeardInv, UNCHANGED <<mode, queue, gen, pl, sink, reported>>,
           hnd' \in [Requests -> Handles], srv' \in [Requests -> ServerStreams],
           pending' \subseteq Requests, failures' \in 0..MaxFailures,
           \A r \in Requests : Keeps(r)
    PROVE  HeardInv'
<1>1. SpeechOK'
  BY DEF HeardInv, SpeechOK
<1>2. QueueShape' /\ SinkShape' /\ TurnShape'
  BY DEF HeardInv, SpeechInv, QueueShape, SinkShape, TurnShape, Busy, PlayerAt, Draining
<1>3. ASSUME NEW r \in Requests
      PROVE  HandleShape(r)' /\ WriteShape(r)' /\ ResultShape(r)'
  <2>1. HandleShape(r) /\ WriteShape(r) /\ ResultShape(r) /\ Keeps(r)
    BY DEF HeardInv, SpeechInv
  <2>2. /\ Written(r)' = Written(r) /\ (Queued(r)' <=> Queued(r))
        /\ (Recorded(r)' <=> Recorded(r)) /\ (InFull(r)' <=> InFull(r))
    BY DEF Written, Queued, Recorded, InFull
  <2>3. /\ (InPlay(r)' <=> InPlay(r)) /\ (Going' <=> Going) /\ (Draining' <=> Draining)
    BY DEF InPlay, Busy, Going, Draining
  <2>4. mode = "stream" /\ Queued(r) => ~(gen.next <= r)
    <3>1. gen.next \in Nat /\ r \in Nat
      BY SpeechConstants DEF HeardInv, SpeechOK, Generators, Requests
    <3> QED BY <3>1, QueuedBefore
  <2>5. HandleShape(r)'
    BY <2>1, <2>2, <2>3 DEF HandleShape, Keeps, Moves, PlayerAt, Ended, NoHandle
  <2>6. hnd[r].noted \in Nat /\ hnd'[r].noted \in Nat /\ pl.have \in Nat
    BY SpeechConstants DEF HeardInv, SpeechOK, Handles, Players
  <2>7. WriteShape(r)'
    BY <2>1, <2>2, <2>3, <2>4, <2>6 DEF WriteShape, Keeps, Moves, PlayerAt
  <2>8. ResultShape(r)'
    BY <2>1, <2>2, <2>3 DEF ResultShape, Keeps, Moves, PlayerAt
  <2> QED BY <2>5, <2>7, <2>8
<1> QED BY <1>1, <1>2, <1>3 DEF HeardInv, SpeechInv

\* A step on the handle and the stream of one request.
LEMMA OneMoves ==
    ASSUME HeardInv, NEW r \in Requests, NEW h \in Handles, NEW v \in ServerStreams,
           hnd' = [hnd EXCEPT ![r] = h], srv' = [srv EXCEPT ![r] = v],
           hnd[r].th = "none" => h = hnd[r],
           hnd[r].th # "none" => h.th # "none",
           hnd[r].noted <= h.noted,
           Ended(r) => h.th = hnd[r].th,
           hnd[r].th = "complete" /\ v.files => srv[r].files,
           h.th = "complete" => v.pc = "done" /\ h.noted = Chunks,
           v.pc = "emit" => v.emitted < Chunks,
           v.pc = "done" => v.emitted = Chunks
    PROVE  /\ hnd' \in [Requests -> Handles] /\ srv' \in [Requests -> ServerStreams]
           /\ \A q \in Requests : Moves(q)
           /\ \A q \in Requests \ {r} : Keeps(q)
           /\ (h.discarded => hnd[r].discarded) => Keeps(r)
<1>1. hnd \in [Requests -> Handles] /\ srv \in [Requests -> ServerStreams]
  BY DEF HeardInv, SpeechOK
<1>2. /\ hnd'[r] = h /\ srv'[r] = v
      /\ \A q \in Requests \ {r} : hnd'[q] = hnd[q] /\ srv'[q] = srv[q]
  BY <1>1
<1>3. ASSUME NEW q \in Requests \ {r} PROVE Keeps(q)
  <2>1. HandleShape(q) /\ hnd[q].noted \in Nat
    BY SpeechConstants DEF HeardInv, SpeechInv, SpeechOK, Handles
  <2> QED BY <1>2, <2>1 DEF Keeps, Moves, HandleShape, Ended
<1>4. Moves(r)
  BY <1>2 DEF Moves, Ended
<1> QED BY <1>1, <1>2, <1>3, <1>4 DEF Keeps

\* What is known of the handle and the stream of a request.
LEMMA HandleTyped ==
    ASSUME HeardInv, NEW r \in Requests
    PROVE  /\ hnd \in [Requests -> Handles] /\ srv \in [Requests -> ServerStreams]
           /\ hnd[r] \in Handles /\ srv[r] \in ServerStreams /\ HandleShape(r)
           /\ hnd[r].noted \in 0..Chunks /\ srv[r].emitted \in 0..Chunks
           /\ Chunks \in Nat
  BY SpeechConstants DEF HeardInv, SpeechInv, SpeechOK, Handles, ServerStreams

\* A step of one handle and one stream that touches nothing else.
LEMMA OneKeeps ==
    ASSUME HeardInv, NEW r \in Requests, NEW h \in Handles, NEW v \in ServerStreams,
           UNCHANGED <<mode, queue, gen, pl, sink, reported>>,
           pending' \subseteq Requests, failures' = failures \/ Fault,
           hnd' = [hnd EXCEPT ![r] = h], srv' = [srv EXCEPT ![r] = v],
           hnd[r].th # "none",
           h.th # "none",
           h.discarded = hnd[r].discarded,
           hnd[r].noted <= h.noted,
           Ended(r) => h.th = hnd[r].th,
           hnd[r].th = "complete" /\ v.files => srv[r].files,
           h.th = "complete" => v.pc = "done" /\ h.noted = Chunks,
           v.pc = "emit" => v.emitted < Chunks,
           v.pc = "done" => v.emitted = Chunks
    PROVE  HeardInv'
<1>1. /\ hnd' \in [Requests -> Handles] /\ srv' \in [Requests -> ServerStreams]
      /\ \A q \in Requests : Keeps(q)
  BY OneMoves
<1>2. failures' \in 0..MaxFailures
  BY SpeechConstants DEF HeardInv, SpeechOK, Fault
<1> QED BY <1>1, <1>2, MovesKeep

(***************************************************************************)
(* The threads of the handles.                                             *)
(***************************************************************************)

\* A step of one handle that touches nothing else.
LEMMA HandleKeeps ==
    ASSUME HeardInv, NEW r \in Requests, NEW h \in Handles,
           UNCHANGED <<mode, queue, srv, pending, gen, pl, sink, reported>>,
           failures' = failures \/ Fault,
           hnd' = [hnd EXCEPT ![r] = h],
           hnd[r].th # "none", ~Ended(r),
           h.th # "none",
           h.discarded = hnd[r].discarded,
           hnd[r].noted <= h.noted,
           h.th = "complete" => srv[r].pc = "done" /\ h.noted = Chunks
    PROVE  HeardInv'
<1>1. /\ srv[r] \in ServerStreams /\ srv' = [srv EXCEPT ![r] = srv[r]]
      /\ pending' \subseteq Requests
  BY HandleTyped DEF HeardInv, SpeechOK
<1>2. /\ srv[r].pc = "emit" => srv[r].emitted < Chunks
      /\ srv[r].pc = "done" => srv[r].emitted = Chunks
  BY HandleTyped DEF HandleShape
<1>3. /\ hnd' \in [Requests -> Handles] /\ srv' \in [Requests -> ServerStreams]
      /\ \A q \in Requests : Keeps(q)
  BY <1>1, <1>2, OneMoves
<1>4. failures' \in 0..MaxFailures
  BY SpeechConstants DEF HeardInv, SpeechOK, Fault
<1> QED BY <1>1, <1>3, <1>4, MovesKeep

\* _submit_request.
LEMMA SubmitRequestInv == ASSUME HeardInv, NEW r \in Requests, SubmitRequest(r) PROVE HeardInv'
<1>1. /\ hnd[r] \in Handles /\ hnd[r].noted \in 0..Chunks /\ Chunks \in Nat
      /\ hnd \in [Requests -> Handles]
  BY HandleTyped
<1>2. /\ UNCHANGED <<mode, queue, srv, pending, gen, pl, sink, reported>>
      /\ failures' = failures \/ Fault
      /\ hnd[r].th # "none" /\ ~Ended(r)
  BY DEF SubmitRequest, Ended
<1>3. ASSUME NEW h \in Handles, hnd' = [hnd EXCEPT ![r] = h], h.th \in {"reading", "failed"},
             h.discarded = hnd[r].discarded, h.noted = hnd[r].noted
      PROVE  HeardInv'
  <2>1. hnd[r].noted <= h.noted /\ h.th # "none" /\ h.th # "complete"
    BY <1>1, <1>3
  <2> QED BY <1>2, <1>3, <2>1, HandleKeeps
<1>4. CASE hnd' = [hnd EXCEPT ![r].th = "reading", ![r].sent = TRUE]
  <2> DEFINE h == [hnd[r] EXCEPT !.th = "reading", !.sent = TRUE]
  <2>1. h \in Handles /\ h.th = "reading" /\ h.discarded = hnd[r].discarded /\ h.noted = hnd[r].noted
    BY <1>1 DEF Handles, Threads
  <2>2. hnd' = [hnd EXCEPT ![r] = h]
    BY <1>4
  <2> QED BY <1>3, <2>1, <2>2
<1>5. CASE hnd' = [hnd EXCEPT ![r].th = "failed"]
  <2> DEFINE h == [hnd[r] EXCEPT !.th = "failed"]
  <2>1. h \in Handles /\ h.th = "failed" /\ h.discarded = hnd[r].discarded /\ h.noted = hnd[r].noted
    BY <1>1 DEF Handles, Threads
  <2>2. hnd' = [hnd EXCEPT ![r] = h]
    BY <1>5
  <2> QED BY <1>3, <2>1, <2>2
<1>6. CASE hnd' = [hnd EXCEPT ![r].th = "failed", ![r].cancelled = TRUE]
  <2> DEFINE h == [hnd[r] EXCEPT !.th = "failed", !.cancelled = TRUE]
  <2>1. h \in Handles /\ h.th = "failed" /\ h.discarded = hnd[r].discarded /\ h.noted = hnd[r].noted
    BY <1>1 DEF Handles, Threads
  <2>2. hnd' = [hnd EXCEPT ![r] = h]
    BY <1>6
  <2> QED BY <1>3, <2>1, <2>2
<1> QED BY <1>4, <1>5, <1>6 DEF SubmitRequest

\* _note_chunk.
LEMMA ReadChunkInv == ASSUME HeardInv, NEW r \in Requests, ReadChunk(r) PROVE HeardInv'
<1> DEFINE h == [hnd[r] EXCEPT !.noted = hnd[r].noted + 1]
<1>1. /\ hnd[r] \in Handles /\ srv[r] \in ServerStreams
      /\ hnd[r].noted \in 0..Chunks /\ srv[r].emitted \in 0..Chunks /\ Chunks \in Nat
      /\ hnd \in [Requests -> Handles]
  BY HandleTyped
<1>2. hnd[r].noted + 1 \in 0..Chunks
  BY <1>1 DEF ReadChunk
<1>3. /\ h \in Handles /\ h.th = hnd[r].th /\ h.discarded = hnd[r].discarded
      /\ hnd[r].noted <= h.noted
  BY <1>1, <1>2 DEF Handles
<1>4. hnd' = [hnd EXCEPT ![r] = h]
  BY <1>1 DEF ReadChunk
<1>5. /\ UNCHANGED <<mode, queue, srv, pending, gen, pl, sink, reported>>
      /\ failures' = failures \/ Fault
      /\ hnd[r].th = "reading" /\ ~Ended(r)
  BY DEF ReadChunk, Ended
<1> HIDE DEF h
<1> QED BY <1>3, <1>4, <1>5, HandleKeeps

\* TTSStreamParser.finish.
LEMMA ReadDoneInv == ASSUME HeardInv, NEW r \in Requests, ReadDone(r) PROVE HeardInv'
<1> DEFINE h == [hnd[r] EXCEPT !.th = "complete"]
<1>1. /\ HandleShape(r) /\ hnd[r] \in Handles
      /\ hnd[r].noted \in 0..Chunks /\ Chunks \in Nat
      /\ hnd \in [Requests -> Handles]
  BY HandleTyped
<1>2. hnd[r].noted = Chunks /\ srv[r].pc = "done"
  BY <1>1 DEF ReadDone, HandleShape
<1>3. /\ h \in Handles /\ h.th = "complete" /\ h.discarded = hnd[r].discarded
      /\ h.noted = hnd[r].noted /\ hnd[r].noted <= h.noted
  BY <1>1 DEF Handles, Threads
<1>4. hnd' = [hnd EXCEPT ![r] = h]
  BY <1>1 DEF ReadDone
<1>5. /\ UNCHANGED <<mode, queue, srv, pending, gen, pl, sink, reported>>
      /\ failures' = failures \/ Fault
      /\ hnd[r].th = "reading" /\ ~Ended(r)
  BY DEF ReadDone, Ended
<1> HIDE DEF h
<1> QED BY <1>2, <1>3, <1>4, <1>5, HandleKeeps

\* The error path of a handle's thread.
LEMMA ReadFailsInv == ASSUME HeardInv, NEW r \in Requests, ReadFails(r) PROVE HeardInv'
<1> DEFINE h == [hnd[r] EXCEPT !.th = "failed", !.cancelled = TRUE]
<1>1. /\ HandleShape(r) /\ hnd[r] \in Handles /\ srv[r] \in ServerStreams
      /\ hnd[r].noted \in 0..Chunks /\ Chunks \in Nat
      /\ hnd \in [Requests -> Handles] /\ srv \in [Requests -> ServerStreams]
  BY HandleTyped
<1>2. PICK v \in ServerStreams : /\ srv' = [srv EXCEPT ![r] = v]
                                 /\ v.pc = srv[r].pc /\ v.emitted = srv[r].emitted
  <2> DEFINE gone == [srv[r] EXCEPT !.files = srv[r].files /\ hnd[r].noted = 0]
             aware == [gone EXCEPT !.cancel = TRUE]
  <2>1. /\ gone \in ServerStreams /\ gone.pc = srv[r].pc /\ gone.emitted = srv[r].emitted
        /\ aware \in ServerStreams /\ aware.pc = srv[r].pc /\ aware.emitted = srv[r].emitted
    BY <1>1 DEF ServerStreams
  <2>2. srv' = [srv EXCEPT ![r] = gone] \/ srv' = [srv EXCEPT ![r] = aware]
    BY <1>1 DEF ReadFails
  <2> QED BY <2>1, <2>2
<1>3. /\ h \in Handles /\ h.th = "failed" /\ h.discarded = hnd[r].discarded
      /\ hnd[r].noted <= h.noted
  <2>1. h \in Handles /\ h.th = "failed"
    BY <1>1 DEF Handles, Threads
  <2>2. h.discarded = hnd[r].discarded /\ h.noted = hnd[r].noted
    BY <1>1 DEF Handles
  <2> QED BY <1>1, <2>1, <2>2
<1>4. hnd' = [hnd EXCEPT ![r] = h]
  BY <1>1 DEF ReadFails
<1>5. /\ UNCHANGED <<mode, queue, gen, pl, sink, reported>>
      /\ failures' = failures \/ Fault
      /\ hnd[r].th = "reading" /\ ~Ended(r)
  BY DEF ReadFails, Ended
<1>6. pending' \subseteq Requests
  BY DEF ReadFails, HeardInv, SpeechOK
<1>7. /\ v.pc = "emit" => v.emitted < Chunks
      /\ v.pc = "done" => v.emitted = Chunks
  BY <1>1, <1>2 DEF HandleShape
<1> HIDE DEF h
<1> QED BY <1>2, <1>3, <1>4, <1>5, <1>6, <1>7, OneKeeps

(***************************************************************************)
(* The server.                                                             *)
(***************************************************************************)

\* A step of one stream that touches nothing else.
LEMMA ServerKeeps ==
    ASSUME HeardInv, NEW r \in Requests, NEW v \in ServerStreams,
           UNCHANGED <<mode, queue, hnd, gen, pl, sink, reported>>,
           pending' \subseteq Requests, failures' = failures \/ Fault,
           srv' = [srv EXCEPT ![r] = v],
           srv[r].pc # "done",
           v.pc = "emit" => v.emitted < Chunks,
           v.pc = "done" => v.emitted = Chunks
    PROVE  HeardInv'
<1>1. /\ hnd[r] \in Handles /\ hnd' = [hnd EXCEPT ![r] = hnd[r]]
      /\ hnd[r].noted <= hnd[r].noted
  BY HandleTyped DEF HeardInv, SpeechOK
<1>2. hnd[r].th # "complete"
  BY HandleTyped DEF HandleShape
<1>3. /\ hnd' \in [Requests -> Handles] /\ srv' \in [Requests -> ServerStreams]
      /\ \A q \in Requests : Keeps(q)
  BY <1>1, <1>2, OneMoves
<1>4. failures' \in 0..MaxFailures
  BY SpeechConstants DEF HeardInv, SpeechOK, Fault
<1> QED BY <1>3, <1>4, MovesKeep

\* _stream_response registers the stream.
LEMMA AcceptStreamInv == ASSUME HeardInv, NEW r \in Requests, AcceptStream(r) PROVE HeardInv'
<1> DEFINE v == [pc |-> "queued", cancel |-> r \in pending, emitted |-> 0, files |-> TRUE]
<1>1. v \in ServerStreams /\ v.pc = "queued"
  BY SpeechConstants DEF ServerStreams, Streams
<1>2. /\ UNCHANGED <<mode, queue, hnd, gen, pl, sink, reported>>
      /\ failures' = failures \/ Fault
      /\ srv' = [srv EXCEPT ![r] = v] /\ srv[r].pc # "done"
  BY DEF AcceptStream
<1>3. pending' \subseteq Requests
  BY DEF AcceptStream, HeardInv, SpeechOK
<1> HIDE DEF v
<1> QED BY <1>1, <1>2, <1>3, ServerKeeps

\* The stream gets the model.
LEMMA TakeModelInv == ASSUME HeardInv, NEW r \in Requests, TakeModel(r) PROVE HeardInv'
<1> DEFINE v == [srv[r] EXCEPT !.pc = "check"]
<1>1. v \in ServerStreams /\ v.pc = "check"
  BY HandleTyped DEF ServerStreams, Streams
<1>2. /\ UNCHANGED <<mode, queue, hnd, gen, pl, sink, reported>>
      /\ failures' = failures \/ Fault
      /\ srv' = [srv EXCEPT ![r] = v] /\ srv[r].pc # "done"
  BY DEF TakeModel
<1>3. pending' \subseteq Requests
  BY DEF TakeModel, HeardInv, SpeechOK
<1> HIDE DEF v
<1> QED BY <1>1, <1>2, <1>3, ServerKeeps

\* The end of a stream that is complete or cancelled.
LEMMA StreamEndsTo ==
    ASSUME HeardInv, NEW r \in Requests, StreamEnds(r), srv[r].cancel \/ AllEmitted(r)
    PROVE  \E v \in ServerStreams : /\ srv' = [srv EXCEPT ![r] = v] /\ v.pc # "emit"
                                    /\ v.pc = "done" => v.emitted = Chunks
<1> DEFINE lost == [srv[r] EXCEPT !.pc = "lost", !.files = FALSE]
           keep == srv[r].files /\ ~(srv[r].cancel /\ srv[r].emitted = 0)
           cut == [srv[r] EXCEPT !.pc = "cancelled", !.files = keep]
           full == [srv[r] EXCEPT !.pc = "done", !.files = keep]
<1>1. srv[r] \in ServerStreams /\ srv \in [Requests -> ServerStreams]
  BY HandleTyped
<1>2. /\ lost \in ServerStreams /\ cut \in ServerStreams /\ full \in ServerStreams
      /\ lost.pc = "lost" /\ cut.pc = "cancelled" /\ full.pc = "done"
      /\ full.emitted = srv[r].emitted
  BY <1>1 DEF ServerStreams, Streams
<1>3. \/ srv' = [srv EXCEPT ![r] = lost]
      \/ srv' = [srv EXCEPT ![r] = cut]
      \/ ~srv[r].cancel /\ srv' = [srv EXCEPT ![r] = full]
  BY <1>1 DEF StreamEnds, Breaks
<1>4. ~srv[r].cancel => srv[r].emitted = Chunks
  BY DEF AllEmitted
<1> HIDE DEF lost, cut, full
<1> QED BY <1>2, <1>3, <1>4

\* The next chunk, or the end of the stream.
LEMMA SynthesizeInv == ASSUME HeardInv, NEW r \in Requests, Synthesize(r) PROVE HeardInv'
<1>1. /\ srv[r] \in ServerStreams /\ srv \in [Requests -> ServerStreams]
      /\ srv[r].emitted \in 0..Chunks /\ Chunks \in Nat
  BY HandleTyped
<1>2. /\ UNCHANGED <<mode, queue, hnd, gen, pl, sink, reported>>
      /\ failures' = failures \/ Fault
      /\ srv[r].pc # "done"
  BY DEF Synthesize
<1>3. pending' \subseteq Requests
  BY DEF Synthesize, HeardInv, SpeechOK
<1>4. ASSUME NEW v \in ServerStreams, srv' = [srv EXCEPT ![r] = v],
             v.pc = "emit" => v.emitted < Chunks, v.pc = "done" => v.emitted = Chunks
      PROVE  HeardInv'
  BY <1>2, <1>3, <1>4, ServerKeeps
<1>5. CASE srv[r].cancel \/ AllEmitted(r)
  <2>1. StreamEnds(r)
    BY <1>5 DEF Synthesize
  <2> QED BY <1>4, <1>5, <2>1, StreamEndsTo
<1>6. CASE ~(srv[r].cancel \/ AllEmitted(r))
  <2> DEFINE next == [srv[r] EXCEPT !.pc = "emit"]
             bad == [srv[r] EXCEPT !.pc = "error"]
             none == [srv[r] EXCEPT !.pc = "error", !.files = FALSE]
  <2>1. /\ next \in ServerStreams /\ bad \in ServerStreams /\ none \in ServerStreams
        /\ next.pc = "emit" /\ next.emitted = srv[r].emitted
        /\ bad.pc = "error" /\ none.pc = "error"
    BY <1>1 DEF ServerStreams, Streams
  <2>2. srv[r].emitted < Chunks
    BY <1>1, <1>6 DEF AllEmitted
  <2>3. \/ srv' = [srv EXCEPT ![r] = next] \/ srv' = [srv EXCEPT ![r] = bad]
        \/ srv' = [srv EXCEPT ![r] = none]
    BY <1>1, <1>6 DEF Synthesize
  <2> HIDE DEF next, bad, none
  <2> QED BY <1>4, <2>1, <2>2, <2>3
<1> QED BY <1>5, <1>6

\* A chunk is announced.
LEMMA EmitChunkInv == ASSUME HeardInv, NEW r \in Requests, EmitChunk(r) PROVE HeardInv'
<1>1. /\ srv[r] \in ServerStreams /\ srv \in [Requests -> ServerStreams]
      /\ srv[r].emitted \in 0..Chunks /\ Chunks \in Nat /\ HandleShape(r)
  BY HandleTyped
<1>2. /\ UNCHANGED <<mode, queue, hnd, gen, pl, sink, reported>>
      /\ failures' = failures \/ Fault
      /\ srv[r].pc = "emit"
  BY DEF EmitChunk
<1>3. pending' \subseteq Requests
  BY DEF EmitChunk, HeardInv, SpeechOK
<1>4. ASSUME NEW v \in ServerStreams, srv' = [srv EXCEPT ![r] = v],
             v.pc = "emit" => v.emitted < Chunks, v.pc = "done" => v.emitted = Chunks
      PROVE  HeardInv'
  BY <1>2, <1>3, <1>4, ServerKeeps
<1>5. CASE srv[r].cancel
  <2>1. StreamEnds(r)
    BY <1>5 DEF EmitChunk
  <2> QED BY <1>4, <1>5, <2>1, StreamEndsTo
<1>6. CASE ~srv[r].cancel
  <2> DEFINE next == [srv[r] EXCEPT !.pc = "check", !.emitted = srv[r].emitted + 1]
             lost == [srv[r] EXCEPT !.pc = "lost", !.files = FALSE]
  <2>1. srv[r].emitted + 1 \in 0..Chunks
    BY <1>1, <1>2 DEF HandleShape
  <2>2. /\ next \in ServerStreams /\ lost \in ServerStreams
        /\ next.pc = "check" /\ lost.pc = "lost"
    BY <1>1, <2>1 DEF ServerStreams, Streams
  <2>3. srv' = [srv EXCEPT ![r] = next] \/ srv' = [srv EXCEPT ![r] = lost]
    BY <1>1, <1>6 DEF EmitChunk, Breaks
  <2> HIDE DEF next, lost
  <2> QED BY <1>4, <2>2, <2>3
<1> QED BY <1>5, <1>6

\* A pending cancellation is forgotten.
LEMMA ForgetCancellationInv == ASSUME HeardInv, ForgetCancellation PROVE HeardInv'
<1>1. /\ UNCHANGED <<mode, queue, hnd, srv, gen, pl, sink, reported>> /\ Fault
      /\ pending' \subseteq Requests
  BY DEF ForgetCancellation, HeardInv, SpeechOK
<1>2. failures' \in 0..MaxFailures
  BY <1>1, SpeechConstants DEF HeardInv, SpeechOK, Fault
<1> QED BY <1>1, <1>2, MovesNot, MovesKeep

(***************************************************************************)
(* The player.                                                             *)
(***************************************************************************)

\* The types of what the player looks at.
LEMMA PlayerTyped ==
    ASSUME HeardInv
    PROVE  /\ queue \in Seq(Requests) /\ Len(queue) \in 0..N /\ N \in Nat /\ Chunks \in Nat \ {0}
           /\ pl \in Players /\ pl.pc \in PlayerPcs /\ pl.cur \in 0..N /\ pl.join \in 0..N
           /\ pl.have \in 0..Chunks /\ pl.played \in Seq(Results)
           /\ pl.cut \in BOOLEAN /\ pl.deferred \in BOOLEAN /\ pl.failed \in BOOLEAN
           /\ sink \in Sinks /\ sink.pc \in {"none", "open", "ended"}
           /\ sink.buf \in Seq(Requests) /\ sink.heard \in [Requests -> 0..Chunks]
           /\ gen \in Generators /\ gen.next \in 1..(N + 1)
           /\ QueueShape /\ SinkShape /\ TurnShape
           /\ \A r \in Requests : /\ r \in Nat /\ HandleShape(r) /\ WriteShape(r) /\ ResultShape(r)
                                  /\ hnd[r].noted \in 0..Chunks /\ sink.heard[r] \in Nat
                                  /\ Occurs(sink.buf, r) \in Nat /\ Written(r) \in Nat
<1>1. /\ queue \in Seq(Requests) /\ Len(queue) \in 0..N /\ N \in Nat /\ Chunks \in Nat \ {0}
      /\ pl \in Players /\ sink \in Sinks /\ gen \in Generators
      /\ QueueShape /\ SinkShape /\ TurnShape
  BY SpeechConstants DEF HeardInv, SpeechInv, SpeechOK
<1>2. /\ pl.pc \in PlayerPcs /\ pl.cur \in 0..N /\ pl.join \in 0..N
      /\ pl.have \in 0..Chunks /\ pl.played \in Seq(Results)
      /\ pl.cut \in BOOLEAN /\ pl.deferred \in BOOLEAN /\ pl.failed \in BOOLEAN
  BY <1>1 DEF Players
<1>3. /\ sink.pc \in {"none", "open", "ended"}
      /\ sink.buf \in Seq(Requests) /\ sink.heard \in [Requests -> 0..Chunks]
  BY <1>1 DEF Sinks
<1>4. gen.next \in 1..(N + 1)
  BY <1>1 DEF Generators
<1>5. ASSUME NEW r \in Requests
      PROVE  /\ r \in Nat /\ HandleShape(r) /\ WriteShape(r) /\ ResultShape(r)
             /\ hnd[r].noted \in 0..Chunks /\ sink.heard[r] \in Nat
             /\ Occurs(sink.buf, r) \in Nat /\ Written(r) \in Nat
  <2>1. /\ r \in Nat /\ HandleShape(r) /\ WriteShape(r) /\ ResultShape(r)
        /\ hnd[r].noted \in 0..Chunks /\ sink.heard[r] \in Nat
    <3>1. r \in Nat
      BY DEF Requests
    <3>2. WriteShape(r) /\ ResultShape(r)
      BY DEF HeardInv, SpeechInv
    <3>3. HandleShape(r) /\ hnd[r].noted \in 0..Chunks
      BY HandleTyped
    <3>4. sink.heard[r] \in Nat
      BY <1>1, <1>3
    <3> QED BY <3>1, <3>2, <3>3, <3>4
  <2>2. Occurs(sink.buf, r) \in Nat
    BY <1>3, OccursNat
  <2> QED BY <2>1, <2>2 DEF Written
<1> QED BY <1>1, <1>2, <1>3, <1>4, <1>5

\* drain begins.
LEMMA StartDrainInv == ASSUME HeardInv, StartDrain PROVE HeardInv'
<1>1. /\ UNCHANGED <<mode, queue, srv, pending, gen, sink, reported, failures>>
      /\ pl.pc = "off" /\ pl' = [pl EXCEPT !.pc = "head"]
      /\ hnd' = hnd \/ hnd' = StartPrefetch(Window)
  BY DEF StartDrain, PlayerAt
<1>2. /\ hnd' \in [Requests -> Handles] /\ srv' \in [Requests -> ServerStreams]
      /\ \A r \in Requests : Keeps(r)
  BY <1>1, MovesNot, PrefetchMoves
<1>3. /\ pl' \in Players /\ pl'.pc = "head" /\ pl'.cur = pl.cur /\ pl'.join = pl.join
      /\ pl'.have = pl.have /\ pl'.cut = pl.cut /\ pl'.deferred = pl.deferred
      /\ pl'.failed = pl.failed /\ pl'.error = pl.error /\ pl'.stopped = pl.stopped
      /\ pl'.finished = pl.finished /\ pl'.jammed = pl.jammed /\ pl'.played = pl.played
  BY <1>1, PlayerTyped DEF Players, PlayerPcs
<1>4. SpeechOK'
  BY <1>1, <1>2, <1>3 DEF HeardInv, SpeechOK
<1>5. QueueShape' /\ SinkShape' /\ TurnShape'
  BY <1>1, <1>3, PlayerTyped DEF QueueShape, SinkShape, TurnShape, Busy, PlayerAt, Draining
<1>6. ASSUME NEW r \in Requests
      PROVE  HandleShape(r)' /\ WriteShape(r)' /\ ResultShape(r)'
  <2>1. HandleShape(r) /\ WriteShape(r) /\ ResultShape(r) /\ Keeps(r) /\ SinkShape /\ TurnShape
    BY <1>2, PlayerTyped
  <2>2. /\ Written(r)' = Written(r) /\ (Queued(r)' <=> Queued(r))
        /\ (Recorded(r)' <=> Recorded(r)) /\ ~InFull(r)'
    BY <1>1, <1>3, <2>1 DEF Written, Queued, Recorded, InFull, SinkShape, PlayerAt
  <2>3. HandleShape(r)'
    BY <1>1, <1>3, <2>1, <2>2 DEF HandleShape, Keeps, Moves, PlayerAt, Ended, NoHandle, InPlay, Busy, Going
  <2>4. WriteShape(r)'
    BY <1>1, <1>3, <2>1, <2>2 DEF WriteShape, TurnShape, InPlay, Busy, Going, PlayerAt
  <2>5. ResultShape(r)'
    BY <1>1, <1>3, <2>1, <2>2 DEF ResultShape, Keeps, Moves, PlayerAt, Going
  <2> QED BY <2>3, <2>4, <2>5
<1> QED BY <1>4, <1>5, <1>6 DEF HeardInv, SpeechInv

\* The player thread of a streamed response.
LEMMA PlayerWaitsInv == ASSUME HeardInv, PlayerWaits PROVE HeardInv'
<1>1. /\ UNCHANGED <<mode, queue, hnd, srv, pending, gen, reported, failures>>
      /\ pl.pc = "wait" /\ sink' = [sink EXCEPT !.pc = "none"]
      /\ \/ queue # <<>> /\ pl' = [pl EXCEPT !.pc = "head", !.played = <<>>]
         \/ queue = <<>> /\ pl.finished /\ pl' = [pl EXCEPT !.pc = "done"]
  BY DEF PlayerWaits, PlayerAt
<1>2. /\ hnd' \in [Requests -> Handles] /\ srv' \in [Requests -> ServerStreams]
      /\ \A r \in Requests : Keeps(r)
  BY <1>1, MovesNot
<1>3. /\ pl' \in Players /\ pl'.cur = pl.cur /\ pl'.join = pl.join
      /\ pl'.have = pl.have /\ pl'.cut = pl.cut /\ pl'.deferred = pl.deferred
      /\ pl'.failed = pl.failed /\ pl'.error = pl.error /\ pl'.stopped = pl.stopped
      /\ pl'.finished = pl.finished /\ pl'.jammed = pl.jammed
      /\ \/ queue # <<>> /\ pl'.pc = "head" /\ pl'.played = <<>>
         \/ queue = <<>> /\ pl.finished /\ pl'.pc = "done" /\ pl'.played = pl.played
  <2>1. CASE queue # <<>> /\ pl' = [pl EXCEPT !.pc = "head", !.played = <<>>]
    <3>1. <<>> \in Seq(Results)
      OBVIOUS
    <3> QED BY <2>1, <3>1, PlayerTyped DEF Players, PlayerPcs
  <2>2. CASE queue = <<>> /\ pl.finished /\ pl' = [pl EXCEPT !.pc = "done"]
    BY <2>2, PlayerTyped DEF Players, PlayerPcs
  <2> QED BY <1>1, <2>1, <2>2
<1>4. /\ sink' \in Sinks /\ sink'.pc = "none" /\ sink'.buf = sink.buf /\ sink'.heard = sink.heard
      /\ sink.buf = <<>> /\ mode = "stream"
  BY <1>1, PlayerTyped DEF Sinks, SinkShape, TurnShape, PlayerAt, Draining
<1>5. SpeechOK'
  BY <1>1, <1>2, <1>3, <1>4 DEF HeardInv, SpeechOK
<1>6. pl'.pc = "head" => gen.next # 1
  <2>1. queue # <<>> => Len(queue) \in DOMAIN queue /\ queue[Len(queue)] \in Nat \ {0}
    BY PlayerTyped DEF Requests
  <2> QED BY <1>3, <1>4, <2>1, PlayerTyped DEF QueueShape
<1>7. QueueShape' /\ SinkShape' /\ TurnShape'
  BY <1>1, <1>3, <1>4, <1>6, PlayerTyped DEF QueueShape, SinkShape, TurnShape, Busy, PlayerAt, Draining
<1>8. ASSUME NEW r \in Requests
      PROVE  HandleShape(r)' /\ WriteShape(r)' /\ ResultShape(r)'
  <2>1. HandleShape(r) /\ WriteShape(r) /\ ResultShape(r) /\ Keeps(r) /\ SinkShape /\ TurnShape
    BY <1>2, PlayerTyped
  <2>2. /\ Written(r)' = Written(r) /\ (Queued(r)' <=> Queued(r))
        /\ (pl'.pc = "head" => ~InFull(r)')
    BY <1>1, <1>3, <1>4 DEF Written, Queued, InFull
  <2>3. HandleShape(r)'
    BY <1>1, <1>3, <2>1, <2>2 DEF HandleShape, Keeps, Moves, PlayerAt, Ended, NoHandle, InPlay, Busy, Going
  <2>4. WriteShape(r)'
    BY <1>1, <1>3, <2>1, <2>2 DEF WriteShape, TurnShape, InPlay, Busy, Going, PlayerAt
  <2>5. ResultShape(r)'
    BY <1>1, <1>3, <1>4, <2>1, <2>2 DEF ResultShape, Keeps, Moves, PlayerAt, Going, Draining
  <2> QED BY <2>3, <2>4, <2>5
<1> QED BY <1>5, <1>7, <1>8 DEF HeardInv, SpeechInv

\* The request being played is the head of the queue and has a handle.
LEMMA PlayingQueued ==
    ASSUME HeardInv, Busy
    PROVE  pl.cur \in Requests /\ Queued(pl.cur) /\ hnd[pl.cur].th # "none" /\ InPlay(pl.cur)
<1>1. pl.cur \in Requests /\ Queued(pl.cur) /\ InPlay(pl.cur)
  BY PlayerTyped DEF QueueShape, Queued, InPlay
<1>2. HandleShape(pl.cur)
  BY <1>1, PlayerTyped
<1> QED BY <1>1, <1>2 DEF HandleShape

\* drain looks at the head of the queue.
LEMMA TakeHeadInv == ASSUME HeardInv, TakeHead PROVE HeardInv'
<1> DEFINE h == StartPrefetch(PrefetchLimit)
<1>1. /\ UNCHANGED <<mode, queue, srv, pending, gen, sink, reported, failures>>
      /\ pl.pc = "head"
      /\ \/ queue = <<>> /\ pl' = [pl EXCEPT !.pc = "close"] /\ hnd' = hnd
         \/ /\ queue # <<>>
            /\ pl' = [pl EXCEPT !.pc = "progress", !.cur = Head(queue), !.have = 0]
            /\ hnd' = IF h[Head(queue)].th # "none" THEN h
                      ELSE [h EXCEPT ![Head(queue)].th = "start"]
  BY DEF TakeHead, PlayerAt
<1>2. queue # <<>> => Head(queue) \in Requests /\ Head(queue) = queue[1] /\ Queued(Head(queue))
  BY SMTT(20), PlayerTyped DEF Queued
<1>3. /\ hnd' \in [Requests -> Handles] /\ srv' \in [Requests -> ServerStreams]
      /\ \A r \in Requests : Keeps(r)
      /\ queue # <<>> => hnd'[Head(queue)].th # "none"
  <2>1. CASE hnd' = hnd /\ queue = <<>>
    BY <1>1, <2>1, MovesNot
  <2>2. CASE hnd' = h /\ h[Head(queue)].th # "none"
    BY <1>1, <2>2, PrefetchMoves
  <2>3. CASE queue # <<>> /\ h[Head(queue)].th = "none" /\ hnd' = [h EXCEPT ![Head(queue)].th = "start"]
    <3>1. /\ h \in [Requests -> Handles] /\ Started \in Handles /\ Started.th = "start"
          /\ \A r \in Requests : \/ h[r] = hnd[r]
                                 \/ hnd[r].th = "none" /\ Queued(r) /\ h[r] = Started
      BY PrefetchStarts
    <3>2. HandleShape(Head(queue)) /\ h[Head(queue)] = hnd[Head(queue)]
      BY <1>2, <2>3, <3>1, PlayerTyped
    <3>3. h[Head(queue)] = NoHandle
      BY <2>3, <3>2 DEF HandleShape
    <3>4. hnd' = [h EXCEPT ![Head(queue)] = Started]
      BY <2>3, <3>3 DEF Started
    <3> HIDE DEF h
    <3>5. hnd' \in [Requests -> Handles] /\ hnd'[Head(queue)] = Started
      BY <1>2, <2>3, <3>1, <3>4
    <3>6. \A r \in Requests : \/ hnd'[r] = hnd[r]
                              \/ hnd[r].th = "none" /\ Queued(r) /\ hnd'[r] = Started
      BY <1>2, <2>3, <3>1, <3>2, <3>4
    <3> QED BY <1>1, <3>1, <3>5, <3>6, StartsKeep
  <2> QED BY <1>1, <2>1, <2>2, <2>3
<1>4. /\ pl' \in Players /\ pl'.join = pl.join
      /\ pl'.cut = pl.cut /\ pl'.deferred = pl.deferred
      /\ pl'.failed = pl.failed /\ pl'.error = pl.error /\ pl'.stopped = pl.stopped
      /\ pl'.finished = pl.finished /\ pl'.jammed = pl.jammed /\ pl'.played = pl.played
      /\ \/ queue = <<>> /\ pl'.pc = "close"
         \/ queue # <<>> /\ pl'.pc = "progress" /\ pl'.cur = Head(queue) /\ pl'.have = 0
  <2>1. CASE queue = <<>> /\ pl' = [pl EXCEPT !.pc = "close"]
    BY <2>1, PlayerTyped DEF Players, PlayerPcs
  <2>2. CASE queue # <<>> /\ pl' = [pl EXCEPT !.pc = "progress", !.cur = Head(queue), !.have = 0]
    <3>1. Head(queue) \in 0..N /\ 0 \in 0..Chunks
      BY <1>2, <2>2, PlayerTyped DEF Requests
    <3> QED BY <2>2, <3>1, PlayerTyped DEF Players, PlayerPcs
  <2> QED BY <1>1, <2>1, <2>2
<1>5. SpeechOK'
  BY <1>1, <1>3, <1>4 DEF HeardInv, SpeechOK
<1>6. QueueShape' /\ SinkShape' /\ TurnShape'
  BY <1>1, <1>2, <1>4, PlayerTyped DEF QueueShape, SinkShape, TurnShape, Busy, PlayerAt, Draining
<1>7. ASSUME NEW r \in Requests
      PROVE  HandleShape(r)' /\ WriteShape(r)' /\ ResultShape(r)'
  <2>1. /\ HandleShape(r) /\ WriteShape(r) /\ ResultShape(r) /\ Keeps(r) /\ SinkShape /\ TurnShape
        /\ mode = "stream" /\ Queued(r) => ~(gen.next <= r)
    <3>1. gen.next \in Nat /\ r \in Nat
      BY PlayerTyped
    <3> QED BY <1>3, <3>1, PlayerTyped, QueuedBefore
  <2>2. /\ Written(r)' = Written(r) /\ Written(r) \in Nat /\ (Queued(r)' <=> Queued(r))
        /\ (Recorded(r)' <=> Recorded(r)) /\ (InFull(r)' <=> InFull(r))
    BY <1>1, <1>4, PlayerTyped DEF Written, Queued, Recorded, InFull
  <2>3. HandleShape(r)'
    BY <1>1, <1>2, <1>3, <1>4, <2>1, <2>2
       DEF HandleShape, Keeps, Moves, PlayerAt, Ended, NoHandle, InPlay, Busy, Going
  <2>4. WriteShape(r)'
    BY <1>1, <1>2, <1>4, <2>1, <2>2 DEF WriteShape, Keeps, Moves, InPlay, Busy, Going, PlayerAt
  <2>5. ResultShape(r)'
    BY <1>1, <1>4, <2>1, <2>2 DEF ResultShape, Keeps, Moves, PlayerAt, Going, Busy, Draining
  <2> QED BY <2>3, <2>4, <2>5
<1> QED BY <1>5, <1>6, <1>7 DEF HeardInv, SpeechInv

\* wait_progress returns.
LEMMA ProgressInv == ASSUME HeardInv, Progress PROVE HeardInv'
<1>1. /\ UNCHANGED <<mode, queue, srv, pending, gen, reported, failures>>
      /\ pl.pc = "progress" /\ hnd' = StartPrefetch(PrefetchLimit)
      /\ \/ /\ hnd[pl.cur].th = "failed"
            /\ pl' = [pl EXCEPT !.pc = "discard", !.deferred = TRUE]
         \/ hnd[pl.cur].noted > pl.have /\ pl' = [pl EXCEPT !.pc = "write"]
         \/ /\ hnd[pl.cur].th = "complete" /\ hnd[pl.cur].noted = pl.have
            /\ pl' = [pl EXCEPT !.pc = "discard"]
      /\ sink' = [sink EXCEPT !.pc = IF pl'.pc = "write" /\ sink.pc = "none" THEN "open" ELSE sink.pc]
  BY DEF Progress, PlayerAt
<1>2. /\ hnd' \in [Requests -> Handles] /\ srv' \in [Requests -> ServerStreams]
      /\ \A r \in Requests : Keeps(r)
  BY <1>1, PrefetchMoves
<1>3. pl.cur \in Requests /\ Queued(pl.cur) /\ InPlay(pl.cur)
  BY <1>1, PlayingQueued DEF Busy
<1>4. /\ pl' \in Players /\ pl'.cur = pl.cur /\ pl'.join = pl.join
      /\ pl'.have = pl.have /\ pl'.cut = pl.cut
      /\ pl'.failed = pl.failed /\ pl'.error = pl.error /\ pl'.stopped = pl.stopped
      /\ pl'.finished = pl.finished /\ pl'.jammed = pl.jammed /\ pl'.played = pl.played
      /\ \/ pl'.pc = "discard" /\ pl'.deferred
         \/ /\ pl'.pc = "write" /\ pl'.deferred = pl.deferred
            /\ hnd[pl.cur].noted > pl.have
         \/ /\ pl'.pc = "discard" /\ pl'.deferred = pl.deferred
            /\ hnd[pl.cur].th = "complete" /\ hnd[pl.cur].noted = pl.have
  BY <1>1, PlayerTyped DEF Players, PlayerPcs
<1>5. /\ sink' \in Sinks /\ sink'.buf = sink.buf /\ sink'.heard = sink.heard
      /\ sink'.pc = IF pl'.pc = "write" /\ sink.pc = "none" THEN "open" ELSE sink.pc
  BY <1>1, PlayerTyped DEF Sinks
<1>6. SpeechOK'
  BY <1>1, <1>2, <1>4, <1>5 DEF HeardInv, SpeechOK
<1>7. QueueShape' /\ SinkShape' /\ TurnShape'
  <2>1. QueueShape'
    BY <1>1, <1>4, PlayerTyped DEF QueueShape, Busy
  <2>2. SinkShape'
    BY <1>1, <1>4, <1>5, PlayerTyped DEF SinkShape, PlayerAt, Draining
  <2>3. TurnShape'
    BY <1>1, <1>4, <1>5, PlayerTyped DEF TurnShape, PlayerAt
  <2> QED BY <2>1, <2>2, <2>3
<1>8. ASSUME NEW r \in Requests
      PROVE  HandleShape(r)' /\ WriteShape(r)' /\ ResultShape(r)'
  <2>1. /\ HandleShape(r) /\ WriteShape(r) /\ ResultShape(r) /\ Keeps(r) /\ SinkShape /\ TurnShape
        /\ mode = "stream" /\ Queued(r) => ~(gen.next <= r)
    <3>1. gen.next \in Nat /\ r \in Nat
      BY PlayerTyped
    <3> QED BY <1>2, <3>1, PlayerTyped, QueuedBefore
  <2>2. /\ Written(r)' = Written(r) /\ Written(r) \in Nat /\ (Queued(r)' <=> Queued(r))
        /\ (Recorded(r)' <=> Recorded(r)) /\ (InFull(r)' <=> InFull(r))
        /\ (InPlay(r)' <=> InPlay(r))
    BY <1>1, <1>4, <1>5, PlayerTyped DEF Written, Queued, Recorded, InFull, InPlay, Busy
  <2>3. HandleShape(r)'
    BY <1>1, <1>4, <2>1, <2>2
       DEF HandleShape, Keeps, Moves, PlayerAt, Ended, NoHandle, Going, Busy
  <2>4. hnd[r].noted \in Nat /\ hnd'[r].noted \in Nat /\ pl.have \in Nat
    BY SMTT(20), <1>2, PlayerTyped DEF Handles
  <2>5. WriteShape(r)'
    BY <1>1, <1>4, <2>1, <2>2, <2>4
       DEF WriteShape, HandleShape, Keeps, Moves, InPlay, Busy, Going, PlayerAt
  <2>6. ResultShape(r)'
    BY <1>1, <1>4, <1>5, <2>1, <2>2 DEF ResultShape, Keeps, Moves, PlayerAt, Going, Busy, Draining
  <2> QED BY <2>3, <2>5, <2>6
<1> QED BY <1>6, <1>7, <1>8 DEF HeardInv, SpeechInv

\* A cancellation touches the request's stream and the pending cancellations only.
LEMMA CancelsTo ==
    ASSUME HeardInv, NEW r \in Requests, Cancels(r)
    PROVE  /\ pending' \subseteq Requests
           /\ \E v \in ServerStreams : /\ srv' = [srv EXCEPT ![r] = v] /\ v.pc = srv[r].pc
                                       /\ v.emitted = srv[r].emitted /\ v.files = srv[r].files
<1> DEFINE v == [srv[r] EXCEPT !.cancel = TRUE]
<1>1. srv[r] \in ServerStreams /\ srv \in [Requests -> ServerStreams]
  BY HandleTyped
<1>2. /\ v \in ServerStreams /\ v.pc = srv[r].pc
      /\ v.emitted = srv[r].emitted /\ v.files = srv[r].files
  BY <1>1 DEF ServerStreams
<1>3. srv' = [srv EXCEPT ![r] = v] \/ srv' = [srv EXCEPT ![r] = srv[r]]
  BY <1>1 DEF Cancels, CancelStream
<1>4. pending' \subseteq Requests
  BY DEF Cancels, CancelStream, HeardInv, SpeechOK
<1> HIDE DEF v
<1> QED BY <1>1, <1>2, <1>3, <1>4

\* pw-play is stopped: what it still held is lost.
LEMMA StopLoses ==
    ASSUME HeardInv, sink' = Stop(sink) \/ sink' = Terminated
    PROVE  /\ sink' \in Sinks /\ sink'.buf = <<>> /\ sink'.heard = sink.heard
           /\ sink'.pc # "open"
           /\ sink'.pc = "none" => sink.pc = "none"
           /\ \A r \in Requests : /\ Written(r)' = sink.heard[r] /\ Written(r)' \in Nat
                                  /\ Written(r)' <= Written(r)
                                  /\ sink.buf = <<>> => Written(r)' = Written(r)
<1>1. /\ sink' \in Sinks /\ sink'.buf = <<>> /\ sink'.heard = sink.heard
      /\ sink'.pc # "open" /\ (sink'.pc = "none" => sink.pc = "none")
  <2>1. CASE sink' = Terminated
    <3>1. <<>> \in Seq(Requests)
      OBVIOUS
    <3> QED BY <2>1, <3>1, PlayerTyped DEF Terminated, Sinks
  <2>2. CASE sink.pc # "open" /\ sink' = sink
    BY <2>2, PlayerTyped DEF SinkShape
  <2> QED BY <2>1, <2>2 DEF Stop
<1>2. ASSUME NEW r \in Requests
      PROVE  /\ Written(r)' = sink.heard[r] /\ Written(r)' \in Nat
             /\ Written(r)' <= Written(r) /\ (sink.buf = <<>> => Written(r)' = Written(r))
  <2>1. Occurs(sink'.buf, r) = 0
    BY <1>1, OccursEmpty
  <2>2. sink.buf = <<>> => Occurs(sink.buf, r) = 0
    BY OccursEmpty
  <2>3. sink.heard[r] \in Nat /\ Occurs(sink.buf, r) \in Nat
    BY PlayerTyped
  <2>4. Written(r)' = sink'.heard[r] + Occurs(sink'.buf, r)
    BY DEF Written, Occurs
  <2> QED BY <1>1, <2>1, <2>2, <2>3, <2>4 DEF Written
<1> QED BY <1>1, <1>2

\* An item ends early: cut by the user, who stops pw-play, or deferred by an error.
LEMMA EarlyEnd ==
    ASSUME HeardInv, pl.pc \in {"progress", "write"},
           UNCHANGED <<mode, queue, gen, reported>>,
           hnd' \in [Requests -> Handles], srv' \in [Requests -> ServerStreams],
           \A r \in Requests : Keeps(r),
           pending' \subseteq Requests, failures' \in 0..MaxFailures,
           pl' \in Players, pl'.pc = "discard", pl'.cur = pl.cur, pl'.join = pl.join,
           pl'.have = pl.have, pl'.error = pl.error, pl'.stopped = pl.stopped,
           pl'.finished = pl.finished, pl'.jammed = pl.jammed, pl'.played = pl.played,
           pl'.failed => pl'.deferred,
           \/ pl'.cut /\ sink' = Stop(sink)
           \/ pl'.deferred /\ pl'.cut = pl.cut /\ sink' = sink
    PROVE  HeardInv'
<1>1. /\ sink' \in Sinks /\ sink'.heard = sink.heard
      /\ sink'.pc = "open" => sink.pc = "open"
      /\ sink'.buf # <<>> => sink'.pc = "open"
      /\ ~pl'.cut => sink' = sink /\ ~pl.cut
      /\ \A r \in Requests : /\ Written(r)' \in Nat /\ Written(r)' <= Written(r)
                             /\ ~pl'.cut => Written(r)' = Written(r)
  <2>1. CASE pl'.cut /\ sink' = Stop(sink)
    BY <2>1, StopLoses
  <2>2. CASE pl'.cut = pl.cut /\ sink' = sink
    <3>1. \A r \in Requests : Written(r)' = Written(r)
      BY <2>2 DEF Written
    <3> QED BY <2>2, <3>1, PlayerTyped DEF SinkShape
  <2> QED BY <2>1, <2>2
<1>2. SpeechOK'
  BY <1>1 DEF HeardInv, SpeechOK
<1>3. pl.cur \in Requests /\ Queued(pl.cur) /\ InPlay(pl.cur)
  BY PlayingQueued DEF Busy
<1>4. mode = "stream" => gen.next # 1
  BY PlayerTyped DEF TurnShape
<1>5. QueueShape' /\ SinkShape' /\ TurnShape'
  <2>1. QueueShape'
    BY PlayerTyped DEF QueueShape, Busy
  <2>2. SinkShape'
    BY <1>1, PlayerTyped DEF SinkShape, PlayerAt, Draining
  <2>3. TurnShape'
    BY <1>4, PlayerTyped DEF TurnShape, PlayerAt
  <2> QED BY <2>1, <2>2, <2>3
<1>6. ASSUME NEW r \in Requests
      PROVE  HandleShape(r)' /\ WriteShape(r)' /\ ResultShape(r)'
  <2>1. /\ HandleShape(r) /\ WriteShape(r) /\ ResultShape(r) /\ Keeps(r) /\ SinkShape
        /\ mode = "stream" /\ Queued(r) => ~(gen.next <= r)
    <3>1. gen.next \in Nat /\ r \in Nat
      BY PlayerTyped
    <3> QED BY <3>1, PlayerTyped, QueuedBefore
  <2>2. /\ Written(r) \in Nat /\ (Queued(r)' <=> Queued(r))
        /\ (Recorded(r)' <=> Recorded(r)) /\ (InFull(r)' <=> InFull(r))
        /\ (InPlay(r)' <=> InPlay(r)) /\ Going /\ Going' /\ Draining
    BY PlayerTyped DEF Queued, Recorded, InFull, InPlay, Busy, Going, Draining
  <2>3. HandleShape(r)'
    BY <2>1, <2>2 DEF HandleShape, Keeps, Moves, PlayerAt, Ended, NoHandle
  <2>4. pl.have \in Nat /\ Chunks \in Nat
    BY SMTT(20), PlayerTyped
  <2>5. WriteShape(r)'
    BY <1>1, <2>1, <2>2, <2>4 DEF WriteShape, Keeps, Moves, PlayerAt
  <2>6. ~pl.deferred
    BY <2>1 DEF SinkShape
  <2>7. ResultShape(r)'
    BY <1>1, <2>1, <2>2, <2>6 DEF ResultShape, Keeps, Moves, PlayerAt
  <2> QED BY <2>3, <2>5, <2>7
<1> QED BY <1>2, <1>5, <1>6 DEF HeardInv, SpeechInv

\* The user barges in while the player waits for a chunk.
LEMMA InterruptWaitInv == ASSUME HeardInv, InterruptWait PROVE HeardInv'
<1> DEFINE r == pl.cur
           h == [hnd[r] EXCEPT !.cancelled = TRUE]
<1>1. /\ UNCHANGED <<mode, queue, gen, reported, failures>>
      /\ pl.pc = "progress" /\ Cancels(r)
      /\ hnd' = [hnd EXCEPT ![r].cancelled = TRUE]
      /\ pl' = [pl EXCEPT !.pc = "discard", !.cut = TRUE] /\ sink' = Stop(sink)
  BY DEF InterruptWait, PlayerAt
<1>2. r \in Requests /\ hnd[r].th # "none"
  BY <1>1, PlayingQueued DEF Busy
<1> HIDE DEF r
<1>3. HandleShape(r) /\ hnd[r] \in Handles /\ hnd[r].noted \in 0..Chunks /\ Chunks \in Nat
  BY <1>2, HandleTyped
<1>4. PICK v \in ServerStreams : /\ srv' = [srv EXCEPT ![r] = v] /\ v.pc = srv[r].pc
                                 /\ v.emitted = srv[r].emitted /\ v.files = srv[r].files
  BY <1>1, <1>2, CancelsTo
<1>5. /\ h \in Handles /\ h.th = hnd[r].th /\ h.noted = hnd[r].noted
      /\ h.discarded = hnd[r].discarded
  BY <1>3 DEF Handles
<1>6. hnd' = [hnd EXCEPT ![r] = h]
  BY <1>1
<1> HIDE DEF h
<1>7. /\ h.th = "complete" => v.pc = "done" /\ h.noted = Chunks
      /\ v.pc = "emit" => v.emitted < Chunks
      /\ v.pc = "done" => v.emitted = Chunks
      /\ hnd[r].noted <= h.noted
  BY <1>3, <1>4, <1>5 DEF HandleShape
<1>8. /\ hnd' \in [Requests -> Handles] /\ srv' \in [Requests -> ServerStreams]
      /\ \A q \in Requests : Keeps(q)
  BY <1>2, <1>4, <1>5, <1>6, <1>7, OneMoves
<1>9. pending' \subseteq Requests /\ failures' \in 0..MaxFailures
  BY <1>1, <1>2, CancelsTo DEF HeardInv, SpeechOK
<1>10. /\ pl' \in Players /\ pl'.pc = "discard" /\ pl'.cur = pl.cur /\ pl'.join = pl.join
       /\ pl'.have = pl.have /\ pl'.error = pl.error /\ pl'.stopped = pl.stopped
       /\ pl'.finished = pl.finished /\ pl'.jammed = pl.jammed /\ pl'.played = pl.played
       /\ pl'.cut /\ pl'.failed = pl.failed /\ pl'.deferred = pl.deferred
  BY <1>1, PlayerTyped DEF Players, PlayerPcs
<1>11. pl'.failed => pl'.deferred
  BY <1>10, PlayerTyped DEF SinkShape
<1> QED BY <1>1, <1>8, <1>9, <1>10, <1>11, EarlyEnd

\* wait_progress gives up.
LEMMA ProgressTimesOutInv == ASSUME HeardInv, ProgressTimesOut PROVE HeardInv'
<1>1. /\ UNCHANGED <<mode, queue, hnd, srv, pending, gen, sink, reported>> /\ Fault
      /\ pl.pc = "progress" /\ pl' = [pl EXCEPT !.pc = "discard", !.deferred = TRUE]
  BY DEF ProgressTimesOut, PlayerAt
<1>2. /\ hnd' \in [Requests -> Handles] /\ srv' \in [Requests -> ServerStreams]
      /\ \A q \in Requests : Keeps(q)
  BY <1>1, MovesNot
<1>3. pending' \subseteq Requests /\ failures' \in 0..MaxFailures
  BY <1>1, SpeechConstants DEF HeardInv, SpeechOK, Fault
<1>4. /\ pl' \in Players /\ pl'.pc = "discard" /\ pl'.cur = pl.cur /\ pl'.join = pl.join
      /\ pl'.have = pl.have /\ pl'.error = pl.error /\ pl'.stopped = pl.stopped
      /\ pl'.finished = pl.finished /\ pl'.jammed = pl.jammed /\ pl'.played = pl.played
      /\ pl'.deferred /\ pl'.cut = pl.cut
  BY <1>1, PlayerTyped DEF Players, PlayerPcs
<1> QED BY <1>1, <1>2, <1>3, <1>4, EarlyEnd

\* The user barges in while a chunk is written.
LEMMA InterruptWriteInv == ASSUME HeardInv, InterruptWrite PROVE HeardInv'
<1>1. /\ UNCHANGED <<mode, queue, hnd, srv, pending, gen, reported, failures>>
      /\ pl.pc = "write" /\ pl' = [pl EXCEPT !.pc = "discard", !.cut = TRUE]
      /\ sink' = Stop(sink)
  BY DEF InterruptWrite, PlayerAt
<1>2. /\ hnd' \in [Requests -> Handles] /\ srv' \in [Requests -> ServerStreams]
      /\ \A q \in Requests : Keeps(q)
  BY <1>1, MovesNot
<1>3. pending' \subseteq Requests /\ failures' \in 0..MaxFailures
  BY <1>1 DEF HeardInv, SpeechOK
<1>4. /\ pl' \in Players /\ pl'.pc = "discard" /\ pl'.cur = pl.cur /\ pl'.join = pl.join
      /\ pl'.have = pl.have /\ pl'.error = pl.error /\ pl'.stopped = pl.stopped
      /\ pl'.finished = pl.finished /\ pl'.jammed = pl.jammed /\ pl'.played = pl.played
      /\ pl'.cut /\ pl'.failed = pl.failed /\ pl'.deferred = pl.deferred
  BY <1>1, PlayerTyped DEF Players, PlayerPcs
<1>5. pl'.failed => pl'.deferred
  BY <1>4, PlayerTyped DEF SinkShape
<1> QED BY <1>1, <1>2, <1>3, <1>4, <1>5, EarlyEnd

\* pw-play takes nothing any more.
LEMMA WriteFailsInv == ASSUME HeardInv, WriteFails PROVE HeardInv'
<1>1. /\ UNCHANGED <<mode, queue, hnd, srv, pending, gen, sink, reported>> /\ Fault
      /\ pl.pc = "write"
      /\ pl' = [pl EXCEPT !.pc = "discard", !.deferred = TRUE, !.failed = TRUE]
  BY DEF WriteFails, PlayerAt
<1>2. /\ hnd' \in [Requests -> Handles] /\ srv' \in [Requests -> ServerStreams]
      /\ \A q \in Requests : Keeps(q)
  BY <1>1, MovesNot
<1>3. pending' \subseteq Requests /\ failures' \in 0..MaxFailures
  BY <1>1, SpeechConstants DEF HeardInv, SpeechOK, Fault
<1>4. /\ pl' \in Players /\ pl'.pc = "discard" /\ pl'.cur = pl.cur /\ pl'.join = pl.join
      /\ pl'.have = pl.have /\ pl'.error = pl.error /\ pl'.stopped = pl.stopped
      /\ pl'.finished = pl.finished /\ pl'.jammed = pl.jammed /\ pl'.played = pl.played
      /\ pl'.deferred /\ pl'.cut = pl.cut
  BY <1>1, PlayerTyped DEF Players, PlayerPcs
<1> QED BY <1>1, <1>2, <1>3, <1>4, EarlyEnd

\* A chunk is written, unless its file is gone.
LEMMA WriteChunkInv == ASSUME HeardInv, WriteChunk PROVE HeardInv'
<1>1. /\ UNCHANGED <<mode, queue, srv, pending, gen, reported, failures>>
      /\ pl.pc = "write"
  BY DEF WriteChunk, PlayerAt
<1>2. pending' \subseteq Requests /\ failures' \in 0..MaxFailures
  BY <1>1 DEF HeardInv, SpeechOK
<1>3. CASE ~srv[pl.cur].files
  <2>1. hnd' = hnd /\ sink' = sink /\ pl' = [pl EXCEPT !.pc = "discard", !.deferred = TRUE]
    BY <1>3 DEF WriteChunk
  <2>2. /\ hnd' \in [Requests -> Handles] /\ srv' \in [Requests -> ServerStreams]
        /\ \A q \in Requests : Keeps(q)
    BY <1>1, <2>1, MovesNot
  <2>3. /\ pl' \in Players /\ pl'.pc = "discard" /\ pl'.cur = pl.cur /\ pl'.join = pl.join
        /\ pl'.have = pl.have /\ pl'.error = pl.error /\ pl'.stopped = pl.stopped
        /\ pl'.finished = pl.finished /\ pl'.jammed = pl.jammed /\ pl'.played = pl.played
        /\ pl'.deferred /\ pl'.cut = pl.cut
    BY <2>1, PlayerTyped DEF Players, PlayerPcs
  <2> QED BY <1>1, <1>2, <2>1, <2>2, <2>3, EarlyEnd
<1>4. CASE srv[pl.cur].files
  <2>1. /\ sink' = [sink EXCEPT !.buf = Append(sink.buf, pl.cur)]
        /\ pl' = [pl EXCEPT !.pc = "progress", !.have = pl.have + 1]
        /\ hnd' = StartPrefetch(PrefetchLimit)
    BY <1>4 DEF WriteChunk
  <2>2. /\ hnd' \in [Requests -> Handles] /\ srv' \in [Requests -> ServerStreams]
        /\ \A q \in Requests : Keeps(q)
    BY <1>1, <2>1, PrefetchMoves
  <2>3. pl.cur \in Requests /\ Queued(pl.cur) /\ InPlay(pl.cur)
    BY <1>1, PlayingQueued DEF Busy
  <2>4. pl.have < hnd[pl.cur].noted /\ pl.have + 1 \in 0..Chunks
    <3>1. /\ WriteShape(pl.cur) /\ hnd[pl.cur].noted \in 0..Chunks
          /\ pl.have \in 0..Chunks /\ Chunks \in Nat
      BY <2>3, PlayerTyped
    <3>2. pl.have < hnd[pl.cur].noted
      BY <1>1, <2>3, <3>1 DEF WriteShape, PlayerAt
    <3> QED BY <3>1, <3>2
  <2>5. /\ pl' \in Players /\ pl'.pc = "progress" /\ pl'.cur = pl.cur /\ pl'.join = pl.join
        /\ pl'.have = pl.have + 1 /\ pl'.cut = pl.cut /\ pl'.deferred = pl.deferred
        /\ pl'.failed = pl.failed /\ pl'.error = pl.error /\ pl'.stopped = pl.stopped
        /\ pl'.finished = pl.finished /\ pl'.jammed = pl.jammed /\ pl'.played = pl.played
    BY <2>1, <2>4, PlayerTyped DEF Players, PlayerPcs
  <2>6. /\ sink' \in Sinks /\ sink'.pc = sink.pc /\ sink'.heard = sink.heard
        /\ sink'.buf = Append(sink.buf, pl.cur)
    <3>1. Append(sink.buf, pl.cur) \in Seq(Requests)
      BY <2>3, PlayerTyped
    <3> QED BY <2>1, <3>1, PlayerTyped DEF Sinks
  <2>7. SpeechOK'
    BY <1>1, <2>2, <2>5, <2>6 DEF HeardInv, SpeechOK
  <2>8. QueueShape' /\ SinkShape' /\ TurnShape'
    BY <1>1, <2>5, <2>6, PlayerTyped
       DEF QueueShape, SinkShape, TurnShape, Busy, PlayerAt, Draining
  <2>9. ASSUME NEW r \in Requests
        PROVE  HandleShape(r)' /\ WriteShape(r)' /\ ResultShape(r)'
    <3>1. /\ HandleShape(r) /\ WriteShape(r) /\ ResultShape(r) /\ Keeps(r) /\ SinkShape
          /\ mode = "stream" /\ Queued(r) => ~(gen.next <= r)
      <4>1. gen.next \in Nat /\ r \in Nat
        BY PlayerTyped
      <4> QED BY <2>2, <4>1, PlayerTyped, QueuedBefore
    <3>2. /\ Written(r) \in Nat /\ (Queued(r)' <=> Queued(r))
          /\ (Recorded(r)' <=> Recorded(r)) /\ (InFull(r)' <=> InFull(r))
          /\ (InPlay(r)' <=> InPlay(r)) /\ Going /\ Going' /\ Draining
          /\ (InPlay(r) <=> r = pl.cur)
      BY <1>1, <2>3, <2>5, PlayerTyped DEF Queued, Recorded, InFull, InPlay, Busy, Going, Draining
    <3>3. Written(r)' = IF r = pl.cur THEN Written(r) + 1 ELSE Written(r)
      <4>1. Occurs(sink'.buf, r) = IF pl.cur = r THEN Occurs(sink.buf, r) + 1 ELSE Occurs(sink.buf, r)
        <5>1. sink.buf \in Seq(Requests)
          BY PlayerTyped
        <5> QED BY <2>3, <2>6, <5>1, OccursAppend
      <4>2. Written(r)' = sink'.heard[r] + Occurs(sink'.buf, r)
        BY DEF Written, Occurs
      <4>3. sink.heard[r] \in Nat /\ Occurs(sink.buf, r) \in Nat
        BY PlayerTyped
      <4> QED BY <2>6, <4>1, <4>2, <4>3 DEF Written
    <3>4. HandleShape(r)'
      BY <1>1, <2>5, <3>1, <3>2 DEF HandleShape, Keeps, Moves, PlayerAt, Ended, NoHandle
    <3>5. pl.have \in Nat /\ Chunks \in Nat
      BY PlayerTyped
    <3>6. ~pl.cut
      BY <1>1, <3>1 DEF SinkShape
    <3>7. WriteShape(r)'
      BY <1>1, <2>3, <2>4, <2>5, <3>1, <3>2, <3>3, <3>5, <3>6
         DEF WriteShape, Keeps, Moves, PlayerAt
    <3>8. InFull(r) => r # pl.cur
      BY <2>4, <3>1, <3>2, <3>5, <3>6 DEF WriteShape, ResultShape
    <3>9. ResultShape(r)'
      BY <1>1, <2>5, <2>6, <3>1, <3>2, <3>3, <3>8 DEF ResultShape, Keeps, Moves, PlayerAt
    <3> QED BY <3>4, <3>7, <3>9
  <2> QED BY <2>7, <2>8, <2>9 DEF HeardInv, SpeechInv
<1> QED BY <1>3, <1>4

\* The item after the one being played is not the same request.
LEMMA TailQueued ==
    ASSUME HeardInv, Busy
    PROVE  /\ queue # <<>> /\ Head(queue) = pl.cur
           /\ Tail(queue) \in Seq(Requests) /\ Len(Tail(queue)) = Len(queue) - 1
           /\ \A i \in DOMAIN Tail(queue) : i + 1 \in DOMAIN queue /\ Tail(queue)[i] = queue[i + 1]
           /\ \A r \in Requests :
                (\E i \in DOMAIN Tail(queue) : Tail(queue)[i] = r) <=> Queued(r) /\ r # pl.cur
<1>1. /\ queue \in Seq(Requests) /\ Len(queue) \in 0..N /\ queue # <<>>
      /\ queue[1] = pl.cur
      /\ \A i, j \in DOMAIN queue : queue[i] + j = queue[j] + i
  BY PlayerTyped DEF QueueShape
<1>2. /\ Head(queue) = pl.cur /\ Tail(queue) \in Seq(Requests)
      /\ Len(Tail(queue)) = Len(queue) - 1 /\ Len(queue) \in Nat
      /\ DOMAIN queue = 1..Len(queue) /\ DOMAIN Tail(queue) = 1..(Len(queue) - 1)
      /\ \A i \in 1..(Len(queue) - 1) : Tail(queue)[i] = queue[i + 1]
  BY <1>1
<1>3. \A i \in DOMAIN queue : queue[i] \in Nat /\ (queue[i] = pl.cur <=> i = 1)
  <2>1. \A i \in DOMAIN queue : queue[i] \in Nat
    BY <1>1, SpeechConstants DEF Requests
  <2>2. 1 \in DOMAIN queue
    BY <1>1, <1>2
  <2>3. \A i \in DOMAIN queue : i \in Nat /\ queue[i] + 1 = queue[1] + i
    BY <1>1, <1>2, <2>2
  <2> QED BY <1>1, <2>1, <2>2, <2>3
<1>4. \A i \in DOMAIN Tail(queue) : i + 1 \in DOMAIN queue /\ Tail(queue)[i] = queue[i + 1]
  BY <1>2
<1>5. ASSUME NEW r \in Requests
      PROVE  (\E i \in DOMAIN Tail(queue) : Tail(queue)[i] = r) <=> Queued(r) /\ r # pl.cur
  <2>1. ASSUME NEW i \in DOMAIN Tail(queue), Tail(queue)[i] = r PROVE Queued(r) /\ r # pl.cur
    <3>1. i + 1 \in DOMAIN queue /\ queue[i + 1] = r /\ i + 1 # 1
      BY <1>2, <1>4, <2>1
    <3> QED BY <1>3, <3>1 DEF Queued
  <2>2. ASSUME Queued(r), r # pl.cur PROVE \E i \in DOMAIN Tail(queue) : Tail(queue)[i] = r
    <3>1. PICK j \in DOMAIN queue : queue[j] = r
      BY <2>2 DEF Queued
    <3>2. j # 1
      BY <1>3, <2>2, <3>1
    <3>3. j - 1 \in DOMAIN Tail(queue) /\ Tail(queue)[j - 1] = r
      BY <1>2, <3>1, <3>2
    <3> QED BY <3>3
  <2> QED BY <2>1, <2>2
<1> QED BY <1>1, <1>2, <1>4, <1>5

\* discard begins: the handle is cancelled unless its thread has ended.
LEMMA DiscardInv == ASSUME HeardInv, Discard PROVE HeardInv'
<1>1. PICK r : /\ BeginDiscard(r) /\ r \in Requests
               /\ \/ pl.pc = "discard" /\ r = pl.cur
                  \/ pl.pc = "clear"
  <2>1. CASE PlayerAt("discard") /\ BeginDiscard(pl.cur)
    BY <2>1, PlayingQueued DEF PlayerAt, Busy
  <2>2. ASSUME PlayerAt("clear"), NEW i \in Undiscarded, BeginDiscard(queue[i])
        PROVE  pl.pc = "clear" /\ queue[i] \in Requests
    BY <2>2, PlayerTyped DEF PlayerAt, Undiscarded
  <2> QED BY <2>1, <2>2 DEF Discard
<1>2. /\ UNCHANGED <<mode, queue, gen, sink, reported, failures>>
      /\ pl.join = 0 /\ hnd[r].th # "none" /\ pl' = [pl EXCEPT !.join = r]
  BY <1>1 DEF BeginDiscard
<1>3. /\ HandleShape(r) /\ hnd[r] \in Handles /\ hnd[r].noted \in 0..Chunks /\ Chunks \in Nat
      /\ srv[r] \in ServerStreams /\ srv \in [Requests -> ServerStreams]
      /\ hnd \in [Requests -> Handles]
  BY <1>1, HandleTyped
<1>4. /\ pending' \subseteq Requests
      /\ \E v \in ServerStreams : /\ srv' = [srv EXCEPT ![r] = v] /\ v.pc = srv[r].pc
                                  /\ v.emitted = srv[r].emitted /\ v.files = srv[r].files
  <2>1. CASE Cancels(r)
    BY <1>1, <2>1, CancelsTo
  <2>2. CASE UNCHANGED <<srv, pending>>
    <3>1. srv' = [srv EXCEPT ![r] = srv[r]] /\ pending' \subseteq Requests
      BY <1>3, <2>2 DEF HeardInv, SpeechOK
    <3> QED BY <1>3, <3>1
  <2> QED BY <1>1, <2>1, <2>2 DEF BeginDiscard
<1>5. PICK v \in ServerStreams : /\ srv' = [srv EXCEPT ![r] = v] /\ v.pc = srv[r].pc
                                 /\ v.emitted = srv[r].emitted /\ v.files = srv[r].files
  BY <1>4
<1>6. PICK h \in Handles : /\ hnd' = [hnd EXCEPT ![r] = h] /\ h.th = hnd[r].th
                           /\ h.noted = hnd[r].noted
  <2> DEFINE a == [hnd[r] EXCEPT !.discarded = TRUE]
             b == [hnd[r] EXCEPT !.discarded = TRUE, !.cancelled = TRUE]
  <2>1. /\ a \in Handles /\ a.th = hnd[r].th /\ a.noted = hnd[r].noted
        /\ b \in Handles /\ b.th = hnd[r].th /\ b.noted = hnd[r].noted
    BY <1>3 DEF Handles
  <2>2. hnd' = [hnd EXCEPT ![r] = a] \/ hnd' = [hnd EXCEPT ![r] = b]
    BY <1>1, <1>3 DEF BeginDiscard
  <2> HIDE DEF a, b
  <2> QED BY <2>1, <2>2
<1>7. /\ h.th = "complete" => v.pc = "done" /\ h.noted = Chunks
      /\ v.pc = "emit" => v.emitted < Chunks
      /\ v.pc = "done" => v.emitted = Chunks
      /\ hnd[r].noted <= h.noted
  BY <1>3, <1>5, <1>6 DEF HandleShape
<1>8. /\ hnd' \in [Requests -> Handles] /\ srv' \in [Requests -> ServerStreams]
      /\ \A q \in Requests : Moves(q)
      /\ \A q \in Requests \ {r} : Keeps(q)
  BY <1>1, <1>2, <1>5, <1>6, <1>7, OneMoves
<1>9. /\ pl' \in Players /\ pl'.pc = pl.pc /\ pl'.cur = pl.cur /\ pl'.join = r
      /\ pl'.have = pl.have /\ pl'.cut = pl.cut /\ pl'.deferred = pl.deferred
      /\ pl'.failed = pl.failed /\ pl'.error = pl.error /\ pl'.stopped = pl.stopped
      /\ pl'.finished = pl.finished /\ pl'.jammed = pl.jammed /\ pl'.played = pl.played
  <2>1. r \in 0..N
    BY <1>1, PlayerTyped DEF Requests
  <2> QED BY <1>2, <2>1, PlayerTyped DEF Players
<1>10. SpeechOK'
  BY <1>2, <1>4, <1>8, <1>9 DEF HeardInv, SpeechOK
<1>11. QueueShape' /\ SinkShape' /\ TurnShape'
  <2>1. QueueShape'
    BY <1>2, <1>9, PlayerTyped DEF QueueShape, Busy
  <2>2. SinkShape'
    BY <1>1, <1>2, <1>9, PlayerTyped DEF SinkShape, PlayerAt, Draining
  <2>3. TurnShape'
    BY <1>2, <1>9, PlayerTyped DEF TurnShape, PlayerAt
  <2> QED BY <2>1, <2>2, <2>3
<1>12. ASSUME NEW q \in Requests
       PROVE  HandleShape(q)' /\ WriteShape(q)' /\ ResultShape(q)'
  <2>1. /\ HandleShape(q) /\ WriteShape(q) /\ ResultShape(q) /\ Moves(q) /\ SinkShape
        /\ mode = "stream" /\ Queued(q) => ~(gen.next <= q)
    <3>1. gen.next \in Nat /\ q \in Nat
      BY PlayerTyped
    <3> QED BY <1>8, <3>1, PlayerTyped, QueuedBefore
  <2>2. /\ Written(q)' = Written(q) /\ (Queued(q)' <=> Queued(q))
        /\ (Recorded(q)' <=> Recorded(q)) /\ (InFull(q)' <=> InFull(q))
        /\ (InPlay(q)' <=> InPlay(q)) /\ (Going' <=> Going) /\ (Draining' <=> Draining)
    BY <1>2, <1>9 DEF Written, Queued, Recorded, InFull, InPlay, Busy, Going, Draining
  <2>3. HandleShape(q)'
    <3>1. q \in Nat \ {0}
      BY PlayerTyped DEF Requests
    <3>2. CASE q = r
      BY <1>1, <1>2, <1>9, <2>1, <2>2, <3>2
         DEF HandleShape, Moves, PlayerAt, Ended, NoHandle, Going, Busy
    <3>3. CASE q # r
      <4>1. Keeps(q)
        BY <1>8, <3>3
      <4> QED BY <1>1, <1>2, <1>9, <2>1, <2>2, <3>1, <4>1
                 DEF HandleShape, Keeps, Moves, PlayerAt, Ended, NoHandle, Going, Busy
    <3> QED BY <3>2, <3>3
  <2>4. pl.have \in Nat /\ hnd[q].noted \in Nat /\ hnd'[q].noted \in Nat
    BY SMTT(20), <1>8, PlayerTyped DEF Handles
  <2>5. WriteShape(q)'
    BY <1>2, <1>9, <2>1, <2>2, <2>4 DEF WriteShape, Moves, PlayerAt
  <2>6. ResultShape(q)'
    BY <1>2, <1>9, <2>1, <2>2 DEF ResultShape, Moves, PlayerAt
  <2> QED BY <2>3, <2>5, <2>6
<1> QED BY <1>10, <1>11, <1>12 DEF HeardInv, SpeechInv

\* What a joined discard does to the handle and the stream of a request.
LEMMA JoinedMoves ==
    ASSUME HeardInv, NEW r \in Requests, Joined(r), UNCHANGED hnd
    PROVE  /\ hnd' \in [Requests -> Handles] /\ srv' \in [Requests -> ServerStreams]
           /\ \A q \in Requests : Keeps(q)
           /\ hnd[r].th = "complete" => ~srv'[r].files
<1> DEFINE v == [srv[r] EXCEPT !.files = srv[r].files /\ hnd[r].th = "failed"]
<1>1. /\ HandleShape(r) /\ hnd[r] \in Handles /\ hnd[r].noted \in 0..Chunks /\ Chunks \in Nat
      /\ srv[r] \in ServerStreams /\ srv \in [Requests -> ServerStreams]
      /\ hnd \in [Requests -> Handles]
  BY HandleTyped
<1>2. /\ v \in ServerStreams /\ v.pc = srv[r].pc /\ v.emitted = srv[r].emitted
      /\ v.files = (srv[r].files /\ hnd[r].th = "failed")
  BY <1>1 DEF ServerStreams
<1>3. srv' = [srv EXCEPT ![r] = v] /\ hnd' = [hnd EXCEPT ![r] = hnd[r]] /\ srv'[r] = v
  BY <1>1 DEF Joined
<1> HIDE DEF v
<1>4. /\ hnd[r].th = "complete" => v.pc = "done" /\ hnd[r].noted = Chunks
      /\ v.pc = "emit" => v.emitted < Chunks
      /\ v.pc = "done" => v.emitted = Chunks
      /\ hnd[r].noted <= hnd[r].noted
  BY <1>1, <1>2 DEF HandleShape
<1>5. hnd[r].th = "complete" /\ v.files => srv[r].files
  BY <1>2
<1>6. /\ hnd' \in [Requests -> Handles] /\ srv' \in [Requests -> ServerStreams]
      /\ \A q \in Requests : Keeps(q)
  BY <1>1, <1>2, <1>3, <1>4, <1>5, OneMoves
<1> QED BY <1>2, <1>3, <1>6

\* The item is taken off the queue and recorded.
LEMMA FinishItemInv == ASSUME HeardInv, FinishItem PROVE HeardInv'
<1> DEFINE c == pl.cur
<1>1. /\ UNCHANGED <<mode, hnd, pending, gen, sink, reported, failures>>
      /\ pl.pc = "discard" /\ hnd[c].discarded
      /\ pl.join = 0 \/ (pl.join = c /\ Joined(c))
  BY DEF FinishItem, PlayerAt
<1>2. /\ c \in Requests /\ Queued(c) /\ InPlay(c) /\ c # 0
      /\ HandleShape(c) /\ WriteShape(c) /\ SinkShape
  BY <1>1, PlayingQueued, PlayerTyped DEF Busy, Requests
<1>3. pl.join = c /\ Joined(c)
  BY <1>1, <1>2 DEF HandleShape, Going, Busy
<1>4. /\ hnd' \in [Requests -> Handles] /\ srv' \in [Requests -> ServerStreams]
      /\ \A q \in Requests : Keeps(q)
      /\ hnd[c].th = "complete" => ~srv'[c].files
  BY <1>1, <1>2, <1>3, JoinedMoves
<1>5. /\ queue' = Tail(queue) /\ queue' \in Seq(Requests) /\ Len(queue') = Len(queue) - 1
      /\ \A i \in DOMAIN queue' : i + 1 \in DOMAIN queue /\ queue'[i] = queue[i + 1]
      /\ \A r \in Requests : Queued(r)' <=> Queued(r) /\ r # c
  BY <1>1, TailQueued DEF FinishItem, Busy, Queued
<1>6. /\ pl' \in Players /\ pl'.cur = c /\ pl'.join = 0
      /\ pl'.have = pl.have /\ pl'.cut = pl.cut /\ pl'.deferred = pl.deferred
      /\ pl'.failed = pl.failed /\ pl'.error = pl.error /\ pl'.stopped = pl.stopped
      /\ pl'.finished = pl.finished /\ pl'.jammed = pl.jammed
      /\ pl'.pc = IF pl.cut \/ pl.deferred THEN "close" ELSE "head"
      /\ pl'.played = pl.played \/ pl'.played = Append(pl.played, Result(c))
      /\ ~pl.deferred => pl'.played = Append(pl.played, Result(c))
  <2> DEFINE to == IF pl.cut \/ pl.deferred THEN "close" ELSE "head"
             now == IF pl.deferred /\ pl.have = 0 THEN pl.played ELSE Append(pl.played, Result(c))
  <2>1. pl' = [pl EXCEPT !.pc = to, !.join = 0, !.played = now]
    BY DEF FinishItem
  <2>2. Result(c) \in Results
    BY <1>2, PlayerTyped DEF Result, Results
  <2>3. to \in PlayerPcs /\ now \in Seq(Results) /\ 0 \in 0..N
    BY <2>2, PlayerTyped DEF PlayerPcs
  <2>4. now = pl.played \/ now = Append(pl.played, Result(c))
    OBVIOUS
  <2>5. ~pl.deferred => now = Append(pl.played, Result(c))
    OBVIOUS
  <2> HIDE DEF now, to
  <2>6. pl' \in Players
    BY <2>1, <2>3, PlayerTyped DEF Players
  <2>7. /\ pl'.cur = c /\ pl'.join = 0
        /\ pl'.have = pl.have /\ pl'.cut = pl.cut /\ pl'.deferred = pl.deferred
        /\ pl'.failed = pl.failed /\ pl'.error = pl.error /\ pl'.stopped = pl.stopped
        /\ pl'.finished = pl.finished /\ pl'.jammed = pl.jammed
        /\ pl'.pc = to /\ pl'.played = now
    BY <2>1, PlayerTyped DEF Players
  <2> QED BY <2>4, <2>5, <2>6, <2>7 DEF to
<1>7. SpeechOK'
  <2>1. Len(queue') <= N
    BY <1>5, PlayerTyped
  <2> QED BY <1>1, <1>4, <1>5, <1>6, <2>1 DEF HeardInv, SpeechOK
<1>8. QueueShape'
  <2>1. /\ queue \in Seq(Requests) /\ Len(queue) \in Nat /\ queue # <<>>
        /\ \A i \in DOMAIN queue : i \in Nat /\ queue[i] \in Nat
        /\ \A i, j \in DOMAIN queue : queue[i] + j = queue[j] + i
    <3>1. /\ queue \in Seq(Requests) /\ queue # <<>>
          /\ \A i, j \in DOMAIN queue : queue[i] + j = queue[j] + i
      BY <1>1, PlayerTyped DEF QueueShape, Busy
    <3>2. \A i \in DOMAIN queue : i \in Nat /\ queue[i] \in Requests
      BY <3>1
    <3> QED BY <3>1, <3>2 DEF Requests
  <2>2. ASSUME NEW i \in DOMAIN queue', NEW j \in DOMAIN queue' PROVE queue'[i] + j = queue'[j] + i
    <3>1. i + 1 \in DOMAIN queue /\ j + 1 \in DOMAIN queue /\ i \in Nat /\ j \in Nat
      BY SMTT(20), <1>5, <2>1
    <3>2. queue[i + 1] + (j + 1) = queue[j + 1] + (i + 1)
      BY <2>1, <3>1
    <3>3. queue'[i] = queue[i + 1] /\ queue'[j] = queue[j + 1] /\ queue[i + 1] \in Nat /\ queue[j + 1] \in Nat
      BY <1>5, <2>1, <3>1
    <3> QED BY <3>1, <3>2, <3>3
  <2>3. mode = "stream" => queue' = <<>> \/ queue'[Len(queue')] + 1 = gen.next
    <3>1. queue' # <<>> => Len(queue') \in DOMAIN queue'
      BY <1>5
    <3>2. queue' # <<>> => queue'[Len(queue')] = queue[Len(queue)]
      BY <1>5, <2>1, <3>1
    <3> QED BY <2>1, <3>2, PlayerTyped DEF QueueShape
  <2>4. mode = "reply" => Len(queue') <= 1
    <3>1. mode = "reply" => Len(queue) <= 1
      BY PlayerTyped DEF QueueShape
    <3> QED BY <1>5, <2>1, <3>1
  <2>5. ~Busy'
    BY <1>6 DEF Busy
  <2>6. mode' = mode /\ gen' = gen
    BY <1>1
  <2> QED BY <2>2, <2>3, <2>4, <2>5, <2>6 DEF QueueShape
<1>9. SinkShape'
  BY <1>1, <1>2, <1>6 DEF SinkShape, PlayerAt, Draining
<1>10. TurnShape'
  <2>1. mode = "reply" => queue' = <<>>
    <3>1. mode = "reply" => Len(queue) <= 1
      BY PlayerTyped DEF QueueShape
    <3>2. Len(queue) \in Nat /\ Len(queue') \in Nat
      BY <1>5, PlayerTyped
    <3> QED BY <1>5, <3>1, <3>2
  <2> QED BY <1>1, <1>6, <2>1, PlayerTyped DEF TurnShape, PlayerAt
<1>11. ASSUME NEW r \in Requests
       PROVE  HandleShape(r)' /\ WriteShape(r)' /\ ResultShape(r)'
  <2>1. HandleShape(r) /\ WriteShape(r) /\ ResultShape(r) /\ Keeps(r)
    BY <1>4, PlayerTyped
  <2>2. /\ Written(r)' = Written(r) /\ (Queued(r)' <=> Queued(r) /\ r # c)
        /\ ~InPlay(r)' /\ (InPlay(r) <=> r = c) /\ Going /\ Going' /\ Draining
    BY <1>1, <1>5, <1>6 DEF Written, InPlay, Busy, Going, Draining
  <2>3. /\ Recorded(r) => Recorded(r)'
        /\ ~pl.deferred /\ r = c => Recorded(r)'
        /\ InFull(r)' => InFull(r) \/ (r = c /\ ~pl.cut /\ ~pl.deferred)
    <3>1. pl.played \in Seq(Results)
      BY PlayerTyped
    <3>2. CASE pl'.played = pl.played /\ pl.deferred
      BY <3>2 DEF Recorded, InFull
    <3>3. CASE pl'.played = Append(pl.played, Result(c))
      <4>1. /\ Len(pl.played) \in Nat /\ DOMAIN pl.played = 1..Len(pl.played)
            /\ DOMAIN pl'.played = 1..(Len(pl.played) + 1)
            /\ \A i \in DOMAIN pl.played : i \in DOMAIN pl'.played /\ pl'.played[i] = pl.played[i]
            /\ pl'.played[Len(pl.played) + 1] = Result(c)
        BY <3>1, <3>3
      <4>2. Result(c).r = c /\ (Result(c).cut <=> pl.cut \/ pl.deferred)
        BY DEF Result
      <4>3. \A i \in DOMAIN pl'.played : i \in DOMAIN pl.played \/ i = Len(pl.played) + 1
        BY <4>1
      <4>4. Len(pl.played) + 1 \in DOMAIN pl'.played
        BY <4>1
      <4> QED BY <4>1, <4>2, <4>3, <4>4 DEF Recorded, InFull
    <3> QED BY <1>6, <3>2, <3>3
  <2>4. HandleShape(r)'
    <3>1. Ended(c)
      BY <1>3 DEF Joined
    <3>2. r \in Nat \ {0}
      BY PlayerTyped DEF Requests
    <3> QED BY <1>1, <1>2, <1>3, <1>6, <2>1, <2>2, <3>1, <3>2
               DEF HandleShape, Keeps, Moves, PlayerAt, Ended, NoHandle
  <2>5. WriteShape(r)'
    BY <1>1, <1>6, <2>1, <2>2 DEF WriteShape, PlayerAt
  <2>6. r = c /\ ~pl.cut /\ ~pl.deferred =>
          hnd[r].th = "complete" /\ ~srv'[r].files /\ Written(r) = Chunks
    BY <1>1, <1>2, <1>4 DEF WriteShape, PlayerAt
  <2>7. ResultShape(r)'
    BY <1>1, <1>6, <2>1, <2>2, <2>3, <2>6 DEF ResultShape, Keeps, Moves, PlayerAt
  <2> QED BY <2>4, <2>5, <2>7
<1> QED BY <1>7, <1>8, <1>9, <1>10, <1>11 DEF HeardInv, SpeechInv

\* A handle that does not stop may be discarded again.
LEMMA TimesOutMoves ==
    ASSUME HeardInv, NEW r \in Requests, JoinTimesOut(r), UNCHANGED srv
    PROVE  /\ hnd' \in [Requests -> Handles] /\ srv' \in [Requests -> ServerStreams]
           /\ \A q \in Requests : Keeps(q)
           /\ ~hnd'[r].discarded /\ failures' \in 0..MaxFailures
<1> DEFINE h == [hnd[r] EXCEPT !.discarded = FALSE]
<1>1. /\ HandleShape(r) /\ hnd[r] \in Handles /\ hnd[r].noted \in 0..Chunks /\ Chunks \in Nat
      /\ srv[r] \in ServerStreams /\ srv \in [Requests -> ServerStreams]
      /\ hnd \in [Requests -> Handles]
  BY HandleTyped
<1>2. h \in Handles /\ h.th = hnd[r].th /\ h.noted = hnd[r].noted /\ ~h.discarded
  BY <1>1 DEF Handles
<1>3. hnd' = [hnd EXCEPT ![r] = h] /\ srv' = [srv EXCEPT ![r] = srv[r]] /\ hnd'[r] = h
  BY <1>1 DEF JoinTimesOut
<1> HIDE DEF h
<1>4. hnd[r].th = "none" => h = hnd[r]
  <2>1. hnd[r].th = "none" => hnd[r].discarded = FALSE
    BY <1>1 DEF HandleShape, NoHandle
  <2> QED BY <1>1, <2>1 DEF h, Handles
<1>5. /\ h.th = "complete" => srv[r].pc = "done" /\ h.noted = Chunks
      /\ srv[r].pc = "emit" => srv[r].emitted < Chunks
      /\ srv[r].pc = "done" => srv[r].emitted = Chunks
      /\ hnd[r].noted <= h.noted
  BY <1>1, <1>2 DEF HandleShape
<1>6. /\ hnd' \in [Requests -> Handles] /\ srv' \in [Requests -> ServerStreams]
      /\ \A q \in Requests : Keeps(q)
  <2>1. /\ h \in Handles /\ srv[r] \in ServerStreams
        /\ hnd' = [hnd EXCEPT ![r] = h] /\ srv' = [srv EXCEPT ![r] = srv[r]]
        /\ hnd[r].th # "none" => h.th # "none"
        /\ Ended(r) => h.th = hnd[r].th
        /\ hnd[r].th = "complete" /\ srv[r].files => srv[r].files
        /\ h.discarded => hnd[r].discarded
    BY <1>1, <1>2, <1>3
  <2> QED BY ZenonT(30), <1>4, <1>5, <2>1, OneMoves
<1>7. failures' \in 0..MaxFailures
  BY SpeechConstants DEF JoinTimesOut, Fault, HeardInv, SpeechOK
<1> QED BY <1>2, <1>3, <1>6, <1>7

\* The discard of an item raises.
LEMMA ItemRaisesInv == ASSUME HeardInv, ItemRaises PROVE HeardInv'
<1> DEFINE c == pl.cur
<1>1. /\ UNCHANGED <<mode, queue, srv, pending, gen, reported>>
      /\ pl.pc = "discard" /\ pl.join = c /\ JoinTimesOut(c) /\ sink' = Stop(sink)
      /\ pl' = [pl EXCEPT !.pc = "raise", !.join = 0, !.jammed = TRUE]
  BY DEF ItemRaises, PlayerAt
<1>2. c \in Requests /\ hnd[c].th # "none"
  BY <1>1, PlayingQueued DEF Busy
<1>3. /\ hnd' \in [Requests -> Handles] /\ srv' \in [Requests -> ServerStreams]
      /\ \A q \in Requests : Keeps(q)
      /\ ~hnd'[c].discarded /\ failures' \in 0..MaxFailures
  BY <1>1, <1>2, TimesOutMoves
<1>4. /\ sink' \in Sinks /\ sink'.buf = <<>> /\ sink'.heard = sink.heard
      /\ sink'.pc # "open"
      /\ \A r \in Requests : Written(r)' \in Nat /\ Written(r)' <= Written(r)
  BY <1>1, StopLoses
<1>5. /\ pl' \in Players /\ pl'.pc = "raise" /\ pl'.cur = c /\ pl'.join = 0
      /\ pl'.have = pl.have /\ pl'.cut = pl.cut /\ pl'.deferred = pl.deferred
      /\ pl'.failed = pl.failed /\ pl'.error = pl.error /\ pl'.stopped = pl.stopped
      /\ pl'.finished = pl.finished /\ pl'.jammed /\ pl'.played = pl.played
  <2>1. 0 \in 0..N
    BY PlayerTyped
  <2> QED BY <1>1, <2>1, PlayerTyped DEF Players, PlayerPcs
<1>6. SpeechOK'
  BY <1>1, <1>3, <1>4, <1>5 DEF HeardInv, SpeechOK
<1>7. QueueShape' /\ SinkShape' /\ TurnShape'
  <2>1. QueueShape'
    BY <1>1, <1>5, PlayerTyped DEF QueueShape, Busy
  <2>2. SinkShape'
    BY <1>1, <1>4, <1>5, PlayerTyped DEF SinkShape, PlayerAt, Draining
  <2>3. TurnShape'
    BY <1>1, <1>5, PlayerTyped DEF TurnShape, PlayerAt
  <2> QED BY <2>1, <2>2, <2>3
<1>8. ASSUME NEW r \in Requests
      PROVE  HandleShape(r)' /\ WriteShape(r)' /\ ResultShape(r)'
  <2>1. /\ HandleShape(r) /\ WriteShape(r) /\ ResultShape(r) /\ Keeps(r) /\ Chunks \in Nat
        /\ Written(r) \in Nat
        /\ mode = "stream" /\ Queued(r) => ~(gen.next <= r)
    <3>1. gen.next \in Nat /\ r \in Nat
      BY PlayerTyped
    <3> QED BY <1>3, <3>1, PlayerTyped, QueuedBefore
  <2>2. (Queued(r)' <=> Queued(r)) /\ ~InPlay(r)' /\ ~Going' /\ ~Draining'
    BY <1>1, <1>5 DEF Queued, InPlay, Busy, Going, Draining
  <2>3. HandleShape(r)'
    BY <1>1, <1>3, <1>5, <2>1, <2>2 DEF HandleShape, Keeps, Moves, PlayerAt, Ended, NoHandle
  <2>4. WriteShape(r)'
    BY <1>1, <1>4, <1>5, <2>1, <2>2 DEF WriteShape, Keeps, Moves, PlayerAt
  <2>5. ResultShape(r)'
    BY <1>1, <1>4, <1>5, <2>1, <2>2 DEF ResultShape, Keeps, Moves, PlayerAt
  <2> QED BY <2>3, <2>4, <2>5
<1> QED BY <1>6, <1>7, <1>8 DEF HeardInv, SpeechInv

\* Invalidated results are cut, and of the same requests.
LEMMA InvalidatedCut ==
    ASSUME HeardInv
    PROVE  /\ Invalidated \in Seq(Results) /\ DOMAIN Invalidated = DOMAIN pl.played
           /\ \A i \in DOMAIN pl.played : Invalidated[i].r = pl.played[i].r /\ Invalidated[i].cut
<1>1. pl.played \in Seq(Results)
  BY PlayerTyped
<1>2. /\ DOMAIN Invalidated = DOMAIN pl.played
      /\ \A i \in DOMAIN pl.played : Invalidated[i] = [pl.played[i] EXCEPT !.cut = TRUE]
  BY DEF Invalidated
<1>3. ASSUME NEW i \in DOMAIN pl.played
      PROVE  Invalidated[i] \in Results /\ Invalidated[i].r = pl.played[i].r /\ Invalidated[i].cut
  <2>1. pl.played[i] \in Results
    BY <1>1
  <2> QED BY <1>2, <2>1 DEF Results
<1>4. DOMAIN pl.played = 1..Len(pl.played) /\ Len(pl.played) \in Nat
  BY <1>1
<1>5. Invalidated \in [1..Len(pl.played) -> Results]
  <2>1. Invalidated = [i \in 1..Len(pl.played) |-> Invalidated[i]]
    BY <1>2, <1>4 DEF Invalidated
  <2> QED BY <1>3, <1>4, <2>1
<1>6. Invalidated \in Seq(Results)
  BY <1>4, <1>5
<1> QED BY <1>2, <1>3, <1>6

\* After the last item.
LEMMA CloseSinkInv == ASSUME HeardInv, CloseSink PROVE HeardInv'
<1> DEFINE now == IF pl.failed THEN Invalidated ELSE pl.played
<1>1. /\ UNCHANGED <<mode, queue, hnd, srv, pending, gen, reported, failures>>
      /\ pl.pc = "close"
      /\ \/ /\ pl' = [pl EXCEPT !.pc = "report", !.played = now]
            /\ \/ sink.pc # "open" /\ sink' = sink
               \/ (pl.cut \/ pl.failed) /\ sink' = Terminated
         \/ /\ sink.pc = "open" /\ ~pl.cut /\ ~pl.failed
            /\ pl' = [pl EXCEPT !.pc = "flush"] /\ sink' = sink
  BY DEF CloseSink, PlayerAt
<1>2. /\ hnd' \in [Requests -> Handles] /\ srv' \in [Requests -> ServerStreams]
      /\ \A q \in Requests : Keeps(q)
  BY <1>1, MovesNot
<1>3. /\ pl' \in Players /\ pl'.cur = pl.cur /\ pl'.join = pl.join
      /\ pl'.have = pl.have /\ pl'.cut = pl.cut /\ pl'.deferred = pl.deferred
      /\ pl'.failed = pl.failed /\ pl'.error = pl.error /\ pl'.stopped = pl.stopped
      /\ pl'.finished = pl.finished /\ pl'.jammed = pl.jammed
      /\ \/ pl'.pc = "report" /\ pl'.played = now
         \/ pl'.pc = "flush" /\ pl'.played = pl.played /\ ~pl.cut /\ ~pl.failed
  <2>1. CASE pl' = [pl EXCEPT !.pc = "report", !.played = now]
    <3>1. now \in Seq(Results)
      BY InvalidatedCut, PlayerTyped
    <3> HIDE DEF now
    <3> QED BY <2>1, <3>1, PlayerTyped DEF Players, PlayerPcs
  <2>2. CASE pl' = [pl EXCEPT !.pc = "flush"] /\ ~pl.cut /\ ~pl.failed
    BY <2>2, PlayerTyped DEF Players, PlayerPcs
  <2> QED BY <1>1, <2>1, <2>2
<1>4. /\ sink' \in Sinks /\ sink'.heard = sink.heard
      /\ sink'.buf # <<>> => sink'.pc = "open"
      /\ sink'.pc = "open" => pl'.pc = "flush"
      /\ \A r \in Requests : /\ Written(r)' \in Nat /\ Written(r)' <= Written(r)
                             /\ ~pl.cut /\ ~pl.failed => Written(r)' = Written(r)
  <2>1. CASE sink' = Terminated /\ (pl.cut \/ pl.failed)
    BY <2>1, StopLoses
  <2>2. CASE sink' = sink /\ (sink.pc # "open" \/ pl' = [pl EXCEPT !.pc = "flush"])
    <3>1. \A r \in Requests : Written(r)' = Written(r)
      BY <2>2 DEF Written
    <3>2. sink.pc = "open" => pl'.pc = "flush"
      BY <2>2, PlayerTyped DEF Players
    <3> QED BY <2>2, <3>1, <3>2, PlayerTyped DEF SinkShape
  <2> QED BY <1>1, <2>1, <2>2
<1>5. SpeechOK'
  BY <1>1, <1>2, <1>3, <1>4 DEF HeardInv, SpeechOK
<1>6. QueueShape' /\ SinkShape' /\ TurnShape'
  <2>1. QueueShape'
    BY <1>1, <1>3, PlayerTyped DEF QueueShape, Busy
  <2>2. SinkShape'
    BY <1>1, <1>3, <1>4, PlayerTyped DEF SinkShape, PlayerAt, Draining
  <2>3. TurnShape'
    BY <1>1, <1>3, PlayerTyped DEF TurnShape, PlayerAt
  <2> QED BY <2>1, <2>2, <2>3
<1>7. ASSUME NEW r \in Requests
      PROVE  HandleShape(r)' /\ WriteShape(r)' /\ ResultShape(r)'
  <2>1. /\ HandleShape(r) /\ WriteShape(r) /\ ResultShape(r) /\ Keeps(r) /\ Chunks \in Nat
        /\ Written(r) \in Nat /\ SinkShape
    BY <1>2, PlayerTyped
  <2>2. /\ (Queued(r)' <=> Queued(r)) /\ ~InPlay(r)' /\ ~InPlay(r) /\ Going /\ Draining
    BY <1>1, <1>3 DEF Queued, InPlay, Busy, Going, Draining
  <2>3. (Recorded(r)' <=> Recorded(r)) /\ (InFull(r)' => InFull(r) /\ ~(pl.failed /\ pl'.pc = "report"))
    <3>1. CASE pl'.played = pl.played /\ ~(pl.failed /\ pl'.pc = "report")
      BY <3>1 DEF Recorded, InFull
    <3>2. CASE pl'.played = Invalidated
      BY <3>2, InvalidatedCut DEF Recorded, InFull
    <3> QED BY <1>3, <3>1, <3>2
  <2>4. HandleShape(r)'
    BY <1>1, <1>3, <2>1, <2>2 DEF HandleShape, Keeps, Moves, PlayerAt, Ended, NoHandle
  <2>5. WriteShape(r)'
    BY <1>1, <1>3, <1>4, <2>1, <2>2 DEF WriteShape, Keeps, Moves, PlayerAt
  <2>6. ResultShape(r)'
    BY <1>1, <1>3, <1>4, <2>1, <2>2, <2>3 DEF ResultShape, Keeps, Moves, PlayerAt, Draining
  <2> QED BY <2>4, <2>5, <2>6
<1> QED BY <1>5, <1>6, <1>7 DEF HeardInv, SpeechInv

\* pw-play plays a chunk.
LEMMA SoundsInv == ASSUME HeardInv, Sounds PROVE HeardInv'
<1> DEFINE f == Head(sink.buf)
           more == [sink.heard EXCEPT ![f] = sink.heard[f] + 1]
<1>1. /\ UNCHANGED <<mode, queue, hnd, srv, pending, gen, pl, reported, failures>>
      /\ sink.pc = "open" /\ sink.buf # <<>>
      /\ sink' = [sink EXCEPT !.buf = Tail(sink.buf), !.heard = more]
  BY DEF Sounds
<1>2. /\ sink.buf \in Seq(Requests) /\ f \in Requests /\ Tail(sink.buf) \in Seq(Requests)
      /\ Chunks \in Nat /\ sink.heard \in [Requests -> 0..Chunks] /\ sink \in Sinks
  BY <1>1, PlayerTyped
<1>3. \A r \in Requests : /\ Occurs(Tail(sink.buf), r) \in Nat
                          /\ Occurs(sink.buf, r) = IF f = r THEN Occurs(Tail(sink.buf), r) + 1
                                                   ELSE Occurs(Tail(sink.buf), r)
  BY <1>1, <1>2, OccursTail, OccursNat
<1>4. sink.heard[f] \in Nat /\ sink.heard[f] + 1 <= Chunks
  <2>1. WriteShape(f) /\ sink.heard[f] \in Nat
    BY <1>2, PlayerTyped
  <2> QED BY <1>2, <1>3, <2>1 DEF WriteShape, Written
<1> HIDE DEF f
<1>5. /\ more \in [Requests -> 0..Chunks] /\ more[f] = sink.heard[f] + 1
      /\ \A r \in Requests : r # f => more[r] = sink.heard[r]
  BY <1>2, <1>4
<1> HIDE DEF more
<1>6. /\ sink' \in Sinks /\ sink'.pc = "open" /\ sink'.buf = Tail(sink.buf) /\ sink'.heard = more
  BY <1>1, <1>2, <1>5 DEF Sinks
<1>7. /\ hnd' \in [Requests -> Handles] /\ srv' \in [Requests -> ServerStreams]
      /\ \A q \in Requests : Keeps(q)
  BY <1>1, MovesNot
<1>8. SpeechOK'
  BY <1>1, <1>6, <1>7 DEF HeardInv, SpeechOK
<1>9. QueueShape' /\ SinkShape' /\ TurnShape'
  BY <1>1, <1>6, PlayerTyped DEF QueueShape, SinkShape, TurnShape, Busy, PlayerAt, Draining
<1>10. ASSUME NEW r \in Requests
       PROVE  HandleShape(r)' /\ WriteShape(r)' /\ ResultShape(r)'
  <2>1. HandleShape(r) /\ WriteShape(r) /\ ResultShape(r) /\ sink.heard[r] \in Nat
    BY PlayerTyped
  <2>2. Written(r)' = Written(r)
    <3>1. Written(r)' = sink'.heard[r] + Occurs(sink'.buf, r)
      BY DEF Written, Occurs
    <3> QED BY <1>3, <1>5, <1>6, <2>1, <3>1 DEF Written
  <2>3. /\ (Queued(r)' <=> Queued(r)) /\ (Recorded(r)' <=> Recorded(r)) /\ (InFull(r)' <=> InFull(r))
        /\ (InPlay(r)' <=> InPlay(r)) /\ (Going' <=> Going) /\ (Draining' <=> Draining)
    BY <1>1 DEF Queued, Recorded, InFull, InPlay, Busy, Going, Draining
  <2>4. HandleShape(r)'
    BY <1>1, <2>1, <2>3 DEF HandleShape, PlayerAt, Ended, NoHandle
  <2>5. WriteShape(r)'
    BY <1>1, <2>1, <2>2, <2>3 DEF WriteShape, PlayerAt
  <2>6. sink.heard[r] = Chunks => sink'.heard[r] = Chunks
    BY <1>2, <1>4, <1>5, <1>6
  <2>7. ResultShape(r)'
    BY <1>1, <2>1, <2>2, <2>3, <2>6 DEF ResultShape, PlayerAt
  <2> QED BY <2>4, <2>5, <2>7
<1> QED BY <1>8, <1>9, <1>10 DEF HeardInv, SpeechInv

\* pw-play ends, or is stopped by the user or by an error.
LEMMA FlushSinkInv == ASSUME HeardInv, FlushSink PROVE HeardInv'
<1>1. /\ UNCHANGED <<mode, queue, hnd, srv, pending, gen, reported>>
      /\ pl.pc = "flush" /\ sink' = Terminated /\ (failures' = failures \/ Fault)
      /\ \/ sink.buf = <<>> /\ pl' = [pl EXCEPT !.pc = "report"]
         \/ pl' = [pl EXCEPT !.pc = "report", !.cut = TRUE, !.played = Invalidated]
         \/ pl' = [pl EXCEPT !.pc = "raise"]
  BY DEF FlushSink, PlayerAt
<1>2. /\ hnd' \in [Requests -> Handles] /\ srv' \in [Requests -> ServerStreams]
      /\ \A q \in Requests : Keeps(q)
  BY <1>1, MovesNot
<1>3. /\ sink' \in Sinks /\ sink'.buf = <<>> /\ sink'.heard = sink.heard
      /\ sink'.pc # "open"
      /\ \A r \in Requests : /\ Written(r)' \in Nat /\ Written(r)' <= Written(r)
                             /\ sink.buf = <<>> => Written(r)' = Written(r)
  BY <1>1, StopLoses
<1>4. /\ pl' \in Players /\ pl'.cur = pl.cur /\ pl'.join = pl.join
      /\ pl'.have = pl.have /\ pl'.deferred = pl.deferred
      /\ pl'.failed = pl.failed /\ pl'.error = pl.error /\ pl'.stopped = pl.stopped
      /\ pl'.finished = pl.finished /\ pl'.jammed = pl.jammed
      /\ \/ sink.buf = <<>> /\ pl'.pc = "report" /\ pl'.played = pl.played /\ pl'.cut = pl.cut
         \/ pl'.pc = "report" /\ pl'.played = Invalidated /\ pl'.cut
         \/ pl'.pc = "raise" /\ pl'.played = pl.played /\ pl'.cut = pl.cut
  <2>1. CASE sink.buf = <<>> /\ pl' = [pl EXCEPT !.pc = "report"]
    BY <2>1, PlayerTyped DEF Players, PlayerPcs
  <2>2. CASE pl' = [pl EXCEPT !.pc = "report", !.cut = TRUE, !.played = Invalidated]
    <3>1. Invalidated \in Seq(Results)
      BY InvalidatedCut
    <3> QED BY <2>2, <3>1, PlayerTyped DEF Players, PlayerPcs
  <2>3. CASE pl' = [pl EXCEPT !.pc = "raise"]
    BY <2>3, PlayerTyped DEF Players, PlayerPcs
  <2> QED BY <1>1, <2>1, <2>2, <2>3
<1>5. SpeechOK'
  <2>1. failures' \in 0..MaxFailures
    BY <1>1, SpeechConstants DEF HeardInv, SpeechOK, Fault
  <2> QED BY <1>1, <1>2, <1>3, <1>4, <2>1 DEF HeardInv, SpeechOK
<1>6. QueueShape' /\ SinkShape' /\ TurnShape'
  <2>1. QueueShape'
    BY <1>1, <1>4, PlayerTyped DEF QueueShape, Busy
  <2>2. SinkShape'
    BY <1>1, <1>3, <1>4, PlayerTyped DEF SinkShape, PlayerAt, Draining
  <2>3. TurnShape'
    BY <1>1, <1>4, PlayerTyped DEF TurnShape, PlayerAt
  <2> QED BY <2>1, <2>2, <2>3
<1>7. ASSUME NEW r \in Requests
      PROVE  HandleShape(r)' /\ WriteShape(r)' /\ ResultShape(r)'
  <2>1. /\ HandleShape(r) /\ WriteShape(r) /\ ResultShape(r) /\ Keeps(r) /\ Chunks \in Nat
        /\ Written(r) \in Nat /\ SinkShape
    BY <1>2, PlayerTyped
  <2>2. /\ (Queued(r)' <=> Queued(r)) /\ ~InPlay(r)' /\ ~InPlay(r) /\ Going /\ Draining /\ ~Draining'
    BY <1>1, <1>4 DEF Queued, InPlay, Busy, Going, Draining
  <2>3. (Recorded(r)' <=> Recorded(r)) /\ (InFull(r)' => InFull(r))
    <3>1. CASE pl'.played = pl.played
      BY <3>1 DEF Recorded, InFull
    <3>2. CASE pl'.played = Invalidated
      BY <3>2, InvalidatedCut DEF Recorded, InFull
    <3> QED BY <1>4, <3>1, <3>2
  <2>4. HandleShape(r)'
    BY <1>1, <1>4, <2>1, <2>2 DEF HandleShape, Keeps, Moves, PlayerAt, Ended, NoHandle
  <2>5. WriteShape(r)'
    BY <1>1, <1>3, <1>4, <2>1, <2>2 DEF WriteShape, Keeps, Moves, PlayerAt
  <2>6. ResultShape(r)'
    BY <1>1, <1>3, <1>4, <2>1, <2>2, <2>3 DEF ResultShape, Keeps, Moves, PlayerAt
  <2> QED BY <2>4, <2>5, <2>6
<1> QED BY <1>5, <1>6, <1>7 DEF HeardInv, SpeechInv

\* on_played: a request with a result in full, and none that is cut, is reported as played.
LEMMA ReportTo ==
    ASSUME HeardInv, Report
    PROVE  /\ reported' \in [Requests -> {"nothing", "played", "cut", "released"}]
           /\ \A r \in Requests :
                /\ Recorded(r) => reported'[r] \in {"played", "cut"}
                /\ reported'[r] = "played" => InFull(r) \/ reported[r] = "played"
<1>1. reported \in [Requests -> {"nothing", "played", "cut", "released"}]
  BY DEF HeardInv, SpeechOK
<1>2. ASSUME NEW r \in Requests
      PROVE  /\ reported'[r] \in {"nothing", "played", "cut", "released"}
             /\ Recorded(r) => reported'[r] \in {"played", "cut"}
             /\ reported'[r] = "played" => InFull(r) \/ reported[r] = "played"
  <2> DEFINE res == {i \in DOMAIN pl.played : pl.played[i].r = r}
  <2>1. reported'[r] = IF res = {} THEN reported[r]
                       ELSE IF \E i \in res : pl.played[i].cut THEN "cut" ELSE "played"
    BY DEF Report
  <2>2. CASE res = {}
    BY <1>1, <2>1, <2>2 DEF Recorded
  <2>3. CASE res # {} /\ \E i \in res : pl.played[i].cut
    BY <2>1, <2>3
  <2>4. CASE res # {} /\ ~(\E i \in res : pl.played[i].cut)
    <3>1. PICK i \in res : TRUE
      BY <2>4
    <3>2. i \in DOMAIN pl.played /\ pl.played[i].r = r /\ ~pl.played[i].cut
      BY <2>4, <3>1
    <3> QED BY <2>1, <2>4, <3>2 DEF InFull
  <2> QED BY <2>2, <2>3, <2>4
<1>3. reported' = [r \in Requests |-> reported'[r]]
  BY DEF Report
<1> QED BY <1>2, <1>3

\* The results are reported.
LEMMA ReportInv == ASSUME HeardInv, Report PROVE HeardInv'
<1> DEFINE to == IF pl.deferred THEN "raise"
                 ELSE IF mode = "reply" THEN "done"
                 ELSE IF pl.cut THEN "clear"
                 ELSE IF mode = "stream" THEN "wait" ELSE "done"
           stop == pl.stopped \/ (mode = "stream" /\ pl.cut /\ ~pl.deferred)
<1>1. /\ UNCHANGED <<mode, queue, hnd, srv, pending, gen, sink, failures>>
      /\ pl.pc = "report" /\ pl' = [pl EXCEPT !.pc = to, !.stopped = stop]
  BY DEF Report, PlayerAt
<1>2. /\ hnd' \in [Requests -> Handles] /\ srv' \in [Requests -> ServerStreams]
      /\ \A q \in Requests : Keeps(q)
  BY <1>1, MovesNot
<1>3. /\ pl' \in Players /\ pl'.pc = to /\ pl'.cur = pl.cur /\ pl'.join = pl.join
      /\ pl'.have = pl.have /\ pl'.cut = pl.cut /\ pl'.deferred = pl.deferred
      /\ pl'.failed = pl.failed /\ pl'.error = pl.error /\ pl'.stopped = stop
      /\ pl'.finished = pl.finished /\ pl'.jammed = pl.jammed /\ pl'.played = pl.played
  <2>1. to \in PlayerPcs /\ stop \in BOOLEAN
    <3>1. to \in PlayerPcs
      BY DEF PlayerPcs
    <3>2. pl.stopped \in BOOLEAN
      BY PlayerTyped DEF Players
    <3> QED BY <3>1, <3>2
  <2> HIDE DEF to, stop
  <2> QED BY <1>1, <2>1, PlayerTyped DEF Players
<1>4. SpeechOK'
  BY <1>1, <1>2, <1>3, ReportTo DEF HeardInv, SpeechOK
<1>5. mode \in SpeechModes
  BY DEF HeardInv, SpeechOK
<1>6. QueueShape' /\ SinkShape' /\ TurnShape'
  <2>1. QueueShape'
    BY <1>1, <1>3, PlayerTyped DEF QueueShape, Busy
  <2>2. SinkShape'
    BY <1>1, <1>3, PlayerTyped DEF SinkShape, PlayerAt, Draining
  <2>3. TurnShape'
    BY SMTT(20), <1>1, <1>3, <1>5, PlayerTyped DEF TurnShape, PlayerAt, SpeechModes
  <2> QED BY <2>1, <2>2, <2>3
<1>7. ASSUME NEW r \in Requests
      PROVE  HandleShape(r)' /\ WriteShape(r)' /\ ResultShape(r)'
  <2>1. /\ HandleShape(r) /\ WriteShape(r) /\ ResultShape(r) /\ Keeps(r)
        /\ SinkShape /\ TurnShape /\ sink.heard[r] \in Nat
    BY <1>2, PlayerTyped
  <2>2. /\ (Queued(r)' <=> Queued(r)) /\ ~InPlay(r)' /\ ~InPlay(r) /\ Going /\ ~Draining'
        /\ Written(r)' = Written(r)
    BY <1>1, <1>3 DEF Queued, InPlay, Busy, Going, Draining, Written
  <2>3. Written(r) = sink.heard[r]
    <3>1. sink.buf = <<>>
      BY <1>1, <2>1 DEF SinkShape, Draining
    <3>2. Occurs(sink.buf, r) = 0
      BY <3>1, OccursEmpty
    <3> QED BY <2>1, <3>2 DEF Written
  <2>4. HandleShape(r)'
    BY <1>1, <1>3, <2>1, <2>2 DEF HandleShape, Keeps, Moves, PlayerAt, Ended, NoHandle
  <2>5. WriteShape(r)'
    BY <1>1, <1>3, <2>1, <2>2 DEF WriteShape, PlayerAt
  <2>6. InFull(r) => /\ hnd[r].th = "complete" /\ ~srv[r].files
                     /\ ~pl.cut => sink.heard[r] = Chunks
    BY <1>1, <2>1, <2>3 DEF ResultShape, PlayerAt
  <2>7. /\ Recorded(r) => reported'[r] # "nothing"
        /\ reported'[r] = "played" => InFull(r) \/ reported[r] = "played"
        /\ Recorded(r)' <=> Recorded(r)
    BY <1>3, ReportTo DEF Recorded
  <2>8. mode = "announce" /\ pl'.pc = "done" => Recorded(r)
    <3>1. mode = "announce" /\ pl'.pc = "done" => queue = <<>> /\ ~pl.deferred
      BY <1>1, <1>3, <2>1 DEF TurnShape
    <3>2. queue = <<>> => ~Queued(r)
      BY DEF Queued
    <3> QED BY <2>1, <2>2, <3>1, <3>2 DEF ResultShape
  <2>9. ResultShape(r)'
    <3>1. pl'.pc # "report"
      BY <1>3
    <3> HIDE DEF to, stop
    <3> QED BY <1>1, <1>3, <2>1, <2>2, <2>6, <2>7, <2>8, <3>1 DEF ResultShape, PlayerAt
  <2> QED BY <2>4, <2>5, <2>9
<1> QED BY <1>4, <1>6, <1>7 DEF HeardInv, SpeechInv

\* The caller of drain meets the exception.
LEMMA DrainRaisesInv == ASSUME HeardInv, DrainRaises PROVE HeardInv'
<1> DEFINE to == IF mode = "reply" THEN "done" ELSE "clear"
           stop == pl.stopped \/ mode = "stream"
<1>1. /\ UNCHANGED <<mode, queue, hnd, srv, pending, gen, sink, reported, failures>>
      /\ pl.pc = "raise" /\ pl' = [pl EXCEPT !.pc = to, !.error = TRUE, !.stopped = stop]
  BY DEF DrainRaises, PlayerAt
<1>2. /\ hnd' \in [Requests -> Handles] /\ srv' \in [Requests -> ServerStreams]
      /\ \A q \in Requests : Keeps(q)
  BY <1>1, MovesNot
<1>3. /\ pl' \in Players /\ pl'.pc = to /\ pl'.cur = pl.cur /\ pl'.join = pl.join
      /\ pl'.have = pl.have /\ pl'.cut = pl.cut /\ pl'.deferred = pl.deferred
      /\ pl'.failed = pl.failed /\ pl'.stopped = stop
      /\ pl'.finished = pl.finished /\ pl'.jammed = pl.jammed /\ pl'.played = pl.played
  <2>1. to \in PlayerPcs /\ stop \in BOOLEAN
    <3>1. to \in PlayerPcs
      BY DEF PlayerPcs
    <3>2. pl.stopped \in BOOLEAN
      BY PlayerTyped DEF Players
    <3> QED BY <3>1, <3>2
  <2> HIDE DEF to, stop
  <2> QED BY <1>1, <2>1, PlayerTyped DEF Players
<1>4. SpeechOK'
  BY <1>1, <1>2, <1>3 DEF HeardInv, SpeechOK
<1>5. QueueShape' /\ SinkShape' /\ TurnShape'
  <2>1. QueueShape'
    BY <1>1, <1>3, PlayerTyped DEF QueueShape, Busy
  <2>2. SinkShape'
    BY <1>1, <1>3, PlayerTyped DEF SinkShape, PlayerAt, Draining
  <2>3. TurnShape'
    <3>1. CASE mode = "reply"
      BY <1>1, <1>3, <3>1, PlayerTyped DEF TurnShape, PlayerAt
    <3>2. CASE mode # "reply"
      <4>1. pl'.pc = "clear" /\ (mode = "stream" => pl'.stopped)
        BY <1>3, <3>2
      <4> HIDE DEF to, stop
      <4> QED BY <1>1, <1>3, <3>2, <4>1, PlayerTyped DEF TurnShape, PlayerAt
    <3> QED BY <3>1, <3>2
  <2> QED BY <2>1, <2>2, <2>3
<1>6. ASSUME NEW r \in Requests
      PROVE  HandleShape(r)' /\ WriteShape(r)' /\ ResultShape(r)'
  <2>1. HandleShape(r) /\ WriteShape(r) /\ ResultShape(r) /\ Keeps(r)
    BY <1>2, PlayerTyped
  <2>2. /\ (Queued(r)' <=> Queued(r)) /\ ~InPlay(r)' /\ ~Going' /\ ~Draining'
        /\ Written(r)' = Written(r)
    BY <1>1, <1>3 DEF Queued, InPlay, Busy, Going, Draining, Written
  <2>3. HandleShape(r)'
    BY <1>1, <1>3, <2>1, <2>2 DEF HandleShape, Keeps, Moves, PlayerAt, Ended, NoHandle
  <2>4. WriteShape(r)'
    BY <1>1, <1>3, <2>1, <2>2 DEF WriteShape, PlayerAt
  <2>5. ResultShape(r)'
    BY <1>1, <1>3, <2>1, <2>2 DEF ResultShape, PlayerAt
  <2> QED BY <2>3, <2>4, <2>5
<1> QED BY <1>4, <1>5, <1>6 DEF HeardInv, SpeechInv

(***************************************************************************)
(* clear.                                                                  *)
(***************************************************************************)

\* A step of clear: the handles may only move on, and the queue stays.
LEMMA ClearKeeps ==
    ASSUME HeardInv, pl.pc = "clear", pl.join \in Requests, pl'.pc \in {"clear", "done"},
           UNCHANGED <<mode, queue, gen, sink, reported>>,
           hnd' \in [Requests -> Handles], srv' \in [Requests -> ServerStreams],
           \A r \in Requests : Keeps(r), Ended(pl.join) \/ ~hnd'[pl.join].discarded,
           pending' \subseteq Requests, failures' \in 0..MaxFailures,
           pl' \in Players, pl'.cur = pl.cur, pl'.join = 0,
           pl'.have = pl.have, pl'.cut = pl.cut, pl'.deferred = pl.deferred,
           pl'.failed = pl.failed, pl'.stopped = pl.stopped,
           pl'.finished = pl.finished, pl'.played = pl.played,
           pl'.pc = "done" => pl'.jammed
    PROVE  HeardInv'
<1>1. SpeechOK'
  BY DEF HeardInv, SpeechOK
<1>2. QueueShape' /\ SinkShape' /\ TurnShape'
  <2>1. QueueShape'
    BY PlayerTyped DEF QueueShape, Busy
  <2>2. SinkShape'
    BY PlayerTyped DEF SinkShape, PlayerAt, Draining
  <2>3. TurnShape'
    BY PlayerTyped DEF TurnShape, PlayerAt
  <2> QED BY <2>1, <2>2, <2>3
<1>3. ASSUME NEW r \in Requests
      PROVE  HandleShape(r)' /\ WriteShape(r)' /\ ResultShape(r)'
  <2>1. /\ HandleShape(r) /\ WriteShape(r) /\ ResultShape(r) /\ Keeps(r)
        /\ mode = "stream" /\ Queued(r) => ~(gen.next <= r)
    <3>1. gen.next \in Nat /\ r \in Nat
      BY PlayerTyped
    <3> QED BY <3>1, PlayerTyped, QueuedBefore
  <2>2. /\ (Queued(r)' <=> Queued(r)) /\ ~InPlay(r)' /\ ~Going' /\ ~Draining'
        /\ Written(r)' = Written(r)
    BY DEF Queued, InPlay, Busy, Going, Draining, Written
  <2>3. HandleShape(r)'
    BY <2>1, <2>2 DEF HandleShape, Keeps, Moves, PlayerAt, Ended, NoHandle
  <2>4. WriteShape(r)'
    BY <2>1, <2>2 DEF WriteShape, Keeps, Moves, PlayerAt
  <2>5. ResultShape(r)'
    BY <2>1, <2>2 DEF ResultShape, Keeps, Moves, PlayerAt
  <2> QED BY <2>3, <2>4, <2>5
<1> QED BY <1>1, <1>2, <1>3 DEF HeardInv, SpeechInv

\* clear joins a handle.
LEMMA ClearOneInv == ASSUME HeardInv, ClearOne PROVE HeardInv'
<1>1. /\ UNCHANGED <<mode, queue, hnd, pending, gen, sink, reported, failures>>
      /\ pl.pc = "clear" /\ pl.join # 0 /\ Joined(pl.join) /\ pl' = [pl EXCEPT !.join = 0]
  BY DEF ClearOne, PlayerAt
<1>2. pl.join \in Requests /\ 0 \in 0..N
  BY <1>1, PlayerTyped DEF Requests
<1>3. /\ hnd' \in [Requests -> Handles] /\ srv' \in [Requests -> ServerStreams]
      /\ \A r \in Requests : Keeps(r)
  BY <1>1, <1>2, JoinedMoves
<1>4. /\ pl' \in Players /\ pl'.pc = "clear" /\ pl'.cur = pl.cur /\ pl'.join = 0
      /\ pl'.have = pl.have /\ pl'.cut = pl.cut /\ pl'.deferred = pl.deferred
      /\ pl'.failed = pl.failed /\ pl'.stopped = pl.stopped
      /\ pl'.finished = pl.finished /\ pl'.played = pl.played
  BY <1>1, <1>2, PlayerTyped DEF Players
<1>5. pending' \subseteq Requests /\ failures' \in 0..MaxFailures /\ Ended(pl.join)
  BY <1>1 DEF HeardInv, SpeechOK, Joined
<1> QED BY <1>1, <1>2, <1>3, <1>4, <1>5, ClearKeeps

\* clear raises.
LEMMA ClearRaisesInv == ASSUME HeardInv, ClearRaises PROVE HeardInv'
<1> DEFINE to == IF pl.error THEN "done" ELSE "clear"
<1>1. /\ UNCHANGED <<mode, queue, srv, pending, gen, sink, reported>>
      /\ pl.pc = "clear" /\ pl.join # 0 /\ JoinTimesOut(pl.join)
      /\ pl' = [pl EXCEPT !.pc = to, !.join = 0, !.error = TRUE, !.jammed = TRUE]
  BY DEF ClearRaises, PlayerAt
<1>2. pl.join \in Requests /\ 0 \in 0..N /\ to \in {"clear", "done"}
  BY <1>1, PlayerTyped DEF Requests
<1>3. /\ hnd' \in [Requests -> Handles] /\ srv' \in [Requests -> ServerStreams]
      /\ \A r \in Requests : Keeps(r)
      /\ ~hnd'[pl.join].discarded /\ failures' \in 0..MaxFailures
  BY <1>1, <1>2, TimesOutMoves
<1> HIDE DEF to
<1>4. /\ pl' \in Players /\ pl'.pc = to /\ pl'.cur = pl.cur /\ pl'.join = 0
      /\ pl'.have = pl.have /\ pl'.cut = pl.cut /\ pl'.deferred = pl.deferred
      /\ pl'.failed = pl.failed /\ pl'.stopped = pl.stopped
      /\ pl'.finished = pl.finished /\ pl'.played = pl.played /\ pl'.jammed
  BY <1>1, <1>2, PlayerTyped DEF Players, PlayerPcs
<1>5. pending' \subseteq Requests
  BY <1>1 DEF HeardInv, SpeechOK
<1> QED BY <1>1, <1>2, <1>3, <1>4, <1>5, ClearKeeps

\* clear has joined every handle and empties the queue.
LEMMA ClearQueueInv == ASSUME HeardInv, ClearQueue PROVE HeardInv'
<1> DEFINE to == IF mode = "announce" THEN "release" ELSE "done"
<1>1. /\ UNCHANGED <<mode, hnd, srv, pending, gen, sink, reported, failures>>
      /\ pl.pc = "clear" /\ pl.join = 0 /\ Undiscarded = {} /\ queue' = <<>>
      /\ pl' = [pl EXCEPT !.pc = to]
  BY DEF ClearQueue, PlayerAt
<1>2. /\ hnd' \in [Requests -> Handles] /\ srv' \in [Requests -> ServerStreams]
      /\ \A q \in Requests : Keeps(q)
  BY <1>1, MovesNot
<1>3. /\ pl' \in Players /\ pl'.pc = to /\ pl'.cur = pl.cur /\ pl'.join = pl.join
      /\ pl'.have = pl.have /\ pl'.cut = pl.cut /\ pl'.deferred = pl.deferred
      /\ pl'.failed = pl.failed /\ pl'.error = pl.error /\ pl'.stopped = pl.stopped
      /\ pl'.finished = pl.finished /\ pl'.jammed = pl.jammed /\ pl'.played = pl.played
  BY <1>1, PlayerTyped DEF Players, PlayerPcs
<1>4. queue' \in Seq(Requests) /\ Len(queue') = 0 /\ DOMAIN queue' = {}
  BY <1>1
<1>5. SpeechOK'
  <2>1. Len(queue') <= N
    BY <1>4, PlayerTyped
  <2> QED BY <1>1, <1>2, <1>3, <1>4, <2>1 DEF HeardInv, SpeechOK
<1>6. QueueShape' /\ SinkShape' /\ TurnShape'
  <2>1. QueueShape'
    BY <1>1, <1>3, <1>4 DEF QueueShape, Busy
  <2>2. SinkShape'
    BY <1>1, <1>3, PlayerTyped DEF SinkShape, PlayerAt, Draining
  <2>3. TurnShape'
    BY <1>1, <1>3, PlayerTyped DEF TurnShape, PlayerAt
  <2> QED BY <2>1, <2>2, <2>3
<1>7. ASSUME NEW r \in Requests
      PROVE  HandleShape(r)' /\ WriteShape(r)' /\ ResultShape(r)'
  <2>1. HandleShape(r) /\ WriteShape(r) /\ ResultShape(r) /\ Keeps(r) /\ r \in Nat \ {0}
    <3>1. r \in Nat \ {0}
      BY DEF Requests
    <3> QED BY <1>2, <3>1, PlayerTyped
  <2>2. /\ ~Queued(r)' /\ ~InPlay(r)' /\ ~Going' /\ ~Draining' /\ Written(r)' = Written(r)
    BY <1>1, <1>3, <1>4 DEF Queued, InPlay, Busy, Going, Draining, Written
  <2>3. hnd[r].th = "none" \/ Ended(r)
    <3>1. Queued(r) /\ hnd[r].th # "none" => hnd[r].discarded
      BY <1>1 DEF Queued, Undiscarded
    <3> QED BY <1>1, <2>1, <3>1 DEF HandleShape
  <2>4. HandleShape(r)'
    BY <1>1, <1>3, <2>1, <2>2, <2>3 DEF HandleShape, PlayerAt, Ended, NoHandle
  <2>5. WriteShape(r)'
    BY <1>1, <1>3, <2>1, <2>2 DEF WriteShape, PlayerAt
  <2>6. mode = "announce" => pl'.pc = "release"
    BY <1>3
  <2>7. pl'.pc # "report"
    BY <1>3
  <2> HIDE DEF to
  <2>8. ResultShape(r)'
    BY <1>1, <1>3, <2>1, <2>2, <2>6, <2>7 DEF ResultShape, PlayerAt
  <2> QED BY <2>4, <2>5, <2>8
<1> QED BY <1>5, <1>6, <1>7 DEF HeardInv, SpeechInv

\* release_unfinished.
LEMMA ReleaseClaimsInv == ASSUME HeardInv, ReleaseClaims PROVE HeardInv'
<1>1. /\ UNCHANGED <<mode, queue, hnd, srv, pending, gen, sink, failures>>
      /\ pl.pc = "release" /\ pl' = [pl EXCEPT !.pc = "done"]
      /\ reported' = [r \in Requests |-> IF reported[r] = "nothing" THEN "released" ELSE reported[r]]
  BY DEF ReleaseClaims, PlayerAt, Unfinished
<1>2. /\ hnd' \in [Requests -> Handles] /\ srv' \in [Requests -> ServerStreams]
      /\ \A q \in Requests : Keeps(q)
  BY <1>1, MovesNot
<1>3. /\ pl' \in Players /\ pl'.pc = "done" /\ pl'.cur = pl.cur /\ pl'.join = pl.join
      /\ pl'.have = pl.have /\ pl'.cut = pl.cut /\ pl'.deferred = pl.deferred
      /\ pl'.failed = pl.failed /\ pl'.error = pl.error /\ pl'.stopped = pl.stopped
      /\ pl'.finished = pl.finished /\ pl'.jammed = pl.jammed /\ pl'.played = pl.played
  BY <1>1, PlayerTyped DEF Players, PlayerPcs
<1>4. /\ reported' \in [Requests -> {"nothing", "played", "cut", "released"}]
      /\ \A r \in Requests : /\ reported'[r] # "nothing"
                             /\ reported'[r] = "played" => reported[r] = "played"
  BY <1>1 DEF HeardInv, SpeechOK
<1>5. SpeechOK'
  BY <1>1, <1>2, <1>3, <1>4 DEF HeardInv, SpeechOK
<1>6. QueueShape' /\ SinkShape' /\ TurnShape'
  <2>1. QueueShape'
    BY <1>1, <1>3, PlayerTyped DEF QueueShape, Busy
  <2>2. SinkShape'
    BY <1>1, <1>3, PlayerTyped DEF SinkShape, PlayerAt, Draining
  <2>3. TurnShape'
    BY <1>1, <1>3, PlayerTyped DEF TurnShape, PlayerAt
  <2> QED BY <2>1, <2>2, <2>3
<1>7. ASSUME NEW r \in Requests
      PROVE  HandleShape(r)' /\ WriteShape(r)' /\ ResultShape(r)'
  <2>1. HandleShape(r) /\ WriteShape(r) /\ ResultShape(r) /\ Keeps(r)
    BY <1>2, PlayerTyped
  <2>2. /\ (Queued(r)' <=> Queued(r)) /\ ~InPlay(r)' /\ ~Going' /\ ~Draining'
        /\ Written(r)' = Written(r)
    BY <1>1, <1>3 DEF Queued, InPlay, Busy, Going, Draining, Written
  <2>3. HandleShape(r)'
    BY <1>1, <1>3, <2>1, <2>2 DEF HandleShape, Keeps, Moves, PlayerAt, Ended, NoHandle
  <2>4. WriteShape(r)'
    BY <1>1, <1>3, <2>1, <2>2 DEF WriteShape, PlayerAt
  <2>5. ResultShape(r)'
    <3>1. reported'[r] # "nothing" /\ (reported'[r] = "played" => reported[r] = "played")
      BY <1>4
    <3> QED BY <1>1, <1>3, <2>1, <2>2, <3>1 DEF ResultShape, PlayerAt
  <2> QED BY <2>3, <2>4, <2>5
<1> QED BY <1>5, <1>6, <1>7 DEF HeardInv, SpeechInv

(***************************************************************************)
(* The generator.                                                          *)
(***************************************************************************)

\* A request is put at the end of the queue.
LEMMA GenerateTextInv == ASSUME HeardInv, GenerateText PROVE HeardInv'
<1> DEFINE g == gen.next
<1>1. /\ UNCHANGED <<mode, srv, pending, pl, sink, reported, failures>>
      /\ gen.pc = "generate" /\ g <= N /\ pl.pc # "clear" /\ ~pl.stopped
      /\ queue' = Append(queue, g) /\ gen' = [gen EXCEPT !.next = g + 1]
      /\ hnd' = hnd \/ hnd' = [hnd EXCEPT ![g].th = "start"]
  BY DEF GenerateText, MaySpeak, ConditionFree, Enqueues, PlayerAt
<1>2. /\ mode = "stream" /\ g \in Requests /\ g \in Nat
      /\ HandleShape(g) /\ WriteShape(g) /\ TurnShape
  <2>1. g \in Requests
    BY <1>1, PlayerTyped DEF Requests
  <2> QED BY <1>1, <2>1, PlayerTyped DEF TurnShape
<1>3. hnd[g] = NoHandle /\ hnd[g].th = "none" /\ Written(g) = 0 /\ ~InPlay(g)
  BY <1>2 DEF HandleShape, WriteShape
<1>4. /\ gen' \in Generators /\ gen'.pc = "generate" /\ gen'.next = g + 1
  <2>1. g + 1 \in 1..(N + 1)
    BY SMTT(20), <1>1, <1>2, PlayerTyped
  <2> QED BY <1>1, <2>1, PlayerTyped DEF Generators
<1>5. /\ queue \in Seq(Requests) /\ queue' \in Seq(Requests) /\ Len(queue) \in Nat
      /\ Len(queue') = Len(queue) + 1 /\ DOMAIN queue = 1..Len(queue)
      /\ DOMAIN queue' = 1..(Len(queue) + 1) /\ queue'[Len(queue) + 1] = g
      /\ \A i \in DOMAIN queue : i \in DOMAIN queue' /\ queue'[i] = queue[i] /\ queue[i] \in Requests
  <2>1. queue \in Seq(Requests) /\ queue' = Append(queue, g) /\ g \in Requests
    BY <1>1, <1>2, PlayerTyped
  <2> HIDE DEF g
  <2>2. queue' \in Seq(Requests) /\ Len(queue) \in Nat /\ DOMAIN queue = 1..Len(queue)
    BY <2>1
  <2>3. /\ Len(queue') = Len(queue) + 1 /\ DOMAIN queue' = 1..(Len(queue) + 1)
        /\ queue'[Len(queue) + 1] = g
    BY <2>1
  <2>4. \A i \in DOMAIN queue : i \in DOMAIN queue' /\ queue'[i] = queue[i] /\ queue[i] \in Requests
    BY <2>1, <2>2, <2>3
  <2> QED BY <2>1, <2>2, <2>3, <2>4
<1>6. /\ \A i \in DOMAIN queue : queue[i] \in Nat \ {0} /\ queue[i] + Len(queue) + 1 = g + i
      /\ Len(queue) < g
  <2>1. \A i \in DOMAIN queue : queue[i] \in Nat \ {0} /\ i \in Nat
    BY <1>5 DEF Requests
  <2>2. /\ \A i, j \in DOMAIN queue : queue[i] + j = queue[j] + i
        /\ queue = <<>> \/ queue[Len(queue)] + 1 = g
    BY <1>2, PlayerTyped DEF QueueShape
  <2>3. ASSUME NEW i \in DOMAIN queue PROVE queue[i] + Len(queue) + 1 = g + i
    <3>1. Len(queue) \in DOMAIN queue /\ queue # <<>>
      BY <1>5, <2>3
    <3>2. queue[i] + Len(queue) = queue[Len(queue)] + i /\ queue[Len(queue)] + 1 = g
      BY <2>2, <2>3, <3>1
    <3> QED BY SMTT(20), <1>2, <1>5, <2>1, <3>1, <3>2
  <2>4. Len(queue) < g
    <3>1. CASE queue = <<>>
      <4>1. g # 0
        BY <1>2 DEF Requests
      <4> QED BY <1>2, <1>5, <3>1, <4>1
    <3>2. CASE queue # <<>>
      <4>1. 1 \in DOMAIN queue
        BY <1>5, <3>2
      <4> QED BY <1>2, <1>5, <2>1, <2>3, <4>1
    <3> QED BY <3>1, <3>2
  <2> QED BY <2>1, <2>3, <2>4
<1>7. \A r \in Requests : Queued(r)' <=> Queued(r) \/ r = g
  BY <1>5 DEF Queued
<1>8. /\ hnd' \in [Requests -> Handles]
      /\ \A r \in Requests : r # g => hnd'[r] = hnd[r]
      /\ hnd'[g] \in {NoHandle, Started} /\ Started.th = "start" /\ ~Started.discarded
  <2>1. Started \in Handles /\ Started.th = "start" /\ ~Started.discarded
    BY PrefetchStarts
  <2>2. hnd \in [Requests -> Handles]
    BY DEF HeardInv, SpeechOK
  <2>3. CASE hnd' = hnd
    BY <1>3, <2>1, <2>2, <2>3
  <2>4. CASE hnd' = [hnd EXCEPT ![g].th = "start"]
    <3>1. hnd' = [hnd EXCEPT ![g] = Started]
      BY <1>3, <2>4 DEF Started
    <3> QED BY <1>2, <2>1, <2>2, <3>1
  <2> QED BY <1>1, <2>3, <2>4
<1>9. SpeechOK'
  <2>1. Len(queue') <= N
    BY <1>1, <1>2, <1>5, <1>6, PlayerTyped
  <2> QED BY <1>1, <1>4, <1>5, <1>8, <2>1 DEF HeardInv, SpeechOK
<1>10. QueueShape'
  <2>1. ASSUME NEW i \in DOMAIN queue', NEW j \in DOMAIN queue' PROVE queue'[i] + j = queue'[j] + i
    <3>1. \A k \in DOMAIN queue' : queue'[k] \in Nat /\ k \in Nat /\ queue'[k] + Len(queue) + 1 = g + k
      <4>1. \A k \in DOMAIN queue' : k \in Nat /\ (k \in DOMAIN queue \/ k = Len(queue) + 1)
        BY <1>5
      <4>2. ASSUME NEW k \in DOMAIN queue'
            PROVE  queue'[k] \in Nat /\ k \in Nat /\ queue'[k] + Len(queue) + 1 = g + k
        <5>1. CASE k \in DOMAIN queue
          BY <1>5, <1>6, <4>1, <5>1
        <5>2. CASE k = Len(queue) + 1
          BY <1>2, <1>5, <5>2
        <5> QED BY <4>1, <5>1, <5>2
      <4> QED BY <4>2
    <3>2. /\ queue'[i] \in Nat /\ i \in Nat /\ queue'[i] + Len(queue) + 1 = g + i
          /\ queue'[j] \in Nat /\ j \in Nat /\ queue'[j] + Len(queue) + 1 = g + j
      BY <2>1, <3>1
    <3>3. g \in Nat /\ Len(queue) \in Nat
      BY <1>2, <1>5
    <3> HIDE DEF g
    <3> QED BY SMTT(20), <3>2, <3>3
  <2>2. Busy' => queue' # <<>> /\ queue'[1] = pl'.cur
    <3>1. Busy' => queue # <<>> /\ queue[1] = pl.cur /\ pl' = pl
      BY <1>1, PlayerTyped DEF QueueShape, Busy
    <3>2. queue # <<>> => 1 \in DOMAIN queue
      BY <1>5
    <3>3. queue' # <<>>
      BY <1>5
    <3> QED BY <1>5, <3>1, <3>2, <3>3
  <2>3. queue'[Len(queue')] + 1 = gen'.next
    BY <1>4, <1>5
  <2>4. mode' = "stream"
    BY <1>1, <1>2
  <2> QED BY <2>1, <2>2, <2>3, <2>4 DEF QueueShape
<1>11. SinkShape'
  BY <1>1, PlayerTyped DEF SinkShape, PlayerAt, Draining
<1>12. TurnShape'
  <2>1. gen'.next # 1
    BY <1>2, <1>4 DEF Requests
  <2>2. pl.pc # "done"
    BY <1>1, <1>2 DEF TurnShape, PlayerAt
  <2> QED BY <1>1, <1>2, <1>4, <2>1, <2>2 DEF TurnShape, PlayerAt
<1>13. ASSUME NEW r \in Requests
       PROVE  HandleShape(r)' /\ WriteShape(r)' /\ ResultShape(r)'
  <2>1. HandleShape(r) /\ WriteShape(r) /\ ResultShape(r) /\ r \in Nat
    BY PlayerTyped
  <2>2. /\ Written(r)' = Written(r) /\ (Queued(r)' <=> Queued(r) \/ r = g)
        /\ (Recorded(r)' <=> Recorded(r)) /\ (InFull(r)' <=> InFull(r))
        /\ (InPlay(r)' <=> InPlay(r)) /\ (Going' <=> Going) /\ (Draining' <=> Draining)
    BY <1>1, <1>7 DEF Written, Recorded, InFull, InPlay, Busy, Going, Draining
  <2>3. CASE r = g
    <3>1. /\ ~InPlay(r) /\ Written(r) = 0 /\ hnd[r].th = "none"
          /\ hnd'[r] = NoHandle \/ hnd'[r].th = "start"
          /\ ~hnd'[r].discarded /\ hnd'[r].th # "complete"
      <4>1. hnd'[r] = NoHandle \/ hnd'[r] = Started
        BY <1>8, <2>3
      <4>2. NoHandle.th = "none" /\ ~NoHandle.discarded
        BY DEF NoHandle
      <4> QED BY <1>3, <1>8, <2>3, <4>1, <4>2
    <3>2. HandleShape(r)'
      BY <1>1, <2>1, <2>2, <2>3, <3>1 DEF HandleShape, PlayerAt, Ended, NoHandle
    <3>3. ~(gen'.next <= r)
      BY <1>4, <2>1, <2>3
    <3>4. WriteShape(r)'
      BY <1>1, <2>1, <2>2, <3>1, <3>3 DEF WriteShape, PlayerAt
    <3>5. ResultShape(r)'
      BY <1>1, <1>2, <2>1, <2>2, <3>1 DEF ResultShape, PlayerAt
    <3> QED BY <3>2, <3>4, <3>5
  <2>4. CASE r # g
    <3>1. hnd'[r] = hnd[r] /\ (Queued(r)' <=> Queued(r))
      BY <1>8, <2>2, <2>4
    <3>2. HandleShape(r)'
      BY <1>1, <2>1, <2>2, <3>1 DEF HandleShape, PlayerAt, Ended, NoHandle
    <3>3. gen'.next <= r => g <= r
      BY <1>2, <1>4, <2>1
    <3>4. WriteShape(r)'
      BY <1>1, <2>1, <2>2, <3>1, <3>3 DEF WriteShape, PlayerAt
    <3>5. ResultShape(r)'
      BY <1>1, <1>2, <2>1, <2>2, <3>1 DEF ResultShape, PlayerAt
    <3> QED BY <3>2, <3>4, <3>5
  <2> QED BY <2>3, <2>4
<1> QED BY <1>9, <1>10, <1>11, <1>12, <1>13 DEF HeardInv, SpeechInv

\* The generation ends and says so.
LEMMA GenerationEndsInv == ASSUME HeardInv, GenerationEnds PROVE HeardInv'
<1>1. /\ UNCHANGED <<mode, queue, hnd, srv, pending, sink, reported>>
      /\ gen.pc = "generate" /\ (failures' = failures \/ Fault)
      /\ pl' = [pl EXCEPT !.finished = TRUE]
      /\ gen' = [gen EXCEPT !.pc = "join"] \/ gen' = [gen EXCEPT !.pc = "failed"]
  BY DEF GenerationEnds, Announces
<1>2. /\ hnd' \in [Requests -> Handles] /\ srv' \in [Requests -> ServerStreams]
      /\ \A q \in Requests : Keeps(q)
  BY <1>1, MovesNot
<1>3. /\ pl' \in Players /\ pl'.pc = pl.pc /\ pl'.cur = pl.cur /\ pl'.join = pl.join
      /\ pl'.have = pl.have /\ pl'.cut = pl.cut /\ pl'.deferred = pl.deferred
      /\ pl'.failed = pl.failed /\ pl'.error = pl.error /\ pl'.stopped = pl.stopped
      /\ pl'.finished /\ pl'.jammed = pl.jammed /\ pl'.played = pl.played
  BY <1>1, PlayerTyped DEF Players
<1>4. gen' \in Generators /\ gen'.pc \in {"join", "failed"} /\ gen'.next = gen.next
  BY <1>1, PlayerTyped DEF Generators
<1>5. SpeechOK'
  <2>1. failures' \in 0..MaxFailures
    BY <1>1, SpeechConstants DEF HeardInv, SpeechOK, Fault
  <2> QED BY <1>1, <1>2, <1>3, <1>4, <2>1 DEF HeardInv, SpeechOK
<1>6. QueueShape' /\ SinkShape' /\ TurnShape'
  <2>1. QueueShape'
    BY <1>1, <1>3, <1>4, PlayerTyped DEF QueueShape, Busy
  <2>2. SinkShape'
    BY <1>1, <1>3, PlayerTyped DEF SinkShape, PlayerAt, Draining
  <2>3. TurnShape'
    BY <1>1, <1>3, <1>4, PlayerTyped DEF TurnShape, PlayerAt
  <2> QED BY <2>1, <2>2, <2>3
<1>7. ASSUME NEW r \in Requests
      PROVE  HandleShape(r)' /\ WriteShape(r)' /\ ResultShape(r)'
  <2>1. HandleShape(r) /\ WriteShape(r) /\ ResultShape(r)
    BY PlayerTyped
  <2>2. /\ Written(r)' = Written(r) /\ (Queued(r)' <=> Queued(r))
        /\ (Recorded(r)' <=> Recorded(r)) /\ (InFull(r)' <=> InFull(r))
        /\ (InPlay(r)' <=> InPlay(r)) /\ (Going' <=> Going) /\ (Draining' <=> Draining)
    BY <1>1, <1>3 DEF Written, Queued, Recorded, InFull, InPlay, Busy, Going, Draining
  <2>3. HandleShape(r)'
    BY <1>1, <1>3, <2>1, <2>2 DEF HandleShape, PlayerAt, Ended, NoHandle
  <2>4. WriteShape(r)'
    BY <1>1, <1>3, <1>4, <2>1, <2>2 DEF WriteShape, PlayerAt
  <2>5. ResultShape(r)'
    BY <1>1, <1>3, <2>1, <2>2 DEF ResultShape, PlayerAt
  <2> QED BY <2>3, <2>4, <2>5
<1> QED BY <1>5, <1>6, <1>7 DEF HeardInv, SpeechInv

\* The player is joined; a response never streamed is queued as one reply.
LEMMA JoinPlayerInv == ASSUME HeardInv, JoinPlayer PROVE HeardInv'
<1>1. /\ UNCHANGED <<hnd, srv, pending, sink, reported, failures>>
      /\ gen.pc \in {"join", "failed"} /\ pl.pc = "done" /\ gen' = [gen EXCEPT !.pc = "done"]
      /\ \/ /\ gen.next = 1 /\ mode' = "reply" /\ queue' = <<1>>
            /\ pl' = [pl EXCEPT !.pc = "off", !.played = <<>>]
         \/ UNCHANGED <<mode, queue, pl>>
  BY DEF JoinPlayer, PlayerAt
<1>2. mode = "stream" /\ SinkShape /\ TurnShape /\ QueueShape
  BY <1>1, PlayerTyped DEF TurnShape
<1>3. gen' \in Generators /\ gen'.pc = "done" /\ gen'.next = gen.next
  BY <1>1, PlayerTyped DEF Generators
<1>4. CASE UNCHANGED <<mode, queue, pl>>
  <2>1. SpeechOK'
    BY <1>1, <1>3, <1>4 DEF HeardInv, SpeechOK
  <2>2. QueueShape' /\ SinkShape' /\ TurnShape'
    BY <1>1, <1>2, <1>3, <1>4 DEF QueueShape, SinkShape, TurnShape, Busy, PlayerAt, Draining
  <2>3. ASSUME NEW r \in Requests
        PROVE  HandleShape(r)' /\ WriteShape(r)' /\ ResultShape(r)'
    <3>1. HandleShape(r) /\ WriteShape(r) /\ ResultShape(r)
      BY PlayerTyped
    <3>2. /\ Written(r)' = Written(r) /\ (Queued(r)' <=> Queued(r))
          /\ (Recorded(r)' <=> Recorded(r)) /\ (InFull(r)' <=> InFull(r))
          /\ (InPlay(r)' <=> InPlay(r)) /\ (Going' <=> Going) /\ (Draining' <=> Draining)
      BY <1>1, <1>4 DEF Written, Queued, Recorded, InFull, InPlay, Busy, Going, Draining
    <3>3. HandleShape(r)'
      BY <1>1, <1>4, <3>1, <3>2 DEF HandleShape, PlayerAt, Ended, NoHandle
    <3>4. WriteShape(r)'
      BY <1>1, <1>3, <1>4, <3>1, <3>2 DEF WriteShape, PlayerAt
    <3>5. ResultShape(r)'
      BY <1>1, <1>4, <3>1, <3>2 DEF ResultShape, PlayerAt
    <3> QED BY <3>3, <3>4, <3>5
  <2> QED BY <2>1, <2>2, <2>3 DEF HeardInv, SpeechInv
<1>5. CASE /\ gen.next = 1 /\ mode' = "reply" /\ queue' = <<1>>
           /\ pl' = [pl EXCEPT !.pc = "off", !.played = <<>>]
  <2>1. /\ pl' \in Players /\ pl'.pc = "off" /\ pl'.cur = pl.cur /\ pl'.join = pl.join
        /\ pl'.have = pl.have /\ pl'.cut = pl.cut /\ pl'.deferred = pl.deferred
        /\ pl'.failed = pl.failed /\ pl'.error = pl.error /\ pl'.stopped = pl.stopped
        /\ pl'.finished = pl.finished /\ pl'.jammed = pl.jammed /\ pl'.played = <<>>
    <3>1. <<>> \in Seq(Results)
      OBVIOUS
    <3> QED BY <1>5, <3>1, PlayerTyped DEF Players, PlayerPcs
  <2>2. /\ 1 \in Requests /\ N \in Nat /\ 1 <= N
    BY SpeechConstants DEF Requests
  <2>3. /\ queue' \in Seq(Requests) /\ Len(queue') = 1 /\ DOMAIN queue' = {1} /\ queue' # <<>>
    BY <1>5, <2>2
  <2>4. SpeechOK'
    BY <1>1, <1>3, <1>5, <2>1, <2>2, <2>3 DEF HeardInv, SpeechOK, SpeechModes
  <2>5. QueueShape'
    BY <1>5, <2>1, <2>3 DEF QueueShape, Busy
  <2>6. SinkShape' /\ TurnShape'
    BY <1>1, <1>2, <1>3, <1>5, <2>1 DEF SinkShape, TurnShape, PlayerAt, Draining
  <2>7. ASSUME NEW r \in Requests
        PROVE  HandleShape(r)' /\ WriteShape(r)' /\ ResultShape(r)'
    <3>1. HandleShape(r) /\ WriteShape(r) /\ ResultShape(r)
      BY PlayerTyped
    <3>2. hnd[r].th = "none" /\ hnd[r] = NoHandle /\ Written(r) = 0
      <4>1. 1 <= r
        BY DEF Requests
      <4> QED BY <1>2, <1>5, <3>1, <4>1 DEF HandleShape, WriteShape
    <3>3. /\ Written(r)' = Written(r) /\ ~InPlay(r)' /\ ~Draining' /\ ~NoHandle.discarded
          /\ NoHandle.th = "none"
      BY <1>1, <2>1 DEF Written, InPlay, Busy, Draining, NoHandle
    <3>4. HandleShape(r)'
      BY <1>1, <3>1, <3>2, <3>3 DEF HandleShape, Ended
    <3>5. Chunks \in Nat
      BY SpeechConstants
    <3>6. WriteShape(r)'
      BY <1>1, <1>5, <3>1, <3>2, <3>3, <3>5 DEF WriteShape
    <3>7. ResultShape(r)'
      BY <1>1, <1>5, <2>1, <3>1, <3>2, <3>3 DEF ResultShape, PlayerAt
    <3> QED BY <3>4, <3>6, <3>7
  <2> QED BY <2>4, <2>5, <2>6, <2>7 DEF HeardInv, SpeechInv
<1> QED BY <1>1, <1>4, <1>5

(***************************************************************************)
(* The theorems.                                                           *)
(***************************************************************************)

\* The invariant holds when a turn begins.
LEMMA HeardInitially == ASSUME SpeechInit PROVE HeardInv
<1> USE DEF SpeechInit
<1>1. /\ N \in Nat \ {0} /\ Chunks \in Nat \ {0} /\ MaxFailures \in Nat
      /\ 1 \in Requests /\ 0 \in 0..Chunks /\ 0 \in 0..N /\ 1 \in 1..(N + 1)
  BY SpeechConstants DEF Requests
<1>2. /\ queue \in Seq(Requests) /\ Len(queue) <= N
      /\ \A i, j \in DOMAIN queue : queue[i] + j = queue[j] + i
      /\ mode = "stream" => queue = <<>>
      /\ mode = "reply" => Len(queue) <= 1
      /\ mode = "announce" => \A r \in Requests : Queued(r)
  <2>1. CASE mode = "reply"
    <3>1. queue = <<1>>
      BY <2>1
    <3> HIDE DEF SpeechInit
    <3> QED BY <1>1, <2>1, <3>1
  <2>2. CASE mode = "stream"
    <3>1. queue = <<>>
      BY <2>2
    <3> HIDE DEF SpeechInit
    <3> QED BY <1>1, <2>2, <3>1
  <2>3. CASE mode = "announce"
    <3>1. queue = [i \in 1..N |-> i]
      BY <2>3 DEF Requests
    <3> HIDE DEF SpeechInit
    <3>2. queue \in [1..N -> Requests]
      BY <3>1 DEF Requests
    <3>3. queue \in Seq(Requests) /\ Len(queue) = N /\ DOMAIN queue = 1..N
      BY <1>1, <3>2
    <3>4. \A i \in 1..N : queue[i] = i
      BY <3>1
    <3>5. \A i, j \in DOMAIN queue : queue[i] + j = queue[j] + i
      BY <1>1, <3>3, <3>4
    <3>6. \A r \in Requests : Queued(r)
      BY <3>3, <3>4 DEF Queued, Requests
    <3> QED BY <1>1, <2>3, <3>3, <3>5, <3>6
  <2> QED BY <2>1, <2>2, <2>3 DEF SpeechModes
<1>3. /\ \A r \in Requests : hnd[r] = NoHandle /\ hnd[r].th = "none" /\ ~hnd[r].discarded
      /\ \A r \in Requests : srv[r] = NoStream /\ srv[r].pc = "none"
      /\ hnd \in [Requests -> Handles] /\ srv \in [Requests -> ServerStreams]
  <2>1. NoHandle \in Handles /\ NoHandle.th = "none" /\ ~NoHandle.discarded
    BY <1>1 DEF NoHandle, Handles, Threads
  <2>2. NoStream \in ServerStreams /\ NoStream.pc = "none"
    BY <1>1 DEF NoStream, ServerStreams, Streams
  <2> QED BY <2>1, <2>2
<1>4. /\ gen \in Generators /\ gen.next = 1
      /\ gen.pc = IF mode = "stream" THEN "generate" ELSE "off"
  BY <1>1 DEF Generators
<1>5. /\ pl \in Players /\ pl.pc = (IF mode = "stream" THEN "wait" ELSE "off")
      /\ pl.join = 0 /\ ~pl.cut /\ ~pl.deferred /\ ~pl.failed /\ ~pl.finished /\ pl.played = <<>>
  <2>1. <<>> \in Seq(Results)
    OBVIOUS
  <2> QED BY <1>1, <2>1 DEF Players, PlayerPcs
<1>6. /\ sink \in Sinks /\ sink.pc = "none" /\ sink.buf = <<>>
      /\ \A r \in Requests : sink.heard[r] = 0
  <2>1. <<>> \in Seq(Requests) /\ [r \in Requests |-> 0] \in [Requests -> 0..Chunks]
    BY <1>1
  <2> QED BY <2>1 DEF Silent, Sinks
<1>7. /\ mode \in SpeechModes /\ pending = {} /\ failures = 0
      /\ reported \in [Requests -> {"nothing", "played", "cut", "released"}]
      /\ \A r \in Requests : reported[r] = "nothing"
  OBVIOUS
<1> HIDE DEF SpeechInit
<1>8. SpeechOK
  BY <1>1, <1>2, <1>3, <1>4, <1>5, <1>6, <1>7 DEF SpeechOK
<1>9. QueueShape
  BY <1>2, <1>5 DEF QueueShape, Busy
<1>10. SinkShape /\ TurnShape
  BY <1>4, <1>5, <1>6 DEF SinkShape, TurnShape, PlayerAt
<1>11. ASSUME NEW r \in Requests PROVE HandleShape(r) /\ WriteShape(r) /\ ResultShape(r)
  <2>1. Written(r) = 0
    <3>1. Occurs(sink.buf, r) = 0
      BY <1>6, OccursEmpty
    <3> QED BY <1>6, <3>1 DEF Written
  <2>2. ~InPlay(r) /\ ~Draining
    BY <1>5 DEF InPlay, Busy, Draining
  <2>3. HandleShape(r)
    BY <1>3, <2>2 DEF HandleShape
  <2>4. WriteShape(r)
    BY <1>1, <1>3, <2>1, <2>2 DEF WriteShape
  <2>5. ResultShape(r)
    BY <1>2, <1>5, <1>7, <2>2 DEF ResultShape, PlayerAt
  <2> QED BY <2>3, <2>4, <2>5
<1> QED BY <1>8, <1>9, <1>10, <1>11 DEF HeardInv, SpeechInv

\* A step that changes nothing.
LEMMA SpeechStutters == ASSUME HeardInv, UNCHANGED speechVars PROVE HeardInv'
<1>1. UNCHANGED <<mode, queue, hnd, srv, pending, gen, pl, sink, reported, failures>>
  BY DEF speechVars
<1>2. pending' \subseteq Requests /\ failures' \in 0..MaxFailures
  BY <1>1 DEF HeardInv, SpeechOK
<1> QED BY <1>1, <1>2, MovesNot, MovesKeep

\* Every step keeps the invariant.
LEMMA SpeechStep == ASSUME HeardInv, [SpeechNext]_speechVars PROVE HeardInv'
<1>1. ASSUME NEW r \in Requests, Handle(r) PROVE HeardInv'
  BY <1>1, SubmitRequestInv, ReadChunkInv, ReadDoneInv, ReadFailsInv DEF Handle
<1>2. ASSUME NEW r \in Requests, Server(r) PROVE HeardInv'
  BY <1>2, AcceptStreamInv, TakeModelInv, SynthesizeInv, EmitChunkInv DEF Server
<1>3. CASE Player
  BY <1>3, StartDrainInv, PlayerWaitsInv, TakeHeadInv, ProgressInv, InterruptWaitInv,
     ProgressTimesOutInv, WriteChunkInv, InterruptWriteInv, WriteFailsInv, DiscardInv,
     FinishItemInv, ItemRaisesInv, CloseSinkInv, FlushSinkInv, ReportInv, DrainRaisesInv,
     ClearOneInv, ClearQueueInv, ClearRaisesInv, ReleaseClaimsInv DEF Player
<1>4. CASE Generator
  BY <1>4, GenerateTextInv, GenerationEndsInv, JoinPlayerInv DEF Generator
<1>5. CASE Sounds
  BY <1>5, SoundsInv
<1>6. CASE ForgetCancellation
  BY <1>6, ForgetCancellationInv
<1>7. CASE UNCHANGED speechVars
  BY <1>7, SpeechStutters
<1> QED BY <1>1, <1>2, <1>3, <1>4, <1>5, <1>6, <1>7 DEF SpeechNext

\* The types and the shapes hold throughout a turn, for any number of requests and chunks.
THEOREM SpeechInvariant == SpeechSpec => []HeardInv
<1>1. SpeechInit => HeardInv
  BY HeardInitially
<1>2. HeardInv /\ [SpeechNext]_speechVars => HeardInv'
  BY SpeechStep
<1> QED BY <1>1, <1>2, PTL DEF SpeechSpec

\* The state of the spoken output keeps its shape.
THEOREM SpeechTyped == SpeechSpec => []SpeechOK
<1>1. HeardInv => SpeechOK
  BY DEF HeardInv
<1> QED BY <1>1, SpeechInvariant, PTL

\* The invariant says what the two safety properties say.
LEMMA HeardSafe == ASSUME HeardInv PROVE PlayedIsHeard /\ TurnLeavesNothing
<1>1. PlayedIsHeard
  BY PlayerTyped DEF PlayedIsHeard, ResultShape
<1>2. ASSUME TurnOver, ~pl.jammed
      PROVE  /\ queue = <<>>
             /\ \A r \in Requests : /\ hnd[r].th = "none" \/ Ended(r)
                                    /\ mode = "announce" => reported[r] # "nothing"
                                    /\ reported[r] = "played" => ~srv[r].files
  <2>1. queue = <<>>
    BY <1>2, PlayerTyped DEF TurnShape, TurnOver, PlayerAt
  <2>2. \A r \in Requests : ~Queued(r)
    BY <2>1 DEF Queued
  <2> QED BY <1>2, <2>1, <2>2, PlayerTyped DEF TurnOver, HandleShape, ResultShape
<1> QED BY <1>1, <1>2 DEF TurnLeavesNothing

\* on_played(interrupted=False) is called only for a request whose every chunk pw-play
\* played, unless the user barged in: whatever part failed, however often.
THEOREM HeardWhatWasReported == SpeechSpec => []PlayedIsHeard
<1>1. HeardInv => PlayedIsHeard
  BY HeardSafe
<1> QED BY <1>1, SpeechInvariant, PTL

\* play_response, play_streamed_response and _play_pending_announcements leave no queued
\* request, no running handle, no unreported announcement and no file of what was played,
\* unless a handle did not stop when it was discarded.
THEOREM NothingLeftBehind == SpeechSpec => []TurnLeavesNothing
<1>1. HeardInv => TurnLeavesNothing
  BY HeardSafe
<1> QED BY <1>1, SpeechInvariant, PTL
=============================================================================
