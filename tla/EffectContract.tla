--------------------------- MODULE EffectContract ---------------------------
(***************************************************************************)
(* What the durable outbox promises about one effect that must not be      *)
(* repeated, without leases, executors or retries: it is sent at most      *)
(* once; its outcome is recorded once; "failed" promises it was not and    *)
(* will not be sent, "succeeded" that it was, "unknown" promises nothing   *)
(* (and the effect may still be on its way); a recorded outcome is in turn *)
(* handed to the job.  Abstract specification of Outbox.                   *)
(***************************************************************************)
EXTENDS Naturals

CONSTANT Effects

VARIABLES
    outcome,   \* "none", "open", "succeeded", "failed" or "unknown"
    sent,      \* the provider was called
    consumed   \* the outcome was handed to the job

vars == <<outcome, sent, consumed>>

Init == /\ outcome = [e \in Effects |-> "none"]
        /\ sent = [e \in Effects |-> 0]
        /\ consumed = [e \in Effects |-> FALSE]

Admit(e) == /\ outcome[e] = "none"
            /\ outcome' = [outcome EXCEPT ![e] = "open"]
            /\ UNCHANGED <<sent, consumed>>

Send(e) == /\ outcome[e] \in {"open", "unknown"} /\ sent[e] = 0
           /\ sent' = [sent EXCEPT ![e] = 1]
           /\ UNCHANGED <<outcome, consumed>>

\* One transaction may settle several effects (the reaper, the sweep of stale rows).
Settle == \E S \in SUBSET Effects, o \in [Effects -> {"succeeded", "failed", "unknown"}] :
    /\ S # {}
    /\ \A e \in S : /\ outcome[e] = "open"
                    /\ o[e] = "succeeded" => sent[e] = 1
                    /\ o[e] = "failed" => sent[e] = 0
    /\ outcome' = [e \in Effects |-> IF e \in S THEN o[e] ELSE outcome[e]]
    /\ UNCHANGED <<sent, consumed>>

Consume(e) == /\ outcome[e] \in {"succeeded", "failed", "unknown"}
              /\ consumed' = [consumed EXCEPT ![e] = TRUE]
              /\ UNCHANGED <<outcome, sent>>

Next == Settle \/ \E e \in Effects : Admit(e) \/ Send(e) \/ Consume(e)

Spec == Init /\ [][Next]_vars
=============================================================================
