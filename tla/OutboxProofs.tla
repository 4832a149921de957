---------------------------- MODULE OutboxProofs ----------------------------
(***************************************************************************)
(* Machine-checked safety of Outbox, for any jobs, executors and bounds.   *)
(*                                                                         *)
(* The invariant is TypeOK together with SafetyInv.  The lemmas Keep... and *)
(* CommitKeeps say which parts of it a step that touches only some         *)
(* variables preserves; then one lemma per action; then the theorems.      *)
(* StepKinds sorts the steps by what they do to an outcome, which is what  *)
(* exclusion per target, finality and the refinement need.                 *)
(***************************************************************************)
EXTENDS Outbox, TLAPS

\* The inductive invariant: types, and the shapes of leases, fences and results.
Inv == TypeOK /\ SafetyInv

\* A step that leaves rows, executors and calls alone keeps the execution shapes.
LEMMA KeepExecution ==
    ASSUME Inv, UNCHANGED <<outbox, exec, calls>>
    PROVE  LeaseShape' /\ ExecShape' /\ FenceShape' /\ CallShape'
  BY DEF Inv, SafetyInv, LeaseShape, ExecShape, FenceShape, CallShape, Row, At

\* A step that leaves the jobs and the identity of the rows alone keeps admissions.
LEMMA KeepAdmission ==
    ASSUME Inv, UNCHANGED jobVars,
           \A e \in Effects : /\ outbox'[e].job = outbox[e].job
                              /\ outbox'[e].worker = outbox[e].worker
                              /\ outbox'[e].expected = outbox[e].expected
                              /\ outbox'[e].status = "absent" <=> outbox[e].status = "absent"
    PROVE  AdmissionShape' /\ \A e \in Effects : Settled(e) => Settled(e)'
<1> USE DEF Inv, SafetyInv, jobVars
<1>1. ASSUME NEW e \in Effects
      PROVE  Accepts(outbox[e].job, e)' <=> Accepts(outbox[e].job, e)
  BY DEF Accepts
<1>2. ASSUME NEW j \in Jobs PROVE JobShape(j)'
  <2>1. turn[j] # 0 => turn[j] \in Effects
    BY OutboxConstants DEF TypeOK, Effects
  <2>2. JobShape(j)
    BY DEF AdmissionShape
  <2> QED BY <2>1, <2>2 DEF JobShape
<1>3. \A e \in Effects : AdmittedShape(e)'
  BY <1>1 DEF AdmissionShape, AdmittedShape
<1>4. \A e \in Effects : Settled(e) => Settled(e)'
  BY <1>1 DEF Settled
<1> QED BY <1>2, <1>3, <1>4 DEF AdmissionShape

\* A commit that does not admit an effect keeps admissions, and settled stays settled.
LEMMA CommitKeeps ==
    ASSUME Inv, NEW j \in Jobs, UNCHANGED outbox,
           rev' = [rev EXCEPT ![j] = @ + 1],
           \A i \in Jobs \ {j} : /\ op'[i] = op[i] /\ turn'[i] = turn[i]
                                 /\ worker'[i] = worker[i] /\ intent'[i] = intent[i],
           intent[j] => intent'[j],
           worker'[j] \in {worker[j], 0, rev[j] + 1},
           op'[j] = "submitting" => op[j] = "submitting" /\ turn'[j] = turn[j],
           turn'[j] = 0 => op'[j] = "planned",
           turn'[j] \in {0, turn[j]}
    PROVE  AdmissionShape' /\ \A e \in Effects : Settled(e) => Settled(e)'
<1>1. \A i \in Jobs : JobShape(i)'
  BY DEF Inv, SafetyInv, TypeOK, AdmissionShape, JobShape
<1>2. ASSUME NEW e \in Effects
      PROVE  AdmittedShape(e)' /\ (Settled(e) => Settled(e)')
  <2>1. /\ outbox[e].job \in Jobs
        /\ outbox[e].expected \in Nat /\ outbox[e].worker \in Nat
    BY DEF Inv, TypeOK, Rows
  <2>2. AdmittedShape(e)
    BY DEF Inv, SafetyInv, AdmissionShape
  <2>3. AdmittedShape(e)'
    BY <2>1, <2>2 DEF Inv, TypeOK, AdmittedShape, Accepts
  <2>4. Settled(e) => Settled(e)'
    BY <2>1, <2>2 DEF Inv, TypeOK, AdmittedShape, Accepts, Settled
  <2> QED BY <2>3, <2>4
<1> QED BY <1>1, <1>2 DEF AdmissionShape

\* Reductions survive a step that keeps what is settled and records no new one.
LEMMA KeepReduction ==
    ASSUME Inv, UNCHANGED <<events, applied>>,
           \A e \in Effects : Settled(e) => Settled(e)',
           \A e \in Effects : outbox'[e].consumed =>
               outbox[e].consumed \/ Settled(e),
           \A x \in Executors : At(x, "marking")' =>
               \/ At(x, "marking") /\ exec'[x].effect = exec[x].effect
               \/ exec'[x].effect \in Effects /\ Settled(exec'[x].effect)
    PROVE  ReductionShape'
<1>1. \A e \in Effects : /\ applied'[e] > 0 => applied'[e] = 1 /\ Settled(e)'
                         /\ events'[e] # {} => Settled(e)'
                         /\ outbox'[e].consumed => Settled(e)'
  BY DEF Inv, SafetyInv, ReductionShape
<1>2. ASSUME NEW x \in Executors, At(x, "marking")'
      PROVE  Settled(exec[x].effect)'
  <2>1. CASE At(x, "marking") /\ exec'[x].effect = exec[x].effect
    <3>1. exec[x].effect \in Effects /\ Settled(exec[x].effect)
      BY <2>1 DEF Inv, SafetyInv, ReductionShape, ExecShape, At, Consuming
    <3>2. ASSUME NEW e \in Effects, Settled(e), exec'[x].effect = e
          PROVE  Settled(exec[x].effect)'
      BY <3>2 DEF Settled, Accepts
    <3> QED BY <2>1, <3>1, <3>2
  <2>2. CASE exec'[x].effect \in Effects /\ Settled(exec'[x].effect)
    BY <2>2 DEF Settled, Accepts
  <2> QED BY <1>2, <2>1, <2>2
<1> QED BY <1>1, <1>2 DEF ReductionShape

\* What Return leaves in the executor's locals.
LEMMA ReturnEffect ==
    ASSUME TypeOK, NEW x \in Executors, NEW o \in Observations, Return(x, o)
    PROVE  /\ exec' \in [Executors -> Locals]
           /\ \A y \in Executors : y # x => exec'[y] = exec[y]
           /\ exec'[x].pc = "returned" /\ exec'[x].obs = o
           /\ exec'[x].effect = exec[x].effect /\ exec'[x].lease = exec[x].lease
<1>1. exec' = [exec EXCEPT ![x] = [exec[x] EXCEPT !.pc = "returned", !.obs = o]]
  BY DEF Return, TypeOK
<1>2. exec[x] \in Locals
  BY DEF TypeOK
<1>3. [exec[x] EXCEPT !.pc = "returned", !.obs = o] \in Locals
  BY <1>2 DEF Locals, Pcs
<1> QED BY <1>1, <1>2, <1>3 DEF TypeOK, Locals

\* What Goto leaves in the executor's locals.
LEMMA GotoEffect ==
    ASSUME TypeOK, NEW x \in Executors, NEW p \in Pcs, Goto(x, p)
    PROVE  /\ exec' \in [Executors -> Locals]
           /\ \A y \in Executors : y # x => exec'[y] = exec[y]
           /\ exec'[x].pc = p /\ exec'[x].obs = exec[x].obs
           /\ exec'[x].effect = exec[x].effect /\ exec'[x].lease = exec[x].lease
           /\ exec'[x].tries = exec[x].tries
<1>1. exec' = [exec EXCEPT ![x] = [exec[x] EXCEPT !.pc = p]]
  BY DEF Goto, TypeOK
<1>2. exec[x] \in Locals
  BY DEF TypeOK
<1>3. [exec[x] EXCEPT !.pc = p] \in Locals
  BY <1>2 DEF Locals
<1> QED BY <1>1, <1>2, <1>3 DEF TypeOK, Locals

(* The commands on a job. *)

\* A command that touches only the job, and admits nothing, keeps the invariant.
LEMMA CommandKeeps ==
    ASSUME Inv, NEW j \in Jobs, TypeOK',
           UNCHANGED <<outbox, exec, calls, events, applied>>,
           rev' = [rev EXCEPT ![j] = @ + 1],
           \A i \in Jobs \ {j} : /\ op'[i] = op[i] /\ turn'[i] = turn[i]
                                 /\ worker'[i] = worker[i] /\ intent'[i] = intent[i],
           intent[j] => intent'[j],
           worker'[j] \in {worker[j], 0, rev[j] + 1},
           op'[j] = "submitting" => op[j] = "submitting" /\ turn'[j] = turn[j],
           turn'[j] = 0 => op'[j] = "planned",
           turn'[j] \in {0, turn[j]}
    PROVE  Inv'
<1>1. LeaseShape' /\ ExecShape' /\ FenceShape' /\ CallShape'
  BY KeepExecution
<1>2. AdmissionShape' /\ \A e \in Effects : Settled(e) => Settled(e)'
  BY CommitKeeps
<1>3. ReductionShape'
  BY <1>2, KeepReduction DEF At, Inv, SafetyInv, ReductionShape
<1> QED BY <1>1, <1>2, <1>3 DEF Inv, SafetyInv

\* No turn is named only while nothing is planned but the next prompt.
LEMMA UnnamedIsPlanned ==
    ASSUME Inv, NEW j \in Jobs PROVE turn[j] = 0 => op[j] = "planned"
  BY DEF Inv, SafetyInv, AdmissionShape, JobShape

\* A fresh worker token is newer than every admitted one.
LEMMA ClaimWorkerInv == ASSUME Inv, NEW j \in Jobs, ClaimWorker(j) PROVE Inv'
<1> USE DEF ClaimWorker, Commit
<1>1. TypeOK'
  BY OutboxConstants DEF Inv, TypeOK
<1> QED BY <1>1, CommandKeeps, UnnamedIsPlanned DEF Inv, TypeOK

\* Dropping a worker only closes fences to its results.
LEMMA ReleaseDeadWorkerInv == ASSUME Inv, NEW j \in Jobs, ReleaseDeadWorker(j) PROVE Inv'
<1> USE DEF ReleaseDeadWorker, Commit
<1>1. TypeOK'
  BY OutboxConstants DEF Inv, TypeOK
<1> QED BY <1>1, CommandKeeps, UnnamedIsPlanned DEF Inv, TypeOK

\* An unrelated commit makes admissions stale.
LEMMA TouchInv == ASSUME Inv, NEW j \in Jobs, Touch(j) PROVE Inv'
<1> USE DEF Touch, Commit
<1>1. TypeOK'
  BY OutboxConstants DEF Inv, TypeOK
<1> QED BY <1>1, CommandKeeps, UnnamedIsPlanned DEF Inv, TypeOK

\* A terminal intent closes the open fence.
LEMMA StageTerminalIntentInv == ASSUME Inv, NEW j \in Jobs, StageTerminalIntent(j) PROVE Inv'
<1>1. PICK w \in {worker[j], 0} : worker' = [worker EXCEPT ![j] = w]
  BY DEF StageTerminalIntent
<1>2. /\ rev' = [rev EXCEPT ![j] = @ + 1] /\ intent' = [intent EXCEPT ![j] = TRUE]
      /\ UNCHANGED <<op, turn, user, outbox, exec, events, calls, applied, crashes>>
  BY DEF StageTerminalIntent, Commit
<1>3. TypeOK'
  BY <1>1, <1>2 DEF Inv, TypeOK
<1> QED BY <1>1, <1>2, <1>3, CommandKeeps, UnnamedIsPlanned DEF Inv, TypeOK

\* A takeover closes the open fence.
LEMMA RelinquishInv == ASSUME Inv, NEW j \in Jobs, Relinquish(j) PROVE Inv'
<1> USE DEF Relinquish, Commit
<1>1. TypeOK'
  BY OutboxConstants DEF Inv, TypeOK
<1> QED BY <1>1, CommandKeeps, UnnamedIsPlanned DEF Inv, TypeOK

\* Handing the session back opens no fence.
LEMMA ResumeInv == ASSUME Inv, NEW j \in Jobs, Resume(j) PROVE Inv'
<1> USE DEF Resume, Commit
<1>1. TypeOK'
  BY OutboxConstants DEF Inv, TypeOK
<1> QED BY <1>1, CommandKeeps, UnnamedIsPlanned DEF Inv, TypeOK

\* Recovery closes the fence of an unknown effect.
LEMMA ReconcilePromptInv == ASSUME Inv, NEW j \in Jobs, ReconcilePrompt(j) PROVE Inv'
<1> USE DEF ReconcilePrompt, Commit
<1>1. TypeOK'
  BY OutboxConstants DEF Inv, TypeOK
<1> QED BY <1>1, CommandKeeps, UnnamedIsPlanned DEF Inv, TypeOK

\* The operator's answer never reopens a fence.
LEMMA ResolveManualInv == ASSUME Inv, NEW j \in Jobs, ResolveManual(j) PROVE Inv'
<1> USE DEF ResolveManual, Commit
<1>1. TypeOK'
  BY OutboxConstants DEF Inv, TypeOK
<1> QED BY <1>1, CommandKeeps, UnnamedIsPlanned DEF Inv, TypeOK

\* The next turn names no effect yet.
LEMMA NextTurnInv == ASSUME Inv, NEW j \in Jobs, NextTurn(j) PROVE Inv'
<1> USE DEF NextTurn, Commit
<1>1. TypeOK'
  BY OutboxConstants DEF Inv, TypeOK
<1> QED BY <1>1, CommandKeeps, UnnamedIsPlanned DEF Inv, TypeOK

(* The steps of an executor. *)

\* An exception leaves the row as the fence left it.
LEMMA HandlerRaisesInv == ASSUME Inv, NEW x \in Executors, HandlerRaises(x) PROVE Inv'
<1> USE OutboxConstants DEF Inv, SafetyInv, HandlerRaises, Goto, Return, At, Row, jobVars, Others
<1>0. exec[x].effect \in Effects
  BY DEF ExecShape, Draining, InHandler
<1>1. TypeOK'
  <2>1. exec' \in [Executors -> Locals]
    BY GotoEffect DEF Pcs, InHandler
  <2> QED BY <2>1, <1>0 DEF TypeOK
<1>2. LeaseShape'
  BY <1>0 DEF LeaseShape, TypeOK, Rows
<1>3. ExecShape'
  BY <1>0 DEF ExecShape, TypeOK, Rows, Locals, Draining, Consuming, InHandler, Terminal
<1>4. FenceShape'
  BY <1>0 DEF FenceShape, ExecShape, LeaseShape, CallShape, TypeOK, Rows, Locals, Draining, InHandler
<1>5. CallShape'
  BY <1>0 DEF CallShape, FenceShape, ExecShape, LeaseShape, Draining, InHandler, TypeOK, Rows
<1>6. AdmissionShape' /\ \A e \in Effects : Settled(e) => Settled(e)'
  BY <1>0, KeepAdmission DEF TypeOK, Rows
<1>7. ReductionShape'
  BY <1>0, <1>6, KeepReduction DEF TypeOK, Rows, Locals
<1> QED BY <1>1, <1>2, <1>3, <1>4, <1>5, <1>6, <1>7

\* A refused mark leaves the row unfenced by this lease.
LEMMA MarkRefusedInv == ASSUME Inv, NEW x \in Executors, MarkRefused(x) PROVE Inv'
<1> USE OutboxConstants DEF Inv, SafetyInv, MarkRefused, Goto, Return, At, Row, CanMark, jobVars, Others
<1>0. exec[x].effect \in Effects
  BY DEF ExecShape, Draining, InHandler
<1>1. TypeOK'
  <2>1. exec' \in [Executors -> Locals]
    BY GotoEffect DEF Pcs, InHandler
  <2> QED BY <2>1, <1>0 DEF TypeOK
<1>2. LeaseShape'
  BY <1>0 DEF LeaseShape, TypeOK, Rows
<1>3. ExecShape'
  BY <1>0 DEF ExecShape, TypeOK, Rows, Locals, Draining, Consuming, InHandler, Terminal
<1>4. FenceShape'
  BY <1>0 DEF FenceShape, ExecShape, LeaseShape, CallShape, TypeOK, Rows, Locals, Draining, InHandler
<1>5. CallShape'
  BY <1>0 DEF CallShape, FenceShape, ExecShape, LeaseShape, Draining, InHandler, TypeOK, Rows
<1>6. AdmissionShape' /\ \A e \in Effects : Settled(e) => Settled(e)'
  BY <1>0, KeepAdmission DEF TypeOK, Rows
<1>7. ReductionShape'
  BY <1>0, <1>6, KeepReduction DEF TypeOK, Rows, Locals
<1> QED BY <1>1, <1>2, <1>3, <1>4, <1>5, <1>6, <1>7

\* The call is the first one: its row was fenced and never called.
LEMMA CallProviderInv == ASSUME Inv, NEW x \in Executors, CallProvider(x) PROVE Inv'
<1> USE OutboxConstants DEF Inv, SafetyInv, CallProvider, Goto, Return, At, Row, jobVars, Others
<1>0. exec[x].effect \in Effects
  BY DEF ExecShape, Draining, InHandler
<1>1. TypeOK'
  <2>1. exec' \in [Executors -> Locals]
    BY GotoEffect DEF Pcs, InHandler
  <2> QED BY <2>1, <1>0 DEF TypeOK
<1>2. LeaseShape'
  BY <1>0 DEF LeaseShape, TypeOK, Rows
<1>3. ExecShape'
  BY <1>0 DEF ExecShape, TypeOK, Rows, Locals, Draining, Consuming, InHandler, Terminal
<1>4. FenceShape'
  BY <1>0 DEF FenceShape, ExecShape, LeaseShape, CallShape, TypeOK, Rows, Locals, Draining, InHandler
<1>5. CallShape'
  BY <1>0 DEF CallShape, FenceShape, ExecShape, LeaseShape, Draining, InHandler, TypeOK, Rows
<1>6. AdmissionShape' /\ \A e \in Effects : Settled(e) => Settled(e)'
  BY <1>0, KeepAdmission DEF TypeOK, Rows
<1>7. ReductionShape'
  BY <1>0, <1>6, KeepReduction DEF TypeOK, Rows, Locals
<1> QED BY <1>1, <1>2, <1>3, <1>4, <1>5, <1>6, <1>7

\* Confirmation follows a call.
LEMMA HandlerConfirmsInv == ASSUME Inv, NEW x \in Executors, HandlerConfirms(x) PROVE Inv'
<1> USE OutboxConstants DEF Inv, SafetyInv, HandlerConfirms, Goto, Return, At, Row, jobVars, Others
<1>0. exec[x].effect \in Effects
  BY DEF ExecShape, Draining, InHandler
<1>1. TypeOK'
  <2>1. exec' \in [Executors -> Locals]
    BY ReturnEffect DEF Observations
  <2> QED BY <2>1, <1>0 DEF TypeOK
<1>2. LeaseShape'
  BY <1>0 DEF LeaseShape, TypeOK, Rows
<1>3. ExecShape'
  BY <1>0 DEF ExecShape, TypeOK, Rows, Locals, Draining, Consuming, InHandler, Terminal
<1>4. FenceShape'
  BY <1>0 DEF FenceShape, ExecShape, LeaseShape, CallShape, TypeOK, Rows, Locals, Draining, InHandler
<1>5. CallShape'
  BY <1>0 DEF CallShape, FenceShape, ExecShape, LeaseShape, Draining, InHandler, TypeOK, Rows
<1>6. AdmissionShape' /\ \A e \in Effects : Settled(e) => Settled(e)'
  BY <1>0, KeepAdmission DEF TypeOK, Rows
<1>7. ReductionShape'
  BY <1>0, <1>6, KeepReduction DEF TypeOK, Rows, Locals
<1> QED BY <1>1, <1>2, <1>3, <1>4, <1>5, <1>6, <1>7

\* The fence is set by the one executor that holds the running lease.
LEMMA MarkDispatchedInv == ASSUME Inv, NEW x \in Executors, MarkDispatched(x) PROVE Inv'
<1> USE OutboxConstants DEF Inv, SafetyInv, MarkDispatched, Goto, Return, At, Row, CanMark, jobVars, Others
<1>0. exec[x].effect \in Effects
  BY DEF ExecShape, Draining, InHandler
<1>1. TypeOK'
  <2>1. outbox' \in [Effects -> Rows]
    <3>1. outbox' = [outbox EXCEPT ![exec[x].effect] = [@ EXCEPT !.fence = TRUE]]
      OBVIOUS
    <3>2. outbox \in [Effects -> Rows]
      BY DEF TypeOK
    <3>3. [outbox[exec[x].effect] EXCEPT !.fence = TRUE] \in Rows
      BY <1>0, <3>2 DEF Rows
    <3> QED BY ONLY <1>0, <3>1, <3>2, <3>3
  <2>2. exec' \in [Executors -> Locals]
    BY GotoEffect DEF Pcs, InHandler
  <2> QED BY <2>1, <2>2 DEF TypeOK
<1>2. LeaseShape'
  BY <1>0 DEF LeaseShape, TypeOK, Rows
<1>3. ExecShape'
  BY <1>0 DEF ExecShape, TypeOK, Rows, Locals, Draining, Consuming, InHandler, Terminal
<1>4. FenceShape'
  BY SMTT(20), <1>0 DEF FenceShape, ExecShape, LeaseShape, CallShape, TypeOK, Rows, Locals, Draining, InHandler
<1>5. CallShape'
  BY <1>0 DEF CallShape, FenceShape, ExecShape, LeaseShape, Draining, InHandler, TypeOK, Rows
<1>6. AdmissionShape' /\ \A e \in Effects : Settled(e) => Settled(e)'
  BY <1>0, KeepAdmission DEF TypeOK, Rows
<1>7. ReductionShape'
  BY <1>0, <1>6, KeepReduction DEF TypeOK, Rows, Locals
<1> QED BY <1>1, <1>2, <1>3, <1>4, <1>5, <1>6, <1>7

\* Renewal changes only the age of the lease.
LEMMA RenewInv == ASSUME Inv, NEW x \in Executors, Renew(x) PROVE Inv'
<1> USE OutboxConstants DEF Inv, SafetyInv, Renew, Goto, Return, At, Row, jobVars, Others
<1>0. exec[x].effect \in Effects
  BY DEF ExecShape, Draining, InHandler
<1>1. TypeOK'
  <2>1. outbox' \in [Effects -> Rows]
    <3>1. outbox' = [outbox EXCEPT ![exec[x].effect] =
                         [outbox[exec[x].effect] EXCEPT !.expired = FALSE]]
      BY <1>0 DEF TypeOK
    <3>2. outbox[exec[x].effect] \in Rows
      BY <1>0 DEF TypeOK
    <3>3. [outbox[exec[x].effect] EXCEPT !.expired = FALSE] \in Rows
      BY <3>2 DEF Rows
    <3> QED BY <1>0, <3>1, <3>3 DEF TypeOK
  <2> QED BY <2>1 DEF TypeOK
<1>2. LeaseShape'
  BY <1>0 DEF LeaseShape, TypeOK, Rows
<1>3. ExecShape'
  BY <1>0 DEF ExecShape, TypeOK, Rows, Locals, Draining, Consuming, InHandler, Terminal
<1>4. FenceShape'
  BY <1>0 DEF FenceShape, ExecShape, LeaseShape, CallShape, TypeOK, Rows, Locals, Draining, InHandler
<1>5. CallShape'
  BY <1>0 DEF CallShape, FenceShape, ExecShape, LeaseShape, Draining, InHandler, TypeOK, Rows
<1>6. AdmissionShape' /\ \A e \in Effects : Settled(e) => Settled(e)'
  BY <1>0, KeepAdmission DEF TypeOK, Rows
<1>7. ReductionShape'
  BY <1>0, <1>6, KeepReduction DEF TypeOK, Rows, Locals
<1> QED BY <1>1, <1>2, <1>3, <1>4, <1>5, <1>6, <1>7

\* A crash forgets the locals of one executor.
LEMMA CrashInv == ASSUME Inv, NEW x \in Executors, Crash(x) PROVE Inv'
<1> USE OutboxConstants DEF Inv, SafetyInv, Crash, Finish, Idle, At, Row, jobVars, Others
<1>0. TRUE
  OBVIOUS
<1>1. TypeOK'
  BY DEF TypeOK, Locals, Pcs, InHandler, Observations
<1>2. LeaseShape'
  BY <1>0 DEF LeaseShape, TypeOK, Rows
<1>3. ExecShape'
  BY <1>0 DEF ExecShape, TypeOK, Rows, Locals, Draining, Consuming, InHandler, Terminal
<1>4. FenceShape'
  BY <1>0 DEF FenceShape, ExecShape, LeaseShape, CallShape, TypeOK, Rows, Locals, Draining, InHandler
<1>5. CallShape'
  BY <1>0 DEF CallShape, FenceShape, ExecShape, LeaseShape, Draining, InHandler, TypeOK, Rows
<1>6. AdmissionShape' /\ \A e \in Effects : Settled(e) => Settled(e)'
  BY <1>0, KeepAdmission DEF TypeOK, Rows
<1>7. ReductionShape'
  BY <1>0, <1>6, KeepReduction DEF TypeOK, Rows, Locals
<1> QED BY <1>1, <1>2, <1>3, <1>4, <1>5, <1>6, <1>7

\* Asking for a retry is remembered, not acted on.
LEMMA HandlerDeclinesInv == ASSUME Inv, NEW x \in Executors, HandlerDeclines(x) PROVE Inv'
<1> USE OutboxConstants DEF Inv, SafetyInv, jobVars, Others, At, Row
<1>0. exec[x].effect \in Effects /\ exec[x].pc \in Draining
  BY DEF HandlerDeclines, ExecShape, Draining, InHandler
<1>a. /\ UNCHANGED <<jobVars, outbox, calls, Others>>
      /\ exec' \in [Executors -> Locals]
      /\ \A y \in Executors : y # x => exec'[y] = exec[y]
      /\ exec'[x].effect = exec[x].effect /\ exec'[x].lease = exec[x].lease
  BY ReturnEffect DEF HandlerDeclines, Observations
<1>b. exec'[x].pc = "returned" /\ exec'[x].obs \in {"Retry", "Unknown"}
  BY ReturnEffect DEF HandlerDeclines, Observations
<1>1. TypeOK'
  BY <1>a DEF TypeOK
<1>2. LeaseShape'
  BY <1>a DEF LeaseShape
<1>3. ExecShape'
  BY <1>0, <1>a, <1>b DEF ExecShape, Draining, Consuming, InHandler
<1>4. FenceShape'
  BY <1>0, <1>a, <1>b DEF FenceShape
<1>5. CallShape'
  BY <1>a DEF CallShape
<1>6. AdmissionShape' /\ \A e \in Effects : Settled(e) => Settled(e)'
  BY <1>a, KeepAdmission
<1>7. ReductionShape'
  BY <1>a, <1>b, <1>6, KeepReduction
<1> QED BY <1>1, <1>2, <1>3, <1>4, <1>5, <1>6, <1>7

\* Failure is reported only for a lease that was not fenced.
LEMMA ClassifyRefusalInv == ASSUME Inv, NEW x \in Executors, ClassifyRefusal(x) PROVE Inv'
<1> USE OutboxConstants DEF Inv, SafetyInv, jobVars, Others, At, Row
<1>0. exec[x].effect \in Effects /\ exec[x].pc \in Draining
  BY DEF ClassifyRefusal, ExecShape, Draining, InHandler
<1>a. /\ UNCHANGED <<jobVars, outbox, calls, Others>>
      /\ exec' \in [Executors -> Locals]
      /\ \A y \in Executors : y # x => exec'[y] = exec[y]
      /\ exec'[x].effect = exec[x].effect /\ exec'[x].lease = exec[x].lease
  BY ReturnEffect, GotoEffect DEF ClassifyRefusal, Pcs, Observations
<1>b. /\ exec[x].pc = "unmarked"
      /\ \/ exec'[x].pc = "returned" /\ exec'[x].obs = "Failed"
         \/ exec'[x].pc = "raised"
  BY ReturnEffect, GotoEffect DEF ClassifyRefusal, Pcs, Observations
<1>1. TypeOK'
  BY <1>a DEF TypeOK
<1>2. LeaseShape'
  BY <1>a DEF LeaseShape
<1>3. ExecShape'
  BY <1>0, <1>a, <1>b DEF ExecShape, Draining, Consuming, InHandler
<1>4. FenceShape'
  BY <1>0, <1>a, <1>b DEF FenceShape
<1>5. CallShape'
  BY <1>a DEF CallShape
<1>6. AdmissionShape' /\ \A e \in Effects : Settled(e) => Settled(e)'
  BY <1>a, KeepAdmission
<1>7. ReductionShape'
  BY <1>a, <1>b, <1>6, KeepReduction
<1> QED BY <1>1, <1>2, <1>3, <1>4, <1>5, <1>6, <1>7

\* Release is tried only when this lease was not fenced.
LEMMA CheckDispatchedInv == ASSUME Inv, NEW x \in Executors, CheckDispatched(x) PROVE Inv'
<1> USE OutboxConstants DEF Inv, SafetyInv, jobVars, Others, At, Row
<1>0. exec[x].effect \in Effects /\ exec[x].pc \in Draining
  BY DEF CheckDispatched, ExecShape, Draining, InHandler
<1>a. /\ UNCHANGED <<jobVars, outbox, calls, Others>>
      /\ exec' \in [Executors -> Locals]
      /\ \A y \in Executors : y # x => exec'[y] = exec[y]
      /\ exec'[x].effect = exec[x].effect /\ exec'[x].lease = exec[x].lease
  BY ReturnEffect, GotoEffect DEF CheckDispatched, Pcs, Observations
<1>b. \/ exec'[x].pc = "returned" /\ exec'[x].obs = "Unknown"
      \/ exec'[x].pc = "releasing" /\ ~Dispatched(x)
  BY ReturnEffect, GotoEffect DEF CheckDispatched, Pcs, Observations
<1>1. TypeOK'
  BY <1>a DEF TypeOK
<1>2. LeaseShape'
  BY <1>a DEF LeaseShape
<1>3. ExecShape'
  BY <1>0, <1>a, <1>b DEF ExecShape, Draining, Consuming, InHandler
<1>4. FenceShape'
  BY <1>0, <1>a, <1>b DEF FenceShape, Dispatched
<1>5. CallShape'
  BY <1>a DEF CallShape
<1>6. AdmissionShape' /\ \A e \in Effects : Settled(e) => Settled(e)'
  BY <1>a, KeepAdmission
<1>7. ReductionShape'
  BY <1>a, <1>b, <1>6, KeepReduction
<1> QED BY <1>1, <1>2, <1>3, <1>4, <1>5, <1>6, <1>7

\* Settling a running lease: what release, observation and the reaper have in common.
LEMMA CompleteKeeps ==
    ASSUME Inv, NEW e \in Effects, NEW s \in Statuses,
           outbox[e].status = "running",
           outbox' = [outbox EXCEPT ![e].status = s, ![e].lease = 0,
                                    ![e].fence = FALSE, ![e].expired = FALSE],
           s \in Terminal \/ (s = "failed-retryable" /\ outbox[e].attempts < MaxAttempts),
           outbox[e].fence => s \in {"succeeded", "unknown"},
           s = "succeeded" => calls[e] > 0
    PROVE  /\ outbox' \in [Effects -> Rows]
           /\ LeaseShape' /\ (UNCHANGED calls => CallShape')
           /\ \A f \in Effects : /\ outbox'[f].job = outbox[f].job
                                 /\ outbox'[f].worker = outbox[f].worker
                                 /\ outbox'[f].expected = outbox[f].expected
                                 /\ outbox'[f].attempts = outbox[f].attempts
                                 /\ outbox'[f].consumed = outbox[f].consumed
                                 /\ outbox'[f].status = "absent" <=> outbox[f].status = "absent"
                                 /\ f # e => outbox'[f] = outbox[f]
<1> USE OutboxConstants DEF Inv, SafetyInv
<1>1. outbox' \in [Effects -> Rows]
  <2>1. outbox' = [outbox EXCEPT ![e] = [outbox[e] EXCEPT !.status = s, !.lease = 0,
                                              !.fence = FALSE, !.expired = FALSE]]
    BY DEF TypeOK
  <2>2. outbox[e] \in Rows
    BY DEF TypeOK
  <2>3. [outbox[e] EXCEPT !.status = s, !.lease = 0, !.fence = FALSE, !.expired = FALSE] \in Rows
    <3>1. [outbox[e] EXCEPT !.status = s, !.lease = 0] \in Rows
      <4>1. 0 \in 0 .. MaxAttempts
        OBVIOUS
      <4> HIDE DEF Inv, SafetyInv
      <4> QED BY <2>2, <4>1 DEF Rows
    <3>2. \A r \in Rows : [r EXCEPT !.fence = FALSE, !.expired = FALSE] \in Rows
      BY DEF Rows
    <3>3. [outbox[e] EXCEPT !.status = s, !.lease = 0, !.fence = FALSE, !.expired = FALSE]
            = [[outbox[e] EXCEPT !.status = s, !.lease = 0] EXCEPT !.fence = FALSE, !.expired = FALSE]
      BY <2>2 DEF Rows
    <3> QED BY <3>1, <3>2, <3>3
  <2> QED BY <2>1, <2>3 DEF TypeOK
<1>2. LeaseShape'
  BY DEF LeaseShape, TypeOK, Rows, Terminal, Unleased
<1>3. UNCHANGED calls => CallShape'
  BY DEF CallShape, LeaseShape, TypeOK, Rows
<1>4. \A f \in Effects : /\ outbox'[f].job = outbox[f].job
                         /\ outbox'[f].worker = outbox[f].worker
                         /\ outbox'[f].expected = outbox[f].expected
                         /\ outbox'[f].attempts = outbox[f].attempts
                         /\ outbox'[f].consumed = outbox[f].consumed
                         /\ outbox'[f].status = "absent" <=> outbox[f].status = "absent"
                         /\ f # e => outbox'[f] = outbox[f]
  BY DEF TypeOK, Rows, Terminal
<1> QED BY <1>1, <1>2, <1>3, <1>4

\* Recording an observation settles the lease it came from, or nothing.
LEMMA ObserveOutboxInv == ASSUME Inv, NEW x \in Executors, ObserveOutbox(x) PROVE Inv'
<1> USE OutboxConstants DEF Inv, SafetyInv, jobVars, Others
<1> DEFINE e == exec[x].effect
           s == ObservedStatus(x)
<1>0. e \in Effects /\ exec[x].pc = "returned" /\ exec[x].lease # 0 /\ exec[x].lease \in Nat
  BY DEF ObserveOutbox, At, ExecShape, Draining, TypeOK, Locals
<1>a. /\ UNCHANGED <<jobVars, calls, Others>>
      /\ exec' = [exec EXCEPT ![x] = Idle]
      /\ outbox' = Complete(e, exec[x].lease, s)
  BY DEF ObserveOutbox, Finish
<1>b. exec' \in [Executors -> Locals]
  BY <1>a DEF TypeOK, Locals, Idle, Pcs, Observations
<1>c. exec'[x].pc = "idle" /\ \A y \in Executors : y # x => exec'[y] = exec[y]
  BY <1>a DEF TypeOK, Locals, Idle
<1>1. CASE outbox[e].status = "running" /\ outbox[e].lease = exec[x].lease
  <2>1. outbox' = [outbox EXCEPT ![e].status = s, ![e].lease = 0,
                                 ![e].fence = FALSE, ![e].expired = FALSE]
    BY <1>1, <1>a DEF Complete
  <2>2. /\ s \in Statuses
        /\ s \in Terminal \/ (s = "failed-retryable" /\ outbox[e].attempts < MaxAttempts)
        /\ outbox[e].fence => s \in {"succeeded", "unknown"}
        /\ s = "succeeded" => calls[e] > 0
    <3>1. /\ exec[x].obs \in {"Confirmed", "Unknown", "Failed", "Retry"}
          /\ exec[x].obs = "Failed" => ~outbox[e].fence
          /\ exec[x].obs = "Confirmed" => calls[e] > 0
      BY <1>0, <1>1 DEF FenceShape, At, Row, TypeOK, Locals, Observations
    <3>2. outbox[e].attempts = exec[x].lease
      BY <1>0, <1>1 DEF LeaseShape
    <3>3. exec[x].lease \in 0 .. MaxAttempts
      BY DEF TypeOK, Locals
    <3> QED BY <1>0, <3>1, <3>2, <3>3 DEF ObservedStatus, Row, Statuses, Terminal, Unleased
  <2>3. /\ outbox' \in [Effects -> Rows]
        /\ LeaseShape' /\ (UNCHANGED calls => CallShape')
        /\ \A f \in Effects : /\ outbox'[f].job = outbox[f].job
                              /\ outbox'[f].worker = outbox[f].worker
                              /\ outbox'[f].expected = outbox[f].expected
                              /\ outbox'[f].attempts = outbox[f].attempts
                              /\ outbox'[f].consumed = outbox[f].consumed
                              /\ outbox'[f].status = "absent" <=> outbox[f].status = "absent"
                              /\ f # e => outbox'[f] = outbox[f]
    BY <1>0, <1>1, <2>1, <2>2, CompleteKeeps
  <2>4. outbox'[e].status = s /\ outbox'[e].lease = 0 /\ outbox'[e].fence = FALSE
    BY <1>0, <2>1 DEF TypeOK, Rows
  <2>5. TypeOK'
    BY <1>a, <1>b, <2>3 DEF TypeOK
  <2>6. ExecShape'
    BY <1>a, <1>c, <1>0, <1>1, <2>3, <2>4 DEF ExecShape, Row, At, Draining, Consuming, InHandler, Terminal
  <2>7. FenceShape'
    <3>1. ASSUME NEW y \in Executors, y # x, exec[y].effect = e
          PROVE  exec[y].pc \notin {"fenced", "called"}
      BY <3>1, <1>0, <1>1 DEF FenceShape, ExecShape, LeaseShape, Row, Draining, InHandler
    <3> QED BY <1>a, <1>c, <1>0, <2>3, <2>4, <3>1 DEF FenceShape, ExecShape, Draining, InHandler, Row, At
  <2>8. AdmissionShape' /\ \A f \in Effects : Settled(f) => Settled(f)'
    BY <1>a, <2>3, KeepAdmission
  <2>9. ReductionShape'
    BY <1>a, <1>c, <2>3, <2>8, KeepReduction DEF At
  <2> QED BY <1>a, <2>3, <2>5, <2>6, <2>7, <2>8, <2>9
<1>2. CASE ~(outbox[e].status = "running" /\ outbox[e].lease = exec[x].lease)
  <2>1. outbox' = outbox
    BY <1>2, <1>a DEF Complete
  <2>2. TypeOK'
    BY <1>a, <1>b, <2>1 DEF TypeOK
  <2>3. LeaseShape' /\ CallShape'
    BY <1>a, <2>1 DEF LeaseShape, CallShape
  <2>4. ExecShape' /\ FenceShape'
    BY <1>a, <1>c, <2>1 DEF ExecShape, FenceShape, Row, At, Draining, Consuming, InHandler
  <2>5. AdmissionShape' /\ \A f \in Effects : Settled(f) => Settled(f)'
    BY <1>a, <2>1, KeepAdmission
  <2>6. ReductionShape'
    BY <1>a, <1>c, <2>1, <2>5, KeepReduction DEF At
  <2> QED BY <2>2, <2>3, <2>4, <2>5, <2>6
<1> QED BY <1>1, <1>2

\* Releasing an unfenced lease schedules a bounded retry; a lost lease is left alone.
LEMMA ReleaseOutboxLeaseInv ==
    ASSUME Inv, NEW x \in Executors, ReleaseOutboxLease(x) PROVE Inv'
<1> USE OutboxConstants DEF Inv, SafetyInv, jobVars, Others
<1> DEFINE e == exec[x].effect
           s == IF exec[x].lease < MaxAttempts THEN "failed-retryable" ELSE "failed"
<1>0. e \in Effects /\ exec[x].pc = "releasing"
  BY DEF ReleaseOutboxLease, At, ExecShape, Draining
<1>a. UNCHANGED <<jobVars, calls, Others>>
  BY DEF ReleaseOutboxLease
<1>1. CASE outbox[e].lease = exec[x].lease /\ ~outbox[e].fence /\ outbox[e].status = "running"
  <2>0. exec' = [exec EXCEPT ![x] = Idle]
    BY <1>1 DEF ReleaseOutboxLease, Row, Finish
  <2>b. exec' \in [Executors -> Locals]
    BY <2>0 DEF TypeOK, Locals, Idle, Pcs, Observations
  <2>c. exec'[x].pc = "idle" /\ \A y \in Executors : y # x => exec'[y] = exec[y]
    BY <2>0 DEF TypeOK, Locals, Idle
  <2>1. outbox' = [outbox EXCEPT ![e].status = s, ![e].lease = 0,
                                 ![e].fence = FALSE, ![e].expired = FALSE]
    BY <1>1 DEF ReleaseOutboxLease, Row, Complete
  <2>2. /\ s \in Statuses
        /\ s \in Terminal \/ (s = "failed-retryable" /\ outbox[e].attempts < MaxAttempts)
    <3>1. outbox[e].attempts = exec[x].lease
      BY <1>0, <1>1, outbox[e].lease # 0 DEF LeaseShape
    <3> QED BY <3>1 DEF Statuses, Terminal, Unleased
  <2>3. /\ outbox' \in [Effects -> Rows]
        /\ LeaseShape' /\ (UNCHANGED calls => CallShape')
        /\ \A f \in Effects : /\ outbox'[f].job = outbox[f].job
                              /\ outbox'[f].worker = outbox[f].worker
                              /\ outbox'[f].expected = outbox[f].expected
                              /\ outbox'[f].attempts = outbox[f].attempts
                              /\ outbox'[f].consumed = outbox[f].consumed
                              /\ outbox'[f].status = "absent" <=> outbox[f].status = "absent"
                              /\ f # e => outbox'[f] = outbox[f]
    BY <1>0, <1>1, <2>1, <2>2, CompleteKeeps
  <2>4. outbox'[e].status = s /\ outbox'[e].lease = 0 /\ outbox'[e].fence = FALSE
    BY <1>0, <2>1 DEF TypeOK, Rows
  <2>5. TypeOK'
    BY <1>a, <2>b, <2>3 DEF TypeOK
  <2>6. ExecShape'
    BY <2>c, <1>0, <1>1, <2>3, <2>4 DEF ExecShape, Row, At, Draining, Consuming, InHandler, Terminal
  <2>7. FenceShape'
    <3>1. ASSUME NEW y \in Executors, y # x, exec[y].effect = e
          PROVE  exec[y].pc \notin {"fenced", "called"}
      BY <3>1, <1>0, <1>1 DEF FenceShape, ExecShape, LeaseShape, Row, Draining, InHandler
    <3> QED BY <1>a, <2>c, <1>0, <2>3, <2>4, <3>1 DEF FenceShape, ExecShape, Draining, InHandler, Row, At
  <2>8. AdmissionShape' /\ \A f \in Effects : Settled(f) => Settled(f)'
    BY <1>a, <2>3, KeepAdmission
  <2>9. ReductionShape'
    BY <1>a, <2>c, <2>3, <2>8, KeepReduction DEF At
  <2> QED BY <1>a, <2>3, <2>5, <2>6, <2>7, <2>8, <2>9
<1>2. CASE ~(outbox[e].lease = exec[x].lease /\ ~outbox[e].fence /\ outbox[e].status = "running")
  <2>1. UNCHANGED outbox /\ Return(x, "Unknown")
    BY <1>2 DEF ReleaseOutboxLease, Row
  <2>2. /\ exec' \in [Executors -> Locals]
        /\ \A y \in Executors : y # x => exec'[y] = exec[y]
        /\ exec'[x].pc = "returned" /\ exec'[x].obs = "Unknown"
        /\ exec'[x].effect = exec[x].effect /\ exec'[x].lease = exec[x].lease
    BY <2>1, ReturnEffect DEF Observations
  <2>3. TypeOK'
    BY <1>a, <2>1, <2>2 DEF TypeOK
  <2>4. LeaseShape' /\ CallShape'
    BY <1>a, <2>1 DEF LeaseShape, CallShape
  <2>5. ExecShape' /\ FenceShape'
    BY <1>a, <1>0, <2>1, <2>2 DEF ExecShape, FenceShape, Row, At, Draining, Consuming, InHandler
  <2>6. AdmissionShape' /\ \A f \in Effects : Settled(f) => Settled(f)'
    BY <1>a, <2>1, KeepAdmission
  <2>7. ReductionShape'
    BY <1>a, <2>1, <2>2, <2>6, KeepReduction DEF At
  <2> QED BY <2>3, <2>4, <2>5, <2>6, <2>7
<1> QED BY <1>1, <1>2

\* A lease may grow old at any time.
LEMMA LeaseExpiresInv == ASSUME Inv, NEW e \in Effects, LeaseExpires(e) PROVE Inv'
<1> USE DEF Inv, SafetyInv, LeaseExpires, jobVars, Others
<1>1. outbox' = [outbox EXCEPT ![e] = [outbox[e] EXCEPT !.expired = TRUE]]
  BY DEF TypeOK
<1>2. outbox[e] \in Rows
  BY DEF TypeOK
<1>3. [outbox[e] EXCEPT !.expired = TRUE] \in Rows
  BY <1>2 DEF Rows
<1>4. outbox' \in [Effects -> Rows]
  BY <1>1, <1>3 DEF TypeOK
<1>5. \A f \in Effects : /\ outbox'[f].status = outbox[f].status
                         /\ outbox'[f].job = outbox[f].job
                         /\ outbox'[f].worker = outbox[f].worker
                         /\ outbox'[f].expected = outbox[f].expected
                         /\ outbox'[f].attempts = outbox[f].attempts
                         /\ outbox'[f].lease = outbox[f].lease
                         /\ outbox'[f].fence = outbox[f].fence
                         /\ outbox'[f].consumed = outbox[f].consumed
  BY <1>1, <1>2 DEF TypeOK, Rows
<1>6. TypeOK'
  BY <1>4 DEF TypeOK
<1>7. LeaseShape' /\ CallShape'
  BY <1>5 DEF LeaseShape, CallShape
<1>8. ExecShape' /\ FenceShape'
  BY <1>5 DEF ExecShape, FenceShape, Row, At, Draining, InHandler, Consuming
<1>9. AdmissionShape' /\ \A f \in Effects : Settled(f) => Settled(f)'
  BY <1>5, KeepAdmission
<1>10. ReductionShape'
  BY <1>5, <1>9, KeepReduction DEF At
<1> QED BY <1>6, <1>7, <1>8, <1>9, <1>10

\* Abandoning stale rows settles unleased rows as failed and nothing else.
LEMMA AbandonKeeps ==
    ASSUME Inv
    PROVE  /\ AbandonStale \in [Effects -> Rows]
           /\ \A f \in Effects :
                 /\ AbandonStale[f].job = outbox[f].job
                 /\ AbandonStale[f].worker = outbox[f].worker
                 /\ AbandonStale[f].expected = outbox[f].expected
                 /\ AbandonStale[f].attempts = outbox[f].attempts
                 /\ AbandonStale[f].lease = outbox[f].lease
                 /\ AbandonStale[f].fence = outbox[f].fence
                 /\ AbandonStale[f].consumed = outbox[f].consumed
                 /\ \/ AbandonStale[f].status = outbox[f].status
                    \/ /\ AbandonStale[f].status = "failed"
                       /\ outbox[f].status \in Unleased
                 /\ ~Stale(f) => AbandonStale[f] = outbox[f]
<1>1. ASSUME NEW f \in Effects
      PROVE  outbox[f] \in Rows /\ [outbox[f] EXCEPT !.status = "failed"] \in Rows
  BY DEF Inv, TypeOK, Rows, Statuses, Terminal
<1>2. AbandonStale \in [Effects -> Rows]
  BY <1>1 DEF AbandonStale
<1>3. ASSUME NEW f \in Effects, Stale(f)
      PROVE  AbandonStale[f] = [outbox[f] EXCEPT !.status = "failed"]
  BY <1>3 DEF AbandonStale
<1>4. ASSUME NEW f \in Effects, ~Stale(f)
      PROVE  AbandonStale[f] = outbox[f]
  BY <1>4 DEF AbandonStale
<1>5. \A f \in Effects : Stale(f) => outbox[f].status \in Unleased
  BY DEF Stale
<1> QED BY <1>1, <1>2, <1>3, <1>4, <1>5 DEF Rows

\* A claim that finds nothing due only abandons stale rows.
LEMMA ClaimNothingInv == ASSUME Inv, NEW x \in Executors, ClaimNothing(x) PROVE Inv'
<1> USE OutboxConstants DEF Inv, SafetyInv, ClaimNothing, jobVars, Others
<1>0. /\ outbox' \in [Effects -> Rows]
      /\ \A f \in Effects :
            /\ outbox'[f].job = outbox[f].job
            /\ outbox'[f].worker = outbox[f].worker
            /\ outbox'[f].expected = outbox[f].expected
            /\ outbox'[f].attempts = outbox[f].attempts
            /\ outbox'[f].lease = outbox[f].lease
            /\ outbox'[f].fence = outbox[f].fence
            /\ outbox'[f].consumed = outbox[f].consumed
            /\ \/ outbox'[f].status = outbox[f].status
               \/ outbox'[f].status = "failed" /\ outbox[f].status \in Unleased
  BY AbandonKeeps
<1>1. TypeOK'
  BY <1>0 DEF TypeOK
<1>2. LeaseShape'
  BY <1>0 DEF LeaseShape, Unleased
<1>3. ExecShape'
  BY <1>0 DEF ExecShape, Row, At, Draining, InHandler, Consuming, Terminal, Unleased
<1>4. FenceShape'
  BY <1>0 DEF FenceShape, ExecShape, Draining, InHandler, Row, At, Unleased
<1>5. CallShape'
  BY <1>0 DEF CallShape, LeaseShape, Unleased
<1>6. AdmissionShape' /\ \A f \in Effects : Settled(f) => Settled(f)'
  <2>1. \A f \in Effects : outbox'[f].status = "absent" <=> outbox[f].status = "absent"
    BY <1>0 DEF Unleased
  <2> QED BY <1>0, <2>1, KeepAdmission
<1>7. ReductionShape'
  BY <1>0, <1>6, KeepReduction DEF At
<1> QED BY <1>1, <1>2, <1>3, <1>4, <1>5, <1>6, <1>7

\* A claim hands an unleased row to one executor under a number never used before.
LEMMA ClaimOutboxInv ==
    ASSUME Inv, NEW x \in Executors, NEW e \in Effects, ClaimOutbox(x, e) PROVE Inv'
<1> USE OutboxConstants DEF Inv, SafetyInv, jobVars, Others
<1> DEFINE n == outbox[e].attempts + 1
<1>a. /\ UNCHANGED <<jobVars, calls, Others>> /\ exec[x].pc = "idle"
      /\ outbox[e].status \in Unleased /\ outbox[e].lease = 0 /\ ~Stale(e)
  BY DEF ClaimOutbox, Claimable, Due, At
<1>b. n \in 1 .. MaxAttempts /\ outbox[e] \in Rows /\ AbandonStale[e] = outbox[e]
  BY <1>a, AbandonKeeps DEF LeaseShape, TypeOK, Rows
<1>c. outbox' = [AbandonStale EXCEPT ![e] =
                    [outbox[e] EXCEPT !.status = "running", !.attempts = n, !.lease = n]]
  BY <1>b, AbandonKeeps DEF ClaimOutbox
<1>d. [outbox[e] EXCEPT !.status = "running", !.attempts = n, !.lease = n] \in Rows
  <2>1. n \in 0 .. MaxAttempts
    BY <1>b
  <2> HIDE DEF n, Inv, SafetyInv
  <2> QED BY <1>b, <2>1 DEF Rows, Statuses
<1>0. /\ outbox' \in [Effects -> Rows]
      /\ \A f \in Effects :
            /\ outbox'[f].job = outbox[f].job
            /\ outbox'[f].worker = outbox[f].worker
            /\ outbox'[f].expected = outbox[f].expected
            /\ outbox'[f].fence = outbox[f].fence
            /\ outbox'[f].consumed = outbox[f].consumed
      /\ \A f \in Effects \ {e} :
            /\ outbox'[f].attempts = outbox[f].attempts
            /\ outbox'[f].lease = outbox[f].lease
            /\ \/ outbox'[f].status = outbox[f].status
               \/ outbox'[f].status = "failed" /\ outbox[f].status \in Unleased
      /\ outbox'[e].status = "running" /\ outbox'[e].attempts = n /\ outbox'[e].lease = n
  <2>1. outbox' \in [Effects -> Rows]
    BY <1>c, <1>d, AbandonKeeps
  <2>2. outbox'[e] = [outbox[e] EXCEPT !.status = "running", !.attempts = n, !.lease = n]
    BY <1>c, AbandonKeeps
  <2>3. \A f \in Effects \ {e} : outbox'[f] = AbandonStale[f]
    BY <1>c, AbandonKeeps
  <2>4. /\ outbox'[e].job = outbox[e].job
        /\ outbox'[e].worker = outbox[e].worker
        /\ outbox'[e].expected = outbox[e].expected
        /\ outbox'[e].fence = outbox[e].fence
        /\ outbox'[e].consumed = outbox[e].consumed
        /\ outbox'[e].status = "running" /\ outbox'[e].attempts = n /\ outbox'[e].lease = n
    <3> HIDE DEF n
    <3> QED BY <2>2, <1>b DEF Rows
  <2> QED BY <2>1, <2>3, <2>4, AbandonKeeps
<1>e. /\ exec' \in [Executors -> Locals]
      /\ \A y \in Executors : y # x => exec'[y] = exec[y]
      /\ exec'[x].pc = "handling" /\ exec'[x].effect = e /\ exec'[x].lease = n
  <2>1. exec' = [exec EXCEPT ![x] = [Idle EXCEPT !.pc = "handling", !.effect = e, !.lease = n]]
    BY DEF ClaimOutbox
  <2>2. [Idle EXCEPT !.pc = "handling", !.effect = e, !.lease = n] \in Locals
    <3>1. n \in 0 .. MaxAttempts /\ e \in 0 .. MaxEffects /\ 0 \in 0 .. ConsumeRetries
      BY <1>b DEF Effects
    <3> HIDE DEF n, Inv, SafetyInv
    <3> QED BY <3>1 DEF Idle, Locals, Pcs, InHandler, Observations
  <2> HIDE DEF n
  <2> QED BY <2>1, <2>2 DEF TypeOK, Idle
<1> HIDE DEF n
<1>n. n = outbox[e].attempts + 1 /\ n \in Nat /\ \A f \in Effects : outbox[f].attempts \in Nat
  BY <1>b DEF n, TypeOK, Rows
<1>1. TypeOK'
  BY <1>a, <1>0, <1>e DEF TypeOK
<1>2. LeaseShape'
  BY <1>a, <1>b, <1>0 DEF LeaseShape, Unleased
<1>3. ExecShape'
  <2>1. ASSUME NEW y \in Executors
        PROVE  /\ exec'[y].pc \in Draining =>
                      /\ exec'[y].effect \in Effects
                      /\ exec'[y].lease # 0
                      /\ exec'[y].lease <= outbox'[exec'[y].effect].attempts
                      /\ outbox'[exec'[y].effect].status # "absent"
               /\ exec'[y].pc \in Consuming =>
                      exec'[y].effect \in Effects /\ outbox'[exec'[y].effect].status \in Terminal
               /\ exec'[y].pc = "consuming" => exec'[y].tries = 0
               /\ exec'[y].pc = "rereading" => exec'[y].tries < ConsumeRetries
    <3>1. CASE y = x
      BY <3>1, <1>b, <1>0, <1>e DEF Consuming
    <3>2. CASE y # x
      <4>1. exec[y].lease \in Nat
        BY DEF TypeOK, Locals
      <4> QED BY <3>2, <4>1, <1>a, <1>0, <1>e, <1>n DEF ExecShape, Row, At, Unleased, Terminal
    <3> QED BY <3>1, <3>2
  <2>2. ASSUME NEW y \in Executors, y # x, exec[y].pc \in Draining, exec[y].effect = e
        PROVE  exec[y].lease # n
    <3>1. exec[y].lease \in Nat
      BY DEF TypeOK, Locals
    <3> QED BY <2>2, <3>1, <1>n DEF ExecShape, Row
  <2>3. \A y, z \in Executors :
          /\ exec'[y].pc \in Draining /\ exec'[z].pc \in Draining
          /\ exec'[y].effect = exec'[z].effect /\ exec'[y].lease = exec'[z].lease
          => y = z
    BY <1>e, <2>2 DEF ExecShape
  <2> QED BY <2>1, <2>3 DEF ExecShape, Row, At
<1>4. FenceShape'
  <2>1. ~outbox[e].fence
    BY <1>a DEF LeaseShape
  <2>2. ASSUME NEW y \in Executors, y # x, exec[y].effect = e
        PROVE  exec[y].pc \notin {"fenced", "called"}
    BY <1>a, <2>1, <2>2 DEF FenceShape, Row, Unleased
  <2> QED BY <1>a, <1>0, <1>e, <2>1, <2>2
          DEF FenceShape, ExecShape, Draining, InHandler, Row, At, Unleased
<1>5. CallShape'
  BY <1>a, <1>0 DEF CallShape, LeaseShape, Unleased
<1>6. AdmissionShape' /\ \A f \in Effects : Settled(f) => Settled(f)'
  <2>1. \A f \in Effects : outbox'[f].status = "absent" <=> outbox[f].status = "absent"
    BY <1>a, <1>0 DEF Unleased
  <2> QED BY <1>a, <1>0, <2>1, KeepAdmission
<1>7. ReductionShape'
  BY <1>a, <1>0, <1>e, <1>6, KeepReduction DEF At
<1> QED BY <1>1, <1>2, <1>3, <1>4, <1>5, <1>6, <1>7

\* The reaper settles every expired lease: as unknown when it was fenced.
LEMMA ReapInv == ASSUME Inv, Reap PROVE Inv'
<1> USE OutboxConstants DEF Inv, SafetyInv, jobVars, Others
<1>a. UNCHANGED <<jobVars, exec, calls, Others>>
  BY DEF Reap
<1>b. ASSUME NEW f \in Effects, Expired(f)
      PROVE  /\ outbox'[f] = [outbox[f] EXCEPT !.status = ReapedStatus(f), !.lease = 0,
                                               !.fence = FALSE, !.expired = FALSE]
             /\ ReapedStatus(f) \in {"unknown", "failed-retryable", "failed"}
             /\ ReapedStatus(f) = "failed-retryable" => outbox[f].attempts < MaxAttempts
             /\ outbox[f].fence => ReapedStatus(f) = "unknown"
             /\ outbox[f].status = "running" /\ outbox[f].lease # 0
  <2>1. outbox'[f] = Complete(f, outbox[f].lease, ReapedStatus(f))[f]
    BY <1>b DEF Reap
  <2>2. outbox[f].status = "running" /\ outbox[f].lease # 0
    BY <1>b DEF Expired
  <2>3. /\ ReapedStatus(f) \in {"unknown", "failed-retryable", "failed"}
        /\ ReapedStatus(f) = "failed-retryable" => outbox[f].attempts < MaxAttempts
        /\ outbox[f].fence => ReapedStatus(f) = "unknown"
    BY DEF ReapedStatus
  <2>4. outbox'[f] = [outbox[f] EXCEPT !.status = ReapedStatus(f), !.lease = 0,
                                       !.fence = FALSE, !.expired = FALSE]
    BY <2>1, <2>2 DEF Complete, TypeOK
  <2> QED BY <2>2, <2>3, <2>4
<1>c. ASSUME NEW f \in Effects, ~Expired(f) PROVE outbox'[f] = outbox[f]
  BY <1>c DEF Reap
<1>d. ASSUME NEW f \in Effects
      PROVE  /\ outbox'[f] \in Rows
             /\ outbox'[f].job = outbox[f].job
             /\ outbox'[f].worker = outbox[f].worker
             /\ outbox'[f].expected = outbox[f].expected
             /\ outbox'[f].attempts = outbox[f].attempts
             /\ outbox'[f].consumed = outbox[f].consumed
             /\ \/ /\ outbox'[f].status = outbox[f].status
                   /\ outbox'[f].lease = outbox[f].lease
                   /\ outbox'[f].fence = outbox[f].fence
                \/ /\ outbox[f].status = "running" /\ outbox[f].lease # 0
                   /\ outbox'[f].lease = 0 /\ outbox'[f].fence = FALSE
                   /\ \/ outbox'[f].status = "unknown"
                      \/ outbox'[f].status = "failed" /\ ~outbox[f].fence
                      \/ /\ outbox'[f].status = "failed-retryable" /\ ~outbox[f].fence
                         /\ outbox[f].attempts < MaxAttempts
  <2>0. outbox[f] \in Rows
    BY DEF TypeOK
  <2>1. CASE Expired(f)
    <3>1. 0 \in 0 .. MaxAttempts
      OBVIOUS
    <3>2. ReapedStatus(f) \in Statuses
      BY <2>1, <1>b DEF Statuses, Terminal, Unleased
    <3> HIDE DEF Inv, SafetyInv
    <3>3. [outbox[f] EXCEPT !.status = ReapedStatus(f), !.lease = 0] \in Rows
      BY <2>0, <3>1, <3>2 DEF Rows
    <3>4. \A r \in Rows : [r EXCEPT !.fence = FALSE, !.expired = FALSE] \in Rows
      BY DEF Rows
    <3>5. outbox'[f] = [[outbox[f] EXCEPT !.status = ReapedStatus(f), !.lease = 0]
                           EXCEPT !.fence = FALSE, !.expired = FALSE]
      BY <2>0, <2>1, <1>b DEF Rows
    <3>6. outbox'[f] \in Rows
      BY <3>3, <3>4, <3>5
    <3>7. /\ outbox'[f].job = outbox[f].job
          /\ outbox'[f].worker = outbox[f].worker
          /\ outbox'[f].expected = outbox[f].expected
          /\ outbox'[f].attempts = outbox[f].attempts
          /\ outbox'[f].consumed = outbox[f].consumed
          /\ outbox'[f].lease = 0 /\ outbox'[f].fence = FALSE
          /\ outbox'[f].status = ReapedStatus(f)
      BY <2>0, <2>1, <1>b DEF Rows
    <3> QED BY <2>1, <1>b, <3>6, <3>7
  <2>2. CASE ~Expired(f)
    BY <2>0, <2>2, <1>c
  <2> QED BY <2>1, <2>2
<1>1. TypeOK'
  <2>1. outbox' \in [Effects -> Rows]
    <3>1. outbox' = [f \in Effects |-> outbox'[f]]
      BY DEF Reap
    <3> QED BY <3>1, <1>d
  <2> QED BY <1>a, <2>1 DEF TypeOK
<1>2. LeaseShape'
  <2>1. ASSUME NEW f \in Effects
        PROVE  /\ outbox'[f].status = "running" <=> outbox'[f].lease # 0
               /\ outbox'[f].lease # 0 => outbox'[f].lease = outbox'[f].attempts
               /\ outbox'[f].fence => outbox'[f].lease # 0
               /\ outbox'[f].status \in Unleased => outbox'[f].attempts < MaxAttempts
    <3>1. CASE Expired(f)
      <4>1. outbox[f] \in Rows
        BY DEF TypeOK
      <4>2. /\ outbox'[f].status = ReapedStatus(f) /\ outbox'[f].lease = 0
            /\ outbox'[f].fence = FALSE /\ outbox'[f].attempts = outbox[f].attempts
        BY <3>1, <1>b, <4>1 DEF Rows
      <4> QED BY <3>1, <1>b, <4>2 DEF Unleased
    <3>2. CASE ~Expired(f)
      BY <3>2, <1>c DEF LeaseShape
    <3> QED BY <3>1, <3>2
  <2> QED BY <2>1 DEF LeaseShape
<1>3. ExecShape'
  <2>1. \A f \in Effects : /\ outbox'[f].attempts = outbox[f].attempts
                           /\ outbox[f].status # "absent" => outbox'[f].status # "absent"
                           /\ outbox[f].status \in Terminal => outbox'[f].status \in Terminal
    BY <1>d DEF Terminal
  <2> QED BY <1>a, <2>1 DEF ExecShape, Row, At
<1>4. FenceShape'
  <2>1. \A f \in Effects : /\ outbox'[f].attempts = outbox[f].attempts
                           /\ outbox'[f].fence => outbox[f].fence /\ outbox'[f].lease = outbox[f].lease
                           /\ outbox[f].fence => outbox'[f].fence \/ outbox'[f].status = "unknown"
                           /\ outbox[f].status = "unknown" => outbox'[f].status = "unknown"
    BY <1>b, <1>c, <1>d
  <2> QED BY <1>a, <2>1 DEF FenceShape, ExecShape, Draining, InHandler, Row, At
<1>5. CallShape'
  BY <1>a, <1>d DEF CallShape, LeaseShape
<1>6. AdmissionShape' /\ \A f \in Effects : Settled(f) => Settled(f)'
  <2>1. \A f \in Effects : outbox'[f].status = "absent" <=> outbox[f].status = "absent"
    BY <1>d
  <2> QED BY <1>a, <1>d, <2>1, KeepAdmission
<1>7. ReductionShape'
  BY <1>a, <1>d, <1>6, KeepReduction DEF At
<1> QED BY <1>1, <1>2, <1>3, <1>4, <1>5, <1>6, <1>7

(* Admission, consumption, and the theorems. *)

\* Admission opens the fence for a row that is new, at the revision it commits.
LEMMA AdmitInv ==
    ASSUME Inv, NEW j \in Jobs, NEW e \in Effects, Admit(j, e) PROVE Inv'
<1> USE OutboxConstants DEF Inv, SafetyInv
<1> DEFINE row == NewRow("pending", j, rev[j] + 1, worker[j])
<1>a. /\ UNCHANGED <<worker, user, intent, exec, events, calls, applied, crashes>>
      /\ op[j] = "planned" /\ worker[j] # 0 /\ ~intent[j] /\ outbox[e].status = "absent"
      /\ rev' = [rev EXCEPT ![j] = @ + 1]
      /\ op' = [op EXCEPT ![j] = "submitting"]
      /\ turn' = [turn EXCEPT ![j] = e]
      /\ outbox' = [outbox EXCEPT ![e] = row]
  BY DEF Admit, Commit
<1>b. /\ row \in Rows
      /\ row.status = "pending" /\ row.job = j /\ row.expected = rev[j] + 1
      /\ row.worker = worker[j] /\ row.attempts = 0 /\ row.lease = 0
      /\ row.fence = FALSE /\ row.consumed = FALSE
  <2>1. rev[j] \in Nat /\ worker[j] \in Nat /\ 0 \in 0 .. MaxAttempts
    BY DEF TypeOK
  <2> HIDE DEF Inv, SafetyInv
  <2> QED BY <2>1 DEF NewRow, Rows, Statuses, Unleased
<1> HIDE DEF row
<1>c. outbox' \in [Effects -> Rows] /\ outbox'[e] = row
      /\ \A f \in Effects \ {e} : outbox'[f] = outbox[f]
  BY <1>a, <1>b DEF TypeOK
<1>1. TypeOK'
  <2>1. e \in 0 .. MaxEffects
    BY DEF Effects
  <2> QED BY <1>a, <1>c, <2>1 DEF TypeOK
<1>2. LeaseShape'
  BY <1>b, <1>c DEF LeaseShape, Unleased
<1>3. /\ \A x \in Executors : exec[x].pc \in Draining \/ exec[x].pc \in Consuming =>
             exec[x].effect \in Effects \ {e}
      /\ calls[e] = 0 /\ applied[e] = 0 /\ events[e] = {}
  <2>1. ~outbox[e].fence
    BY <1>a DEF LeaseShape
  <2> QED BY <1>a, <2>1 DEF ExecShape, Row, Terminal, CallShape, ReductionShape, Settled, TypeOK
<1>4. ExecShape'
  BY <1>a, <1>c, <1>3 DEF ExecShape, Row, At, Consuming
<1>5. FenceShape'
  BY <1>a, <1>c, <1>3 DEF FenceShape, Row, At, Draining, InHandler
<1>6. CallShape'
  BY <1>a, <1>b, <1>c, <1>3 DEF CallShape
<1>7. ASSUME NEW f \in Effects, f # e
      PROVE  AdmittedShape(f)' /\ (Settled(f) => Settled(f)')
  <2>1. /\ outbox'[f] = outbox[f] /\ outbox[f].job \in Jobs
        /\ outbox[f].expected \in Nat /\ outbox[f].worker \in Nat
    BY <1>7, <1>c DEF TypeOK, Rows
  <2>2. AdmittedShape(f)
    BY DEF AdmissionShape
  <2>3. AdmittedShape(f)'
    BY <2>1, <2>2, <1>a, <1>7 DEF TypeOK, AdmittedShape, Accepts
  <2>4. Settled(f) => Settled(f)'
    BY <2>1, <2>2, <1>a, <1>7 DEF TypeOK, Settled, Accepts
  <2> QED BY <2>3, <2>4
<1>8. AdmittedShape(e)'
  <2>1. worker[j] <= rev[j] /\ worker[j] \in Nat /\ rev[j] \in Nat
    BY DEF AdmissionShape, JobShape, TypeOK
  <2> QED BY <2>1, <1>a, <1>b, <1>c DEF AdmittedShape, Accepts, TypeOK
<1>9. ASSUME NEW i \in Jobs PROVE JobShape(i)'
  <2>1. JobShape(i) /\ e # 0 /\ (turn[i] # 0 => turn[i] \in Effects) /\ worker[i] \in Nat /\ rev[i] \in Nat
    BY SMTT(20) DEF AdmissionShape, TypeOK, Effects
  <2>2. CASE i = j
    BY <2>1, <2>2, <1>a, <1>b, <1>c DEF JobShape, TypeOK
  <2>3. CASE i # j
    BY <2>1, <2>3, <1>a, <1>c DEF JobShape, TypeOK
  <2> QED BY <2>2, <2>3
<1>10. AdmissionShape'
  BY <1>7, <1>8, <1>9 DEF AdmissionShape
<1>11. ReductionShape'
  <2>1. \A f \in Effects : /\ applied'[f] > 0 => applied'[f] = 1 /\ Settled(f)'
                           /\ events'[f] # {} => Settled(f)'
                           /\ outbox'[f].consumed => Settled(f)'
    BY <1>a, <1>b, <1>c, <1>3, <1>7 DEF ReductionShape
  <2>2. ASSUME NEW x \in Executors, At(x, "marking")' PROVE Settled(exec[x].effect)'
    <3>1. At(x, "marking") /\ exec[x].effect \in Effects \ {e} /\ Settled(exec[x].effect)
      BY <1>a, <1>3, <2>2 DEF ReductionShape, At, Consuming
    <3>2. ASSUME NEW f \in Effects, f # e, Settled(f), exec'[x].effect = f
          PROVE  Settled(exec[x].effect)'
      BY <3>2, <1>7 DEF Settled, Accepts
    <3> QED BY <1>a, <3>1, <3>2
  <2> QED BY <2>1, <2>2 DEF ReductionShape
<1> QED BY <1>1, <1>2, <1>4, <1>5, <1>6, <1>10, <1>11

\* A consumer loads a settled result.
LEMMA LoadResultInv ==
    ASSUME Inv, NEW x \in Executors, NEW e \in Effects, LoadResult(x, e) PROVE Inv'
<1> USE OutboxConstants DEF Inv, SafetyInv, jobVars, Others
<1>a. /\ UNCHANGED <<jobVars, outbox, calls, Others>>
      /\ outbox[e].status \in Terminal
      /\ exec' = [exec EXCEPT ![x] = [Idle EXCEPT !.pc = "consuming", !.effect = e]]
  BY DEF LoadResult
<1>b. /\ exec' \in [Executors -> Locals]
      /\ \A y \in Executors : y # x => exec'[y] = exec[y]
      /\ exec'[x].pc = "consuming" /\ exec'[x].effect = e /\ exec'[x].tries = 0
  <2>1. e \in 0 .. MaxEffects /\ 0 \in 0 .. MaxAttempts /\ 0 \in 0 .. ConsumeRetries
    BY DEF Effects
  <2>2. [Idle EXCEPT !.pc = "consuming", !.effect = e] \in Locals
    <3> HIDE DEF Inv, SafetyInv
    <3> QED BY <2>1 DEF Idle, Locals, Pcs, Observations
  <2> QED BY <1>a, <2>2 DEF TypeOK, Idle
<1>1. TypeOK'
  BY <1>a, <1>b DEF TypeOK
<1>2. LeaseShape' /\ CallShape'
  BY <1>a DEF LeaseShape, CallShape
<1>3. ExecShape' /\ FenceShape'
  BY <1>a, <1>b DEF ExecShape, FenceShape, Row, At, Draining, InHandler, Consuming
<1>4. AdmissionShape' /\ \A f \in Effects : Settled(f) => Settled(f)'
  BY <1>a, KeepAdmission
<1>5. ReductionShape'
  BY <1>a, <1>b, <1>4, KeepReduction DEF At
<1> QED BY <1>1, <1>2, <1>3, <1>4, <1>5

\* A consumer re-reads the revision of the job.
LEMMA RereadJobInv == ASSUME Inv, NEW x \in Executors, RereadJob(x) PROVE Inv'
<1> USE OutboxConstants DEF Inv, SafetyInv, jobVars, Others
<1> DEFINE r == rev[Row(x).job]
           l == [exec[x] EXCEPT !.pc = "applying", !.rev = r, !.tries = @ + 1]
<1>a. /\ UNCHANGED <<jobVars, outbox, calls, Others>>
      /\ exec[x].pc = "rereading" /\ exec[x].effect \in Effects
      /\ Row(x).status \in Terminal /\ exec[x].tries < ConsumeRetries
  BY DEF RereadJob, At, ExecShape, Consuming
<1>b. exec[x] \in Locals /\ r \in Nat /\ exec[x].tries + 1 \in 0 .. ConsumeRetries
  BY <1>a DEF TypeOK, Rows, Row, Locals
<1>c. exec' = [exec EXCEPT ![x] = l]
  BY DEF RereadJob, TypeOK
<1>d. l \in Locals /\ l.pc = "applying" /\ l.effect = exec[x].effect
  <2> HIDE DEF Inv, SafetyInv, r
  <2> QED BY <1>b DEF Locals, Pcs
<1> HIDE DEF l
<1>e. /\ exec' \in [Executors -> Locals]
      /\ \A y \in Executors : y # x => exec'[y] = exec[y]
      /\ exec'[x].pc = "applying" /\ exec'[x].effect = exec[x].effect
  BY <1>c, <1>d DEF TypeOK
<1>1. TypeOK'
  BY <1>a, <1>e DEF TypeOK
<1>2. LeaseShape' /\ CallShape'
  BY <1>a DEF LeaseShape, CallShape
<1>3. ExecShape' /\ FenceShape'
  BY <1>a, <1>e DEF ExecShape, FenceShape, Row, At, Draining, InHandler, Consuming
<1>4. AdmissionShape' /\ \A f \in Effects : Settled(f) => Settled(f)'
  BY <1>a, KeepAdmission
<1>5. ReductionShape'
  BY <1>a, <1>e, <1>4, KeepReduction DEF At
<1> QED BY <1>1, <1>2, <1>3, <1>4, <1>5

\* The consumption mark is set for a settled result.
LEMMA MarkConsumedInv == ASSUME Inv, NEW x \in Executors, MarkConsumed(x) PROVE Inv'
<1> USE OutboxConstants DEF Inv, SafetyInv, jobVars, Others
<1> DEFINE e == exec[x].effect
<1>a. /\ UNCHANGED <<jobVars, calls, Others>>
      /\ e \in Effects /\ Settled(e)
      /\ outbox' = [outbox EXCEPT ![e] = [outbox[e] EXCEPT !.consumed = TRUE]]
      /\ exec' = [exec EXCEPT ![x] = Idle]
  BY DEF MarkConsumed, Finish, At, ExecShape, Consuming, ReductionShape, TypeOK
<1>b. outbox[e] \in Rows /\ [outbox[e] EXCEPT !.consumed = TRUE] \in Rows
  BY ZenonT(30), <1>a DEF TypeOK, Rows
<1>c. /\ outbox' \in [Effects -> Rows]
      /\ \A f \in Effects : /\ outbox'[f].status = outbox[f].status
                            /\ outbox'[f].job = outbox[f].job
                            /\ outbox'[f].worker = outbox[f].worker
                            /\ outbox'[f].expected = outbox[f].expected
                            /\ outbox'[f].attempts = outbox[f].attempts
                            /\ outbox'[f].lease = outbox[f].lease
                            /\ outbox'[f].fence = outbox[f].fence
                            /\ f # e => outbox'[f].consumed = outbox[f].consumed
  BY <1>a, <1>b DEF TypeOK, Rows
<1>d. exec' \in [Executors -> Locals]
  BY <1>a DEF TypeOK, Locals, Idle, Pcs, Observations
<1>e. exec'[x].pc = "idle" /\ \A y \in Executors : y # x => exec'[y] = exec[y]
  BY <1>a DEF TypeOK, Locals, Idle
<1>1. TypeOK'
  BY <1>a, <1>c, <1>d DEF TypeOK
<1>2. LeaseShape' /\ CallShape'
  BY <1>a, <1>c DEF LeaseShape, CallShape
<1>3. ExecShape' /\ FenceShape'
  BY <1>a, <1>c, <1>e DEF ExecShape, FenceShape, Row, At, Draining, InHandler, Consuming
<1>4. AdmissionShape' /\ \A f \in Effects : Settled(f) => Settled(f)'
  BY <1>a, <1>c, KeepAdmission
<1>5. ReductionShape'
  BY <1>a, <1>c, <1>e, <1>4, KeepReduction DEF At
<1> QED BY <1>1, <1>2, <1>3, <1>4, <1>5

\* A consumer moves on without touching the job: to the mark only for a settled result.
LEMMA ConsumerMoves ==
    ASSUME Inv, NEW x \in Executors, NEW p \in {"rereading", "marking"},
           exec[x].pc \in Consuming, Goto(x, p),
           UNCHANGED <<jobVars, outbox, calls, events, applied, crashes>>,
           p = "rereading" => exec[x].tries < ConsumeRetries,
           p = "marking" => Settled(exec[x].effect)
    PROVE  Inv'
<1> USE OutboxConstants DEF Inv, SafetyInv, jobVars
<1>a. exec[x].effect \in Effects /\ Row(x).status \in Terminal
  BY DEF ExecShape
<1>b. /\ exec' \in [Executors -> Locals]
      /\ \A y \in Executors : y # x => exec'[y] = exec[y]
      /\ exec'[x].pc = p /\ exec'[x].effect = exec[x].effect
      /\ exec'[x].tries = exec[x].tries
  BY GotoEffect DEF Pcs
<1>1. TypeOK'
  BY <1>b DEF TypeOK
<1>2. LeaseShape' /\ CallShape'
  BY DEF LeaseShape, CallShape
<1>3. ExecShape' /\ FenceShape'
  BY <1>a, <1>b DEF ExecShape, FenceShape, Row, At, Draining, InHandler, Consuming
<1>4. AdmissionShape' /\ \A f \in Effects : Settled(f) => Settled(f)'
  BY KeepAdmission
<1>5. ReductionShape'
  BY <1>a, <1>b, <1>4, KeepReduction DEF At
<1> QED BY <1>1, <1>2, <1>3, <1>4, <1>5

\* A consumer gives up for now.
LEMMA ConsumerStops ==
    ASSUME Inv, NEW x \in Executors, Finish(x),
           UNCHANGED <<jobVars, outbox, calls, events, applied, crashes>>
    PROVE  Inv'
<1> USE OutboxConstants DEF Inv, SafetyInv, jobVars, Finish
<1>a. exec' \in [Executors -> Locals]
  BY DEF TypeOK, Locals, Idle, Pcs, Observations
<1>b. exec'[x].pc = "idle" /\ \A y \in Executors : y # x => exec'[y] = exec[y]
  BY DEF TypeOK, Locals, Idle
<1>1. TypeOK'
  BY <1>a DEF TypeOK
<1>2. LeaseShape' /\ CallShape'
  BY DEF LeaseShape, CallShape
<1>3. ExecShape' /\ FenceShape'
  BY <1>b DEF ExecShape, FenceShape, Row, At, Draining, InHandler, Consuming
<1>4. AdmissionShape' /\ \A f \in Effects : Settled(f) => Settled(f)'
  BY KeepAdmission
<1>5. ReductionShape'
  BY <1>b, <1>4, KeepReduction DEF At
<1> QED BY <1>1, <1>2, <1>3, <1>4, <1>5

\* Reducing an observation closes the fence it answers, once.
LEMMA ApplyKeeps ==
    ASSUME Inv, NEW x \in Executors, NEW r \in Nat, exec[x].pc \in Consuming,
           NEW e \in Effects, exec[x].effect = e, NEW j \in Jobs, outbox[e].job = j,
           ApplyObservation(x, r),
           UNCHANGED <<turn, worker, user, intent, outbox, calls, crashes>>
    PROVE  Inv'
<1> USE OutboxConstants DEF Inv, SafetyInv
<1>a. outbox[e].status \in Terminal
  BY DEF ExecShape, Row
<1>b. Goto(x, "marking")
  BY DEF ApplyObservation
<1>1. CASE ~Accepts(j, e)
  <2>1. UNCHANGED <<rev, op, events, applied>>
    BY <1>1 DEF ApplyObservation
  <2>2. Settled(e)
    BY <1>a, <1>1 DEF Settled, Terminal
  <2> QED BY <1>b, <2>1, <2>2, ConsumerMoves DEF jobVars
<1>2. CASE Accepts(j, e)
  <2>1. /\ rev' = [rev EXCEPT ![j] = @ + 1]
        /\ op' = [op EXCEPT ![j] = Reduced(e)]
        /\ events' = [events EXCEPT ![e] = @ \cup {r}]
        /\ applied' = [applied EXCEPT ![e] = @ + 1]
    BY <1>2 DEF ApplyObservation
  <2>2. Reduced(e) \in {"submitted", "ambiguous"} /\ op[j] = "submitting" /\ turn[j] = e
    BY <1>2 DEF Reduced, Accepts
  <2>3. /\ exec' \in [Executors -> Locals]
        /\ \A y \in Executors : y # x => exec'[y] = exec[y]
        /\ exec'[x].pc = "marking" /\ exec'[x].effect = e
        /\ exec'[x].tries = exec[x].tries
    BY <1>b, GotoEffect DEF Pcs
  <2>4. TypeOK'
    BY <1>a, <2>1, <2>2, <2>3 DEF TypeOK
  <2>5. LeaseShape' /\ CallShape'
    BY DEF LeaseShape, CallShape
  <2>6. ExecShape' /\ FenceShape'
    BY <1>a, <2>3 DEF ExecShape, FenceShape, Row, At, Draining, InHandler, Consuming
  <2>7. AdmissionShape' /\ \A f \in Effects : Settled(f) => Settled(f)'
    BY <1>a, <2>1, <2>2, CommitKeeps DEF TypeOK, AdmissionShape, JobShape
  <2>8. Settled(e)' /\ applied[e] = 0
    <3>1. op'[j] # "submitting" /\ outbox'[e].status # "absent" /\ outbox'[e].job = j
      BY <1>a, <2>1, <2>2 DEF TypeOK, Terminal
    <3>2. applied[e] \in Nat /\ ~(applied[e] > 0)
      BY <1>a, <1>2 DEF ReductionShape, Settled, TypeOK
    <3> QED BY <3>1, <3>2 DEF Settled, Accepts
  <2>9. \A f \in Effects : /\ applied'[f] > 0 => applied'[f] = 1 /\ Settled(f)'
                           /\ events'[f] # {} => Settled(f)'
                           /\ outbox'[f].consumed => Settled(f)'
    BY <1>a, <2>1, <2>7, <2>8 DEF ReductionShape, TypeOK
  <2>10. ASSUME NEW y \in Executors, At(y, "marking")' PROVE Settled(exec[y].effect)'
    <3>1. exec'[y].effect \in Effects
          /\ (exec'[y].effect = e \/ Settled(exec'[y].effect))
      BY <1>a, <2>3, <2>10 DEF At, ReductionShape, ExecShape, Consuming
    <3>2. ASSUME NEW f \in Effects, f = e \/ Settled(f), exec'[y].effect = f
          PROVE  Settled(exec[y].effect)'
      BY <3>2, <2>7, <2>8 DEF Settled, Accepts
    <3> QED BY <3>1, <3>2
  <2>11. ReductionShape'
    BY <2>9, <2>10 DEF ReductionShape
  <2> QED BY <2>4, <2>5, <2>6, <2>7, <2>11
<1> QED BY <1>1, <1>2

\* Consumption at the admitted revision.
LEMMA ConsumeAtAdmittedInv ==
    ASSUME Inv, NEW x \in Executors, ConsumeAtAdmitted(x) PROVE Inv'
<1> USE OutboxConstants DEF Inv, SafetyInv
<1> DEFINE e == exec[x].effect
<1>a. /\ exec[x].pc = "consuming" /\ exec[x].pc \in Consuming /\ e \in Effects
      /\ Row(x).expected \in Nat /\ exec[x].tries \in Nat
      /\ UNCHANGED <<turn, worker, user, intent, outbox, calls, crashes>>
  BY DEF ConsumeAtAdmitted, At, Consuming, ExecShape, TypeOK, Rows, Row, Locals
<1>j. outbox[e].job \in Jobs
  BY <1>a DEF TypeOK, Rows
<1>1. CASE Row(x).expected \in events[e]
  <2>1. Goto(x, "marking") /\ UNCHANGED <<rev, op, events, applied>>
    BY <1>1 DEF ConsumeAtAdmitted
  <2>2. Settled(e)
    BY <1>1, <1>a DEF ReductionShape
  <2> QED BY <1>a, <2>1, <2>2, ConsumerMoves DEF jobVars
<1>2. CASE Row(x).expected \notin events[e]
  <2>1. CASE ApplyObservation(x, Row(x).expected)
    BY <1>a, <1>j, <2>1, ApplyKeeps
  <2>2. CASE Goto(x, "rereading") /\ ConsumeRetries > 0 /\ UNCHANGED <<rev, op, events, applied>>
    <3>1. exec[x].tries < ConsumeRetries
      BY <1>a, <2>2 DEF ExecShape, At
    <3> QED BY <1>a, <2>2, <3>1, ConsumerMoves DEF jobVars
  <2>3. CASE Finish(x) /\ UNCHANGED <<rev, op, events, applied>>
    BY <1>a, <2>3, ConsumerStops DEF jobVars
  <2> QED BY <1>2, <2>1, <2>2, <2>3 DEF ConsumeAtAdmitted
<1> QED BY <1>1, <1>2

\* Consumption at the current revision.
LEMMA ConsumeAtCurrentInv ==
    ASSUME Inv, NEW x \in Executors, ConsumeAtCurrent(x) PROVE Inv'
<1> USE OutboxConstants DEF Inv, SafetyInv
<1> DEFINE e == exec[x].effect
<1>a. /\ exec[x].pc \in Consuming /\ e \in Effects /\ exec[x].rev \in Nat
      /\ UNCHANGED <<turn, worker, user, intent, outbox, calls, crashes>>
  BY DEF ConsumeAtCurrent, At, Consuming, ExecShape, TypeOK, Locals
<1>j. outbox[e].job \in Jobs
  BY <1>a DEF TypeOK, Rows
<1>1. CASE exec[x].rev \in events[e]
  <2>1. Goto(x, "marking") /\ UNCHANGED <<rev, op, events, applied>>
    BY <1>1 DEF ConsumeAtCurrent
  <2>2. Settled(e)
    BY <1>1, <1>a DEF ReductionShape
  <2> QED BY <1>a, <2>1, <2>2, ConsumerMoves DEF jobVars
<1>2. CASE exec[x].rev \notin events[e]
  <2>1. CASE ApplyObservation(x, exec[x].rev)
    BY <1>a, <1>j, <2>1, ApplyKeeps
  <2>2. CASE /\ Goto(x, "rereading") /\ exec[x].tries < ConsumeRetries
             /\ UNCHANGED <<rev, op, events, applied>>
    BY <1>a, <2>2, ConsumerMoves DEF jobVars
  <2>3. CASE Finish(x) /\ UNCHANGED <<rev, op, events, applied>>
    BY <1>a, <2>3, ConsumerStops DEF jobVars
  <2> QED BY <1>2, <2>1, <2>2, <2>3 DEF ConsumeAtCurrent
<1> QED BY <1>1, <1>2

\* The initial state satisfies the invariant.
LEMMA InitInv == Init => Inv
<1> SUFFICES ASSUME Init PROVE Inv
  OBVIOUS
<1> USE OutboxConstants DEF Init
<1>1. /\ NoRow \in Rows /\ NoRow.status = "absent" /\ NoRow.lease = 0
      /\ NoRow.fence = FALSE /\ NoRow.consumed = FALSE
  BY DEF NoRow, NewRow, Rows, Statuses
<1>2. Idle \in Locals /\ Idle.pc = "idle"
  BY DEF Idle, Locals, Pcs, Observations
<1>3. TypeOK
  BY <1>1, <1>2 DEF TypeOK
<1>4. LeaseShape /\ CallShape
  BY <1>1 DEF LeaseShape, CallShape, Unleased
<1>5. ExecShape /\ FenceShape
  BY <1>2 DEF ExecShape, FenceShape, Row, At, Draining, InHandler, Consuming
<1>6. AdmissionShape
  BY <1>1 DEF AdmissionShape, JobShape, AdmittedShape
<1>7. ReductionShape
  BY <1>1, <1>2 DEF ReductionShape, At
<1> QED BY <1>3, <1>4, <1>5, <1>6, <1>7 DEF Inv, SafetyInv

\* Every step preserves the invariant.
LEMMA NextInv == Inv /\ [Next]_vars => Inv'
<1> SUFFICES ASSUME Inv, [Next]_vars PROVE Inv'
  OBVIOUS
<1>1. CASE JobStep
  BY <1>1, ClaimWorkerInv, ReleaseDeadWorkerInv, TouchInv, AdmitInv,
     StageTerminalIntentInv, RelinquishInv, ResumeInv, ReconcilePromptInv,
     ResolveManualInv, NextTurnInv DEF JobStep
<1>2. ASSUME NEW x \in Executors, DrainStep(x) PROVE Inv'
  BY <1>2, ClaimOutboxInv, ClaimNothingInv, HandlerRaisesInv, HandlerDeclinesInv,
     MarkDispatchedInv, MarkRefusedInv, ClassifyRefusalInv, CallProviderInv,
     HandlerConfirmsInv, CheckDispatchedInv, ReleaseOutboxLeaseInv, ObserveOutboxInv
     DEF DrainStep
<1>3. ASSUME NEW x \in Executors, ConsumeStep(x) PROVE Inv'
  BY <1>3, LoadResultInv, ConsumeAtAdmittedInv, RereadJobInv, ConsumeAtCurrentInv,
     MarkConsumedInv DEF ConsumeStep
<1>4. CASE UNCHANGED vars
  <2>1. UNCHANGED <<jobVars, outbox, exec, calls, events, applied, crashes>>
    BY <1>4 DEF vars, jobVars
  <2>2. TypeOK'
    BY <2>1 DEF Inv, TypeOK, jobVars
  <2>3. AdmissionShape' /\ \A f \in Effects : Settled(f) => Settled(f)'
    BY <2>1, KeepAdmission
  <2>4. ReductionShape'
    BY <2>1, <2>3, KeepReduction DEF At
  <2> QED BY <2>1, <2>2, <2>3, <2>4, KeepExecution DEF Inv, SafetyInv
<1> QED BY <1>1, <1>2, <1>3, <1>4, RenewInv, CrashInv, LeaseExpiresInv, ReapInv DEF Next

\* The invariant implies each safety property of the runs.
LEMMA InvImplies ==
    Inv => /\ SubmittedAtMostOnce /\ OutcomeHonest /\ AppliedAtMostOnce
           /\ ConsumedNotStranded
<1> SUFFICES ASSUME Inv
             PROVE  /\ SubmittedAtMostOnce /\ OutcomeHonest /\ AppliedAtMostOnce
                    /\ ConsumedNotStranded
  OBVIOUS
<1> USE DEF Inv, SafetyInv
<1>1. SubmittedAtMostOnce
  BY DEF SubmittedAtMostOnce, CallShape, TypeOK
<1>2. OutcomeHonest
  BY DEF OutcomeHonest, CallShape, FenceShape, ExecShape, LeaseShape, TypeOK, Row, At,
         Draining, InHandler
<1>3. AppliedAtMostOnce
  BY DEF AppliedAtMostOnce, ReductionShape, TypeOK
<1>4. ConsumedNotStranded
  BY DEF ConsumedNotStranded, ReductionShape, Settled
<1> QED BY <1>1, <1>2, <1>3, <1>4

\* The types hold in every reachable state; in particular no row is leased more
\* often than the retry budget allows.
THEOREM TypeCorrect == Spec => []TypeOK
<1>1. Inv => TypeOK
  BY DEF Inv
<1> QED BY <1>1, InitInv, NextInv, PTL DEF Spec

\* The provider is called at most once per effect, however many executors, leases,
\* crashes and retries there are: the submit fence of mark_outbox_dispatched works.
THEOREM AtMostOnceSubmission == Spec => []SubmittedAtMostOnce
  BY InitInv, NextInv, InvImplies, PTL DEF Spec

\* A recorded outcome never claims that a sent prompt was not sent, or the reverse.
THEOREM HonestOutcomes == Spec => []OutcomeHonest
  BY InitInv, NextInv, InvImplies, PTL DEF Spec

\* An observation changes its job at most once.
THEOREM AtMostOnceReduction == Spec => []AppliedAtMostOnce
  BY InitInv, NextInv, InvImplies, PTL DEF Spec

\* A consumed result is one its job no longer waits for.
THEOREM NoStrandedResult == Spec => []ConsumedNotStranded
  BY InitInv, NextInv, InvImplies, PTL DEF Spec

\* Only mark_outbox_dispatched sets a fence.
LEMMA FenceFrame ==
    ASSUME Inv, [Next]_vars, NEW e \in Effects, ~outbox[e].fence, outbox'[e].fence
    PROVE  \E x \in Executors : MarkDispatched(x)
<1> USE DEF Inv
<1> DEFINE Kept == outbox'[e].fence => outbox[e].fence
<1>1. ASSUME UNCHANGED outbox PROVE Kept
  BY <1>1
<1>2. ASSUME NEW j \in Jobs, NEW f \in Effects, Admit(j, f) PROVE Kept
  BY <1>2 DEF Admit, NewRow, TypeOK
<1>3. ASSUME NEW x \in Executors, NEW f \in Effects, ClaimOutbox(x, f) PROVE Kept
  <2>1. AbandonStale \in [Effects -> Rows] /\ AbandonStale[e].fence = outbox[e].fence
    BY AbandonKeeps
  <2> QED BY <1>3, <2>1 DEF ClaimOutbox, Rows
<1>4. ASSUME NEW x \in Executors, ClaimNothing(x) PROVE Kept
  BY <1>4, AbandonKeeps DEF ClaimNothing
<1>5. ASSUME NEW f \in Effects, NEW n, NEW s, outbox' = Complete(f, n, s) PROVE Kept
  BY <1>5 DEF Complete, TypeOK, Rows
<1>6. ASSUME NEW x \in Executors, ReleaseOutboxLease(x) \/ ObserveOutbox(x) PROVE Kept
  <2>1. exec[x].effect \in Effects
    BY <1>6 DEF ReleaseOutboxLease, ObserveOutbox, SafetyInv, ExecShape, Draining, At
  <2> QED BY <1>1, <1>5, <1>6, <2>1 DEF ReleaseOutboxLease, ObserveOutbox
<1>7. ASSUME NEW x \in Executors, Renew(x) \/ MarkConsumed(x) PROVE Kept
  <2>1. exec[x].effect \in Effects
    BY <1>7 DEF Renew, MarkConsumed, SafetyInv, ExecShape, Draining, Consuming, At
  <2>2. CASE Renew(x)
    BY <2>1, <2>2 DEF Renew, TypeOK, Rows
  <2>3. CASE MarkConsumed(x)
    BY <2>1, <2>3 DEF MarkConsumed, TypeOK, Rows
  <2> QED BY <1>7, <2>2, <2>3
<1>8. ASSUME NEW f \in Effects, LeaseExpires(f) PROVE Kept
  BY <1>8 DEF LeaseExpires, TypeOK, Rows
<1>9. ASSUME Reap PROVE Kept
  <2>1. CASE Expired(e)
    <3>1. outbox'[e] = Complete(e, outbox[e].lease, ReapedStatus(e))[e]
      BY <1>9, <2>1 DEF Reap
    <3> QED BY <3>1 DEF Complete, TypeOK, Rows
  <2>2. CASE ~Expired(e)
    BY <1>9, <2>2 DEF Reap
  <2> QED BY <2>1, <2>2
<1>10. ~Kept
  OBVIOUS
<1> HIDE DEF Kept
<1>11. CASE JobStep
  BY <1>11, <1>1, <1>2, <1>10 DEF JobStep, ClaimWorker, ReleaseDeadWorker, Touch,
     StageTerminalIntent, Relinquish, Resume, ReconcilePrompt, ResolveManual, NextTurn
<1>12. ASSUME NEW x \in Executors, DrainStep(x) PROVE \E y \in Executors : MarkDispatched(y)
  BY <1>12, <1>1, <1>3, <1>4, <1>6, <1>10 DEF DrainStep, HandlerRaises, HandlerDeclines,
     MarkRefused, ClassifyRefusal, CallProvider, HandlerConfirms, CheckDispatched
<1>13. ASSUME NEW x \in Executors, ConsumeStep(x) PROVE FALSE
  BY <1>13, <1>1, <1>7, <1>10 DEF ConsumeStep, LoadResult, ConsumeAtAdmitted, RereadJob,
     ConsumeAtCurrent
<1> QED BY <1>1, <1>7, <1>8, <1>9, <1>10, <1>11, <1>12, <1>13 DEF Next, Crash, vars

\* The fence is crossed only while the admission stands: no prompt is dispatched
\* for a job after a cancellation, a takeover or a requeue has committed.
THEOREM FenceFollowsAdmission == Spec => FenceOnlyWhileAdmitted
<1>1. ASSUME Inv, [Next]_vars, NEW e \in Effects, ~outbox[e].fence, outbox'[e].fence
      PROVE  Accepts(outbox[e].job, e)
  <2> USE DEF Inv, SafetyInv
  <2>1. PICK x \in Executors : MarkDispatched(x)
    BY <1>1, FenceFrame
  <2>2. exec[x].effect = e
    BY <1>1, <2>1 DEF MarkDispatched, TypeOK
  <2>3. outbox[e].status # "absent" /\ rev[outbox[e].job] = outbox[e].expected
    BY <2>1, <2>2 DEF MarkDispatched, CanMark, Row
  <2>4. AdmittedShape(e)
    BY <1>1 DEF AdmissionShape
  <2> QED BY <2>3, <2>4 DEF AdmittedShape
<1>2. Inv /\ [Next]_vars =>
        [\A e \in Effects : ~outbox[e].fence /\ outbox'[e].fence =>
             Accepts(outbox[e].job, e)]_vars
  BY <1>1
<1> QED BY <1>2, InitInv, NextInv, PTL DEF Spec, FenceOnlyWhileAdmitted

(* What a step does to the outcome of a row. *)

\* The statuses of an admitted row whose outcome is still open.
Live == {"running"} \cup Unleased

\* A row stays as it is, or an unsettled one is settled or given back for a retry.
RowMoves(e) ==
    /\ outbox'[e].job = outbox[e].job
    /\ outbox'[e].consumed = outbox[e].consumed
    /\ \/ outbox'[e].status = outbox[e].status
       \/ outbox[e].status \in Live /\ outbox'[e].status \in Unleased \cup Terminal

\* A transaction over the rows that claims, admits, sends and consumes nothing.
Sweeps == UNCHANGED calls /\ \A e \in Effects : RowMoves(e)

\* A claim is a sweep of the other rows that starts one row of an unheld target.
Claims(e) ==
    /\ UNCHANGED calls
    /\ \A f \in Effects \ {e} : RowMoves(f)
    /\ outbox[e].status \in Unleased /\ outbox'[e].status = "running"
    /\ outbox'[e].job = outbox[e].job /\ outbox'[e].consumed = outbox[e].consumed
    /\ \A f \in Effects : outbox[f].job = outbox[e].job => outbox[f].status # "running"

\* Recording a status for a running lease settles that row or changes nothing.
LEMMA CompleteSweeps ==
    ASSUME Inv, NEW f \in Effects, NEW n, NEW s \in Unleased \cup Terminal,
           NEW e \in Effects, outbox'[e] = Complete(f, n, s)[e]
    PROVE  RowMoves(e)
  BY DEF Inv, TypeOK, Rows, Complete, RowMoves, Live

\* claim_due_outbox.
LEMMA ClaimOutboxClaims ==
    ASSUME Inv, NEW x \in Executors, NEW e \in Effects, ClaimOutbox(x, e)
    PROVE  Claims(e)
<1> USE DEF Inv, SafetyInv
<1>1. /\ AbandonStale \in [Effects -> Rows]
      /\ \A f \in Effects : /\ AbandonStale[f].job = outbox[f].job
                            /\ AbandonStale[f].consumed = outbox[f].consumed
                            /\ \/ AbandonStale[f].status = outbox[f].status
                               \/ /\ outbox[f].status \in Unleased
                                  /\ AbandonStale[f].status = "failed"
  BY AbandonKeeps
<1>2. \A f \in Effects \ {e} : outbox'[f] = AbandonStale[f]
  BY <1>1 DEF ClaimOutbox
<1>3. /\ outbox'[e].status = "running" /\ outbox'[e].job = outbox[e].job
      /\ outbox'[e].consumed = outbox[e].consumed
  BY <1>1 DEF ClaimOutbox, Rows
<1>4. \A f \in Effects \ {e} : RowMoves(f)
  BY <1>1, <1>2 DEF RowMoves, Live, Terminal
<1>5. /\ outbox[e].status \in Unleased
      /\ \A f \in Effects : outbox[f].job = outbox[e].job => outbox[f].status # "running"
  BY DEF ClaimOutbox, Claimable, Due, LeaseShape
<1> QED BY <1>3, <1>4, <1>5 DEF Claims, ClaimOutbox

\* Every step sweeps the rows, claims one, admits one, sends one or consumes one.
LEMMA StepKinds ==
    ASSUME Inv, [Next]_vars
    PROVE  \/ Sweeps
           \/ \E e \in Effects : Claims(e)
           \/ \E j \in Jobs, e \in Effects : Admit(j, e)
           \/ \E x \in Executors : CallProvider(x)
           \/ \E x \in Executors : MarkConsumed(x)
<1> USE DEF Inv
<1>1. ASSUME UNCHANGED <<outbox, calls>> PROVE Sweeps
  BY <1>1 DEF Sweeps, RowMoves
<1>2. ASSUME NEW x \in Executors, ClaimNothing(x) PROVE Sweeps
  <2>1. \A f \in Effects : outbox[f] \in Rows
    BY DEF TypeOK
  <2>2. ASSUME NEW f \in Effects PROVE RowMoves(f)
    BY <1>2, <2>1, <2>2 DEF ClaimNothing, AbandonStale, Stale, Rows, RowMoves, Live, Terminal
  <2> QED BY <1>2, <2>2 DEF Sweeps, ClaimNothing
<1>3. ASSUME NEW x \in Executors, MarkDispatched(x) \/ Renew(x) PROVE Sweeps
  <2>1. exec[x].effect \in Effects
    BY <1>3 DEF MarkDispatched, Renew, SafetyInv, ExecShape, Draining, InHandler, At
  <2>2. CASE MarkDispatched(x)
    BY <2>1, <2>2 DEF MarkDispatched, TypeOK, Rows, Sweeps, RowMoves
  <2>3. CASE Renew(x)
    BY <2>1, <2>3 DEF Renew, TypeOK, Rows, Sweeps, RowMoves
  <2> QED BY <1>3, <2>2, <2>3
<1>4. ASSUME NEW x \in Executors, ObserveOutbox(x) PROVE Sweeps
  <2>1. exec[x].effect \in Effects
    BY <1>4 DEF ObserveOutbox, SafetyInv, ExecShape, Draining, At
  <2>2. ObservedStatus(x) \in Unleased \cup Terminal
    BY DEF ObservedStatus, Unleased, Terminal
  <2>3. \A e \in Effects : RowMoves(e)
    BY <1>4, <2>1, <2>2, CompleteSweeps DEF ObserveOutbox
  <2> QED BY <1>4, <2>3 DEF Sweeps, ObserveOutbox
<1>5. ASSUME NEW x \in Executors, ReleaseOutboxLease(x) PROVE Sweeps
  <2>1. exec[x].effect \in Effects
    BY <1>5 DEF ReleaseOutboxLease, SafetyInv, ExecShape, Draining, At
  <2> DEFINE s == IF exec[x].lease < MaxAttempts THEN "failed-retryable" ELSE "failed"
  <2>2. s \in Unleased \cup Terminal
    BY DEF Unleased, Terminal
  <2>3. CASE outbox' = Complete(exec[x].effect, exec[x].lease, s)
    <3> HIDE DEF s
    <3>1. \A e \in Effects : RowMoves(e)
      BY <2>1, <2>2, <2>3, CompleteSweeps
    <3> QED BY <1>5, <3>1 DEF Sweeps, ReleaseOutboxLease
  <2> QED BY <1>1, <1>5, <2>3 DEF ReleaseOutboxLease
<1>6. ASSUME NEW f \in Effects, LeaseExpires(f) PROVE Sweeps
  BY <1>6 DEF LeaseExpires, TypeOK, Rows, Sweeps, RowMoves
<1>7. ASSUME Reap PROVE Sweeps
  <2>1. ASSUME NEW e \in Effects PROVE RowMoves(e)
    <3>1. CASE Expired(e)
      <4>1. outbox'[e] = Complete(e, outbox[e].lease, ReapedStatus(e))[e]
        BY <1>7, <3>1 DEF Reap
      <4>2. ReapedStatus(e) \in Unleased \cup Terminal
        BY DEF ReapedStatus, Unleased, Terminal
      <4> QED BY <4>1, <4>2, CompleteSweeps
    <3>2. CASE ~Expired(e)
      BY <1>7, <3>2 DEF Reap, RowMoves
    <3> QED BY <3>1, <3>2
  <2> QED BY <1>7, <2>1 DEF Sweeps, Reap
<1> DEFINE Goal == \/ Sweeps
                   \/ \E e \in Effects : Claims(e)
                   \/ \E j \in Jobs, e \in Effects : Admit(j, e)
                   \/ \E x \in Executors : CallProvider(x)
                   \/ \E x \in Executors : MarkConsumed(x)
<1>11. ASSUME JobStep PROVE Goal
  BY <1>11, <1>1 DEF JobStep, ClaimWorker, ReleaseDeadWorker, Touch,
     StageTerminalIntent, Relinquish, Resume, ReconcilePrompt, ResolveManual, NextTurn
<1>12. ASSUME NEW x \in Executors, DrainStep(x) PROVE Goal
  BY <1>12, <1>1, <1>2, <1>3, <1>4, <1>5, ClaimOutboxClaims DEF DrainStep, HandlerRaises,
     HandlerDeclines, MarkRefused, ClassifyRefusal, HandlerConfirms, CheckDispatched
<1>13. ASSUME NEW x \in Executors, ConsumeStep(x) PROVE Goal
  BY <1>13, <1>1 DEF ConsumeStep, LoadResult, ConsumeAtAdmitted, RereadJob,
     ConsumeAtCurrent
<1> HIDE DEF Goal
<1>14. Goal
  <2>1. Sweeps => Goal
    BY DEF Goal
  <2>2. CASE UNCHANGED vars
    BY <1>1, <2>1, <2>2 DEF vars
  <2>3. ASSUME NEW x \in Executors, Crash(x) PROVE Goal
    BY <1>1, <2>1, <2>3 DEF Crash
  <2> QED BY <1>3, <1>6, <1>7, <1>11, <1>12, <1>13, <2>1, <2>2, <2>3 DEF Next
<1> QED BY <1>14 DEF Goal

(* One running row per target, final outcomes, and the contract. *)

\* A step that admits, sends or consumes leaves the other outcomes alone.
LEMMA AdmitOutcome ==
    ASSUME Inv, NEW j \in Jobs, NEW e \in Effects, Admit(j, e)
    PROVE  /\ UNCHANGED calls
           /\ outbox[e].status = "absent" /\ outbox'[e].status = "pending"
           /\ outbox'[e].consumed = FALSE
           /\ \A f \in Effects \ {e} : outbox'[f] = outbox[f]
  BY DEF Inv, TypeOK, Admit, NewRow

\* The call changes no row.
LEMMA CallOutcome ==
    ASSUME Inv, NEW x \in Executors, CallProvider(x)
    PROVE  /\ UNCHANGED outbox
           /\ exec[x].effect \in Effects
           /\ calls[exec[x].effect] = 0
           /\ calls' = [calls EXCEPT ![exec[x].effect] = 1]
           /\ outbox[exec[x].effect].status \in {"running", "unknown"}
<1> USE DEF Inv, SafetyInv
<1>1. exec[x].effect \in Effects
  BY DEF CallProvider, ExecShape, Draining, InHandler, At
<1>2. calls[exec[x].effect] = 0
  BY DEF CallProvider, FenceShape
<1>3. outbox[exec[x].effect].status \in {"running", "unknown"}
  BY <1>1 DEF CallProvider, FenceShape, LeaseShape, Row, At
<1> QED BY <1>1, <1>2, <1>3 DEF CallProvider

\* The consumption mark is set on a settled row and changes nothing else of any row.
LEMMA ConsumeOutcome ==
    ASSUME Inv, NEW x \in Executors, MarkConsumed(x)
    PROVE  /\ UNCHANGED calls
           /\ exec[x].effect \in Effects
           /\ outbox[exec[x].effect].status \in Terminal
           /\ outbox'[exec[x].effect].consumed = TRUE
           /\ \A f \in Effects : /\ outbox'[f].status = outbox[f].status
                                 /\ outbox'[f].job = outbox[f].job
                                 /\ f # exec[x].effect => outbox'[f] = outbox[f]
<1>1. exec[x].effect \in Effects /\ outbox[exec[x].effect].status \in Terminal
  BY DEF Inv, SafetyInv, MarkConsumed, ExecShape, Consuming, Row, At
<1> QED BY <1>1 DEF MarkConsumed, Inv, TypeOK, Rows

\* Two effects on one provider target never run together, whatever executors claim,
\* renew, crash or are reaped: the concurrency key of claim_due_outbox works.
THEOREM TargetsExclusive == Spec => []OneRunningPerTarget
<1>1. Init => OneRunningPerTarget
  BY DEF Init, OneRunningPerTarget, NoRow, NewRow
<1>2. ASSUME Inv, OneRunningPerTarget, [Next]_vars PROVE OneRunningPerTarget'
  <2> SUFFICES ASSUME NEW e \in Effects, NEW f \in Effects,
                      outbox'[e].status = "running", outbox'[f].status = "running",
                      outbox'[e].job = outbox'[f].job
               PROVE  e = f
    BY DEF OneRunningPerTarget
  <2>1. ASSUME NEW g \in Effects, RowMoves(g), outbox'[g].status = "running"
        PROVE  outbox[g].status = "running" /\ outbox[g].job = outbox'[g].job
    BY <2>1 DEF RowMoves, Unleased, Terminal
  <2>2. CASE Sweeps
    BY <1>2, <2>1, <2>2 DEF Sweeps, OneRunningPerTarget
  <2>3. ASSUME NEW c \in Effects, Claims(c) PROVE e = f
    BY <1>2, <2>1, <2>3 DEF Claims, OneRunningPerTarget
  <2>4. ASSUME NEW j \in Jobs, NEW a \in Effects, Admit(j, a) PROVE e = f
    BY <1>2, <2>4, AdmitOutcome DEF OneRunningPerTarget
  <2>5. ASSUME NEW x \in Executors, CallProvider(x) PROVE e = f
    <3>1. UNCHANGED outbox
      BY <1>2, <2>5, CallOutcome
    <3> QED BY <1>2, <3>1 DEF OneRunningPerTarget
  <2>6. ASSUME NEW x \in Executors, MarkConsumed(x) PROVE e = f
    <3>1. \A g \in Effects : /\ outbox'[g].status = outbox[g].status
                             /\ outbox'[g].job = outbox[g].job
      BY <1>2, <2>6, ConsumeOutcome
    <3> QED BY <1>2, <3>1 DEF OneRunningPerTarget
  <2> QED BY <1>2, <2>2, <2>3, <2>4, <2>5, <2>6, StepKinds
<1> QED BY <1>1, <1>2, InitInv, NextInv, PTL DEF Spec

\* No late observation, reaper or claim rewrites a recorded outcome.
LEMMA TerminalKept ==
    ASSUME Inv, [Next]_vars, NEW e \in Effects, outbox[e].status \in Terminal
    PROVE  outbox'[e].status = outbox[e].status
<1>1. ASSUME RowMoves(e) PROVE outbox'[e].status = outbox[e].status
  BY <1>1 DEF RowMoves, Live, Unleased, Terminal
<1>2. CASE Sweeps
  BY <1>1, <1>2 DEF Sweeps
<1>3. ASSUME NEW c \in Effects, Claims(c) PROVE outbox'[e].status = outbox[e].status
  BY <1>1, <1>3 DEF Claims, Unleased, Terminal
<1>4. ASSUME NEW j \in Jobs, NEW a \in Effects, Admit(j, a)
      PROVE  outbox'[e].status = outbox[e].status
  BY <1>4, AdmitOutcome DEF Terminal
<1>5. ASSUME NEW x \in Executors, CallProvider(x) \/ MarkConsumed(x)
      PROVE  outbox'[e].status = outbox[e].status
  BY <1>5, CallOutcome, ConsumeOutcome
<1> QED BY <1>2, <1>3, <1>4, <1>5, StepKinds

\* An outcome, once recorded, is final.
THEOREM FinalOutcomes == Spec => OutcomeFinal
<1>1. Inv /\ [Next]_vars =>
        [\A e \in Effects : outbox[e].status \in Terminal =>
             outbox'[e].status = outbox[e].status]_vars
  BY TerminalKept
<1> QED BY <1>1, InitInv, NextInv, PTL DEF Spec, OutcomeFinal

\* Rows that keep their outcome or settle honestly make a Settle of the contract.
LEMMA SettlesContract ==
    ASSUME Inv, Inv', UNCHANGED calls,
           \A e \in Effects :
               /\ outbox'[e].consumed = outbox[e].consumed
               /\ \/ ContractOutcome'[e] = ContractOutcome[e]
                  \/ ContractOutcome[e] = "open" /\ outbox'[e].status \in Terminal
    PROVE  [Contract!Next]_(Contract!vars)
<1> DEFINE S == {e \in Effects : ContractOutcome'[e] # ContractOutcome[e]}
           o == [e \in Effects |-> IF e \in S THEN outbox'[e].status ELSE "unknown"]
           handed == [e \in Effects |-> outbox[e].consumed]
<1>1. handed' = handed
  OBVIOUS
<1>2. \A e \in S : ContractOutcome[e] = "open" /\ outbox'[e].status \in Terminal
  OBVIOUS
<1>3. ASSUME NEW e \in S
      PROVE  /\ o[e] = "succeeded" => calls[e] = 1
             /\ o[e] = "failed" => calls[e] = 0
  <2>1. calls[e] \in Nat /\ calls'[e] = calls[e]
    BY DEF Inv, TypeOK
  <2>2. /\ outbox'[e].status = "succeeded" => calls'[e] = 1
        /\ outbox'[e].status = "failed" => ~(calls'[e] > 0)
    BY DEF Inv, SafetyInv, CallShape, LeaseShape
  <2> QED BY <2>1, <2>2
<1>4. o \in [Effects -> {"succeeded", "failed", "unknown"}]
  BY <1>2 DEF Terminal
<1>5. \A e \in S : ContractOutcome'[e] = o[e]
  BY <1>2 DEF ContractOutcome
<1>6. ContractOutcome' = [e \in Effects |-> IF e \in S THEN o[e] ELSE ContractOutcome[e]]
  <2>1. \A e \in Effects : ContractOutcome'[e] = IF e \in S THEN o[e] ELSE ContractOutcome[e]
    BY <1>5
  <2>2. ContractOutcome' = [e \in Effects |-> ContractOutcome'[e]]
    BY DEF ContractOutcome
  <2> QED BY <2>1, <2>2
<1>7. CASE S = {}
  <2>1. ContractOutcome' = ContractOutcome
    BY <1>7 DEF ContractOutcome
  <2> QED BY <1>1, <2>1 DEF Contract!vars
<1>8. CASE S # {}
  <2>1. S \in SUBSET Effects
    OBVIOUS
  <2> HIDE DEF S, o
  <2>2. Contract!Settle
    BY <1>1, <1>2, <1>3, <1>4, <1>6, <1>8, <2>1 DEF Contract!Settle
  <2> QED BY <2>2 DEF Contract!Next
<1> QED BY <1>7, <1>8

\* Every step of the outbox is a step of the contract, or changes nothing it sees.
LEMMA StepsKeepContract ==
    ASSUME Inv, Inv', [Next]_vars
    PROVE  [Contract!Next]_(Contract!vars)
<1> DEFINE handed == [e \in Effects |-> outbox[e].consumed]
<1>1. ASSUME NEW e \in Effects, RowMoves(e)
      PROVE  /\ outbox'[e].consumed = outbox[e].consumed
             /\ \/ ContractOutcome'[e] = ContractOutcome[e]
                \/ ContractOutcome[e] = "open" /\ outbox'[e].status \in Terminal
  BY <1>1 DEF RowMoves, ContractOutcome, Live, Unleased, Terminal
<1>2. CASE Sweeps
  <2>1. UNCHANGED calls
    BY <1>2 DEF Sweeps
  <2> QED BY <1>1, <1>2, <2>1, SettlesContract DEF Sweeps
<1>3. ASSUME NEW c \in Effects, Claims(c) PROVE [Contract!Next]_(Contract!vars)
  <2>1. outbox'[c].consumed = outbox[c].consumed /\ ContractOutcome'[c] = ContractOutcome[c]
    BY <1>3 DEF Claims, ContractOutcome, Unleased, Terminal
  <2>2. UNCHANGED calls /\ \A f \in Effects \ {c} : RowMoves(f)
    BY <1>3 DEF Claims
  <2> QED BY <1>1, <2>1, <2>2, SettlesContract
<1>4. ASSUME NEW j \in Jobs, NEW a \in Effects, Admit(j, a)
      PROVE  [Contract!Next]_(Contract!vars)
  <2>1. /\ UNCHANGED calls
        /\ outbox[a].status = "absent" /\ outbox'[a].status = "pending"
        /\ outbox'[a].consumed = FALSE
        /\ \A f \in Effects \ {a} : outbox'[f] = outbox[f]
    BY <1>4, AdmitOutcome
  <2>2. ContractOutcome[a] = "none"
    BY <2>1 DEF ContractOutcome, Terminal
  <2>3. ContractOutcome' = [ContractOutcome EXCEPT ![a] = "open"]
    BY <2>1 DEF ContractOutcome, Terminal
  <2>4. outbox[a].consumed = FALSE
    BY <2>1 DEF Inv, SafetyInv, ReductionShape, Settled, TypeOK, Rows
  <2>5. handed' = handed
    BY <2>1, <2>4
  <2>6. Contract!Admit(a)
    BY <2>1, <2>2, <2>3, <2>5 DEF Contract!Admit
  <2> QED BY <2>6 DEF Contract!Next
<1>5. ASSUME NEW x \in Executors, CallProvider(x) PROVE [Contract!Next]_(Contract!vars)
  <2>1. PICK e \in Effects : e = exec[x].effect
    BY <1>5, CallOutcome
  <2>2. UNCHANGED outbox /\ calls[e] = 0 /\ calls' = [calls EXCEPT ![e] = 1]
    BY <1>5, <2>1, CallOutcome
  <2>3. ContractOutcome[e] \in {"open", "unknown"}
    BY <1>5, <2>1, CallOutcome DEF ContractOutcome, Terminal
  <2>4. ContractOutcome' = ContractOutcome /\ handed' = handed
    BY <2>2 DEF ContractOutcome
  <2>5. Contract!Send(e)
    BY <2>2, <2>3, <2>4 DEF Contract!Send
  <2> QED BY <2>5 DEF Contract!Next
<1>6. ASSUME NEW x \in Executors, MarkConsumed(x) PROVE [Contract!Next]_(Contract!vars)
  <2>1. PICK e \in Effects : e = exec[x].effect
    BY <1>6, ConsumeOutcome
  <2>2. /\ UNCHANGED calls
        /\ outbox[e].status \in Terminal
        /\ outbox'[e].consumed = TRUE
        /\ \A f \in Effects : /\ outbox'[f].status = outbox[f].status
                              /\ f # e => outbox'[f] = outbox[f]
    BY <1>6, <2>1, ConsumeOutcome
  <2>3. ContractOutcome[e] \in {"succeeded", "failed", "unknown"}
    BY <2>2 DEF ContractOutcome, Terminal
  <2>4. ContractOutcome' = ContractOutcome
    BY <2>2 DEF ContractOutcome
  <2>5. handed' = [handed EXCEPT ![e] = TRUE]
    BY <2>2
  <2>6. Contract!Consume(e)
    BY <2>2, <2>3, <2>4, <2>5 DEF Contract!Consume
  <2> QED BY <2>6 DEF Contract!Next
<1> QED BY <1>2, <1>3, <1>4, <1>5, <1>6, StepKinds

\* Leases, fences, retries, executors that die and consumers that race implement
\* the contract of an effect that must not be repeated.
THEOREM KeepsContract == Spec => ImplementsContract
<1>1. Init => Contract!Init
  BY DEF Init, Contract!Init, ContractOutcome, NoRow, NewRow, Terminal
<1>2. Inv /\ Inv' /\ [Next]_vars => [Contract!Next]_(Contract!vars)
  BY StepsKeepContract
<1> QED BY <1>1, <1>2, InitInv, NextInv, PTL DEF Spec, ImplementsContract, Contract!Spec
=============================================================================
