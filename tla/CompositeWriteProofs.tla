------------------------ MODULE CompositeWriteProofs ------------------------
(***************************************************************************)
(* CompositeWrite for any number of parts, drafts, errors and crashes.     *)
(***************************************************************************)
EXTENDS CompositeWrite, WellFoundedInduction, TLAPS

Writing == {"next", "marked", "fenced", "out", "answered", "failed", "nostart"}
Before == {"launched", "start", "ready"}
Unsure == Doubt \cup {"manual_required"}
Survivor(p) == Merge /\ p = 1

\* The part a worker's loop stands at.
First(p) == /\ p \in Parts /\ job.part[p] # "created"
            /\ \A q \in Parts : q < p => job.part[q] = "created"

\* A part that may still be sent: nobody asked for it yet, or the worker is about to.
Unsent(p) ==
    \/ /\ job.part[p] = "planned"
       /\ ~(Linear /\ p = job.lead /\ First(p) /\ job.op \notin {"none", "planned"})
    \/ wk.pc \in {"marked", "fenced", "nostart"} /\ First(p)

\* What the provider has of a part agrees with what the job says of it.
PartTells(p) ==
    /\ job.part[p] = "created" => remote.writes[p] > 0
    /\ ~Survivor(p) => remote.writes[p] + (IF remote.inflight = p THEN 1 ELSE 0) <= 1
    /\ Unsent(p) => /\ remote.inflight # p
                    /\ ~Survivor(p) => remote.writes[p] = 0
                    /\ Survivor(p) /\ job.op # "none" => remote.holds # job.plan
    /\ Merge /\ p # 1 /\ job.part[1] # "created" /\ job.part[p] # "created" =>
         remote.writes[p] = 0 /\ remote.inflight # p
    /\ job.op \in {"none", "planned"} /\ ~Survivor(p) /\ job.part[p] # "created" =>
         remote.writes[p] = 0
    /\ remote.inflight = p => /\ job.part[p] # "created"
                              /\ Survivor(p) => remote.holds # job.plan

\* The parts are taken up in order; only a survivor is ever taken up again.
OrderTells(p, q) ==
    p < q => /\ remote.inflight = q \/ remote.writes[q] > 0 => remote.writes[p] > 0
             /\ job.part[q] # "planned" => job.part[p] = "created" \/ Survivor(p)

\* Every write of a survivor has a confirmation of its own.
CountTells ==
    /\ Merge => remote.writes[1] + (IF remote.inflight = 1 THEN 1 ELSE 0)
                  + (IF job.confirmed /\ Unsent(1) THEN 1 ELSE 0) <= yeses.count
    /\ yeses.count <= job.plan
    /\ ~job.confirmed /\ job.op # "none" => yeses.count < job.plan
    /\ job.confirmed => yeses.plan = job.plan
    /\ job.op = "none" => /\ job.plan = 0 /\ job.lead = 0 /\ ~job.confirmed
                          /\ \A p \in Parts : job.part[p] = "planned"
    /\ job.op # "none" => job.plan > 0
    /\ remote.holds <= job.plan
    /\ Merge /\ remote.holds > 0 => remote.writes[1] > 0
    /\ remote.inflight # 0 => job.op \in Unsure /\ remote.sent = job.plan
    /\ IF Merge THEN job.lead = IF job.op = "none" THEN 0 ELSE 1 ELSE job.lead \in {0, P}

\* The status of the job agrees with its operation.
JobTells ==
    /\ job.op = "created" =>
          /\ job.status \in Terminal /\ ~job.owned
          /\ \A p \in Parts : job.part[p] = "created"
                               \/ (Merge /\ p # 1 /\ job.part[p] = "manual_required")
    /\ job.op = "manual_required" =>
          ~job.owned /\ (job.status \in Terminal \cup {"blocked"} \/ job.intent # "none")
    /\ Merge /\ job.part[1] = "manual_required" => job.op = "manual_required"
    /\ job.status = "awaiting" =>
          job.op = "planned" /\ ~job.confirmed /\ ~Uncertain /\ job.intent = "none"
    /\ job.intent # "none" => job.status = "reconciling"

\* Where the worker stands agrees with the job, whatever the scan wrote meanwhile.
WorkerTells ==
    /\ wk.pc \in Before => job.op \in {"none", "planned"} /\ ~Uncertain
    /\ wk.pc = "ready" => job.op = "planned"
    /\ wk.pc \in Writing => job.confirmed /\ job.op # "none"
    /\ wk.pc = "next" /\ job.owned => job.op = "planned"
    /\ wk.pc = "marked" /\ ~Linear => job.op \in Unsure
    /\ wk.pc = "fenced" => Linear /\ job.op \in Unsure
    /\ wk.pc \in {"marked", "fenced"} =>
          \A p \in Parts : First(p) /\ job.part[p] = "planned" => Linear /\ p = job.lead
    /\ wk.pc = "answered" =>
          remote.inflight = 0 /\ \A p \in Parts : First(p) => remote.writes[p] > 0

\* While a scan reconciles a part no worker begins, and none takes the part up again.
Busy == scan.pc \in {"reconcile", "settle"}
ScanTells ==
    /\ Busy => /\ scan.part \in Parts /\ wk.pc \notin Before /\ job.status # "awaiting"
               /\ job.op # "none"
               /\ job.part[scan.part] # "manual_required"
               /\ job.part[scan.part] = "planned" => wk.pc = "off"
    /\ scan.pc = "settle" /\ scan.visible =>
          /\ remote.writes[scan.part] > 0
          /\ job.part[scan.part] # "created" =>
                /\ remote.inflight # scan.part
                /\ ~(wk.pc \in {"marked", "fenced", "nostart"} /\ First(scan.part))

Inv == /\ TypeOK /\ CountTells /\ JobTells /\ WorkerTells /\ ScanTells
       /\ \A p \in Parts : PartTells(p)
       /\ \A p, q \in Parts : OrderTells(p, q)

-----------------------------------------------------------------------------

Ops == {"none", "planned", "submitting", "submitted", "ambiguous", "created", "manual_required"}
States == {"planned", "submitted", "ambiguous", "created", "manual_required"}
Jobs == [status : Active \cup Terminal, op : Ops, part : [Parts -> States],
         lead : 0..P, plan : Plans, resolved : 0..2, confirmed : BOOLEAN,
         owned : BOOLEAN, reconcile : BOOLEAN, intent : {"none", "failed", "cancelled"}]
Workers == [pc : {"off", "release"} \cup Before \cup Writing, clean : BOOLEAN]
Scans == [pc : {"idle", "reconcile", "settle", "recover"}, part : 0..P, visible : BOOLEAN]
Remotes == [inflight : 0..P, sent : Plans, writes : [Parts -> 0..MaxPlans],
            holds : Plans, drift : BOOLEAN]
Yeses == [count : 0..MaxPlans, plan : Plans]
Spendings == [edits : 0..MaxEdits, errors : 0..MaxErrors, crashes : 0..MaxCrashes,
              cancels : 0..MaxCancels]

Pointing == {"marked", "fenced", "nostart"}

\* The type invariant, by the names of its sets.
LEMMA Types ==
    TypeOK <=> /\ kind \in Kinds /\ job \in Jobs /\ wk \in Workers /\ scan \in Scans
               /\ cancel \in {"idle", "stop", "release"} /\ remote \in Remotes /\ yeses \in Yeses
               /\ spent \in Spendings
<1>1. {"off", "release"} \cup Before \cup Writing =
        {"off", "launched", "start", "ready", "next", "marked", "fenced", "out",
                     "answered", "failed", "nostart", "release"}
    BY DEF Before, Writing
<1> QED
    BY <1>1 DEF TypeOK, Jobs, Workers, Scans, Remotes, Yeses, Spendings, Ops, States

\* The same for the state after a step.
LEMMA TypesNext ==
    ASSUME kind' \in Kinds, job' \in Jobs, wk' \in Workers, scan' \in Scans,
           cancel' \in {"idle", "stop", "release"}, remote' \in Remotes, yeses' \in Yeses,
           spent' \in Spendings
    PROVE  TypeOK'
<1>1. {"off", "release"} \cup Before \cup Writing =
        {"off", "launched", "start", "ready", "next", "marked", "fenced", "out",
                     "answered", "failed", "nostart", "release"}
    BY DEF Before, Writing
<1> QED
    BY <1>1 DEF TypeOK, Jobs, Workers, Scans, Remotes, Yeses, Spendings, Ops, States

\* The types the invariant gives.
LEMMA Typed ==
    ASSUME Inv
    PROVE  /\ kind \in Kinds /\ job \in Jobs /\ wk \in Workers /\ scan \in Scans
           /\ cancel \in {"idle", "stop", "release"} /\ remote \in Remotes /\ yeses \in Yeses
           /\ spent \in Spendings
    BY Types DEF Inv

\* The parts are numbered, and the first is not the last.
LEMMA PartsAre ==
    /\ P \in Nat /\ P > 1 /\ 1 \in Parts /\ P \in Parts /\ 0 \notin Parts
    /\ \A p \in Parts : p \in Nat /\ p > 0 /\ p \in 0..P
<1>1. P \in Nat /\ P > 1
    BY CompositeConstants
<1> QED
    BY <1>1 DEF Parts

\* What is written never changes.
LEMMA KindKept ==
    ASSUME UNCHANGED kind
    PROVE  (Merge' <=> Merge) /\ (Linear' <=> Linear) /\ \A p : Survivor(p)' <=> Survivor(p)
    BY DEF Merge, Linear, Survivor

\* A step that uses up none of the bounds.
LEMMA NothingSpent == ASSUME Inv, UNCHANGED spent PROVE spent' \in Spendings
    BY Typed

\* A failed provider call.
LEMMA ErrsSpends == ASSUME Inv, Errs PROVE spent' \in Spendings
<1>1. spent \in Spendings /\ spent.errors + 1 \in 0..MaxErrors
    BY Typed, CompositeConstants DEF Errs, Spendings
<1> QED
    BY <1>1 DEF Errs, Spendings

\* A process that dies.
LEMMA CrashSpends == ASSUME Inv, Crashes PROVE spent' \in Spendings
<1>1. spent \in Spendings /\ spent.crashes + 1 \in 0..MaxCrashes
    BY Typed, CompositeConstants DEF Crashes, Spendings
<1> QED
    BY <1>1 DEF Crashes, Spendings

\* A worker that is gone.
LEMMA OffTyped == Off \in Workers /\ Off.pc = "off"
    BY DEF Off, Workers

\* A worker that goes on, or that wrote the job.
LEMMA GoFields ==
    ASSUME Inv, NEW l \in {"off", "release"} \cup Before \cup Writing
    PROVE  Go(l) \in Workers /\ Go(l).pc = l /\ Wrote(l) \in Workers /\ Wrote(l).pc = l
<1>1. wk \in Workers
    BY Typed
<1> QED
    BY <1>1 DEF Go, Wrote, Workers

-----------------------------------------------------------------------------

\* The operation, its parts, its plan and its confirmation stay as they are.
SameCore == /\ job'.part = job.part /\ job'.op = job.op /\ job'.lead = job.lead
            /\ job'.plan = job.plan /\ (job'.confirmed <=> job.confirmed)

\* What the provider and the job say of the parts.
Ledger == /\ CountTells
          /\ \A p \in Parts : PartTells(p)
          /\ \A p, q \in Parts : OrderTells(p, q)

\* The order of the parts is that of the job.
LEMMA SameFirst ==
    ASSUME NEW p, UNCHANGED kind, job'.part = job.part
    PROVE  First(p)' <=> First(p)
    BY DEF First

\* A part may be sent on when the worker comes no closer to it.
LEMMA SameUnsent ==
    ASSUME NEW p, UNCHANGED kind, job'.part = job.part, job'.op = job.op, job'.lead = job.lead,
           wk'.pc \in Pointing => wk.pc \in Pointing, Unsent(p)'
    PROVE  Unsent(p)
    BY SameFirst, KindKept DEF Unsent, Pointing

\* A step that leaves the operation and the provider alone keeps the ledger.
LEMMA LedgerKept ==
    ASSUME Inv, SameCore, UNCHANGED <<kind, remote, yeses>>,
           wk'.pc \in Pointing => wk.pc \in Pointing
    PROVE  Ledger'
<1>1. (Merge' <=> Merge) /\ \A p : Survivor(p)' <=> Survivor(p)
    BY KindKept
<1>2. ASSUME NEW p \in Parts PROVE PartTells(p)'
    <2>1. PartTells(p) /\ (Unsent(p)' => Unsent(p))
        BY SameUnsent DEF Inv, SameCore
    <2> QED
        BY <1>1, <2>1 DEF PartTells, SameCore
<1>3. ASSUME NEW p \in Parts, NEW q \in Parts PROVE OrderTells(p, q)'
    BY <1>1 DEF Inv, OrderTells, SameCore
<1>4. CountTells'
    <2>1. CountTells /\ (Unsent(1)' => Unsent(1))
        BY SameUnsent DEF Inv, SameCore
    <2>2. /\ remote.writes[1] \in Nat /\ yeses.count \in Nat
        BY Typed, PartsAre, CompositeConstants DEF Remotes, Yeses
    <2> QED
        BY <1>1, <2>1, <2>2 DEF CountTells, SameCore
<1> QED
    BY <1>2, <1>3, <1>4 DEF Ledger

\* The parts of the invariant beside the ledger.
LEMMA InvNext ==
    ASSUME TypeOK', Ledger', JobTells', WorkerTells', ScanTells'
    PROVE  Inv'
    BY DEF Inv, Ledger

-----------------------------------------------------------------------------

\* The first of a set of parts is one of them, and none comes before it.
LEMMA MinIn ==
    ASSUME NEW T, T \subseteq Parts, T # {}
    PROVE  Min(T) \in T /\ \A y \in T : Min(T) =< y
<1>1. T \subseteq Nat
    BY PartsAre
<1>2. PICK x \in T : \A y \in T : ~(<<y, x>> \in OpToRel(<, Nat))
    BY <1>1, NatLessThanWellFounded, WFMin
<1>3. \A y \in T : x =< y
    <2> SUFFICES ASSUME NEW y \in T, y < x PROVE FALSE
        BY <1>1
    <2>1. <<y, x>> \in Nat \X Nat /\ <<y, x>>[1] = y /\ <<y, x>>[2] = x
        BY <1>1
    <2>2. <<y, x>> \in OpToRel(<, Nat)
        BY <2>1 DEF OpToRel
    <2> QED
        BY <1>2, <2>2
<1> QED
    BY <1>3 DEF Min

\* The loop stands at the first part that is not created.
LEMMA CurIsFirst ==
    ASSUME Cur # 0
    PROVE  First(Cur)
<1>1. PICK T : T = Open
    OBVIOUS
<1>2. T \subseteq Parts /\ T # {} /\ Cur = Min(T)
    BY <1>1 DEF Open, Cur
<1>3. Cur \in T /\ \A y \in T : Cur =< y
    BY <1>2, MinIn
<1>4. \A q \in Parts : q < Cur => q \notin T
    BY <1>2, <1>3, PartsAre
<1> QED
    BY <1>1, <1>2, <1>3, <1>4 DEF First, Open

\* The loop ends when every part is created.
LEMMA NoCur ==
    ASSUME Cur = 0
    PROVE  \A p \in Parts : job.part[p] = "created"
<1>1. PICK T : T = Open
    OBVIOUS
<1>2. T \subseteq Parts
    BY <1>1 DEF Open
<1>3. T = {}
    <2> SUFFICES ASSUME T # {} PROVE FALSE
        OBVIOUS
    <2>1. Min(T) \in T /\ Cur = Min(T)
        BY <1>1, <1>2, MinIn DEF Cur
    <2> QED
        BY <1>2, <2>1, PartsAre
<1> QED
    BY <1>1, <1>3 DEF Open

\* The part the daemon looks for is in doubt, and the survivor comes last.
LEMMA InFlightIs ==
    ASSUME InFlight # 0, Inv
    PROVE  /\ InFlight \in Parts /\ job.part[InFlight] \in Doubt
           /\ InFlight = job.lead => Others = {}
<1>1. PICK T : T = Others
    OBVIOUS
<1>2. T \subseteq Parts /\ \A p \in T : job.part[p] \in Doubt /\ p # job.lead
    BY <1>1 DEF Others
<1>3. job.lead \in 0..P
    BY Typed DEF Jobs
<1>4. job.lead # 0 => job.lead \in Parts
    BY <1>3, PartsAre DEF Parts
<1>5. CASE T # {}
    BY <1>1, <1>2, <1>5, MinIn DEF InFlight
<1>6. CASE T = {}
    BY <1>1, <1>4, <1>6 DEF InFlight
<1> QED
    BY <1>5, <1>6

-----------------------------------------------------------------------------

\* Whether an operation is uncertain is read off the operation and its lead.
LEMMA SameUncertain == ASSUME SameCore PROVE Uncertain' <=> Uncertain
    BY DEF SameCore, Uncertain, Doubt

\* What the invariant says of the worker outlives a step that ends it or leaves it where it is.
LEMMA WorkerKept ==
    ASSUME Inv, SameCore, UNCHANGED <<kind, remote>>, wk'.pc \in {wk.pc, "off", "release"},
           job'.owned => job.owned
    PROVE  WorkerTells'
<1>1. (Linear' <=> Linear) /\ (Uncertain' <=> Uncertain)
    BY KindKept, SameUncertain
<1>2. \A p : First(p)' <=> First(p)
    BY SameFirst DEF SameCore
<1>3. CASE wk'.pc = wk.pc
    BY <1>1, <1>2, <1>3 DEF Inv, WorkerTells, SameCore
<1>4. CASE wk'.pc \in {"off", "release"}
    BY <1>4 DEF WorkerTells, Before, Writing
<1> QED
    BY <1>3, <1>4

\* What it says of the scan outlives a step that ends the worker or leaves it where it is.
LEMMA ScanKept ==
    ASSUME Inv, SameCore, UNCHANGED <<kind, remote, scan>>, wk'.pc \in {wk.pc, "off", "release"},
           wk.pc = "off" => wk'.pc = "off",
           job'.status = "awaiting" => job.status = "awaiting"
    PROVE  ScanTells'
<1>1. \A p : First(p)' <=> First(p)
    BY SameFirst DEF SameCore
<1>2. Busy' <=> Busy
    BY DEF Busy
<1> QED
    BY <1>1, <1>2 DEF Inv, ScanTells, SameCore, Before

\* A scan that is not reconciling says nothing.
LEMMA ScanFree == ASSUME ~Busy, UNCHANGED scan PROVE ScanTells'
    BY DEF Busy, ScanTells

\* What it says of the status outlives a step that leaves the job alone.
LEMMA JobKept ==
    ASSUME Inv, UNCHANGED <<job, kind>>
    PROVE  JobTells'
    BY KindKept DEF Inv, JobTells, Uncertain

\* A step that only ends the worker, kills the canceller, or leaves both alone.
LEMMA Gone ==
    ASSUME Inv, UNCHANGED <<kind, job, scan, remote, yeses>>, wk' \in Workers,
           wk'.pc \in {wk.pc, "off"},
           cancel' \in {"idle", "stop", "release"}, spent' \in Spendings
    PROVE  Inv'
<1>1. SameCore
    BY DEF SameCore
<1>2. TypeOK'
    BY Typed, TypesNext
<1>3. Ledger'
    BY <1>1, LedgerKept DEF Pointing
<1>4. JobTells' /\ WorkerTells' /\ ScanTells'
    BY <1>1, JobKept, WorkerKept, ScanKept
<1> QED
    BY <1>2, <1>3, <1>4, InvNext

\* A step that ends the job or stages its end.
LEMMA JobEnds ==
    ASSUME Inv, SameCore, UNCHANGED <<kind, remote, scan, yeses>>, job' \in Jobs, wk' \in Workers,
           wk'.pc \in {wk.pc, "off", "release"}, wk.pc = "off" => wk'.pc = "off",
           cancel' \in {"idle", "stop", "release"}, spent' \in Spendings,
           job'.owned => job.owned,
           \/ job'.status \in Terminal /\ ~job'.owned /\ job'.intent = "none"
           \/ /\ job.status \in Active /\ job'.status = "reconciling"
              /\ job'.intent # "none"
    PROVE  Inv'
<1>1. TypeOK'
    BY Typed, TypesNext
<1>2. Ledger'
    BY LedgerKept DEF Pointing
<1>3. job'.status # "awaiting"
    BY DEF Terminal
<1>4. JobTells'
    BY KindKept, <1>3 DEF Inv, JobTells, SameCore, Active, Terminal
<1>5. WorkerTells' /\ ScanTells'
    BY <1>3, WorkerKept, ScanKept
<1> QED
    BY <1>1, <1>2, <1>4, <1>5, InvNext

\* The job whose end is staged, and the one whose end is released.
LEMMA StagedFields ==
    ASSUME Inv, NEW s \in {"failed", "cancelled"}
    PROVE  /\ Staged(s) \in Jobs /\ Staged(s).part = job.part /\ Staged(s).op = job.op
           /\ Staged(s).lead = job.lead /\ Staged(s).plan = job.plan
           /\ (Staged(s).confirmed <=> job.confirmed) /\ Staged(s).status = "reconciling"
           /\ Staged(s).intent = s /\ (Staged(s).owned <=> job.owned)
<1>1. job \in Jobs
    BY Typed
<1> QED
    BY <1>1 DEF Staged, Jobs, Active

\* The job whose staged end is released is terminal and owned by nobody.
LEMMA MaterializedFields ==
    ASSUME Inv, job.intent # "none"
    PROVE  /\ Materialized \in Jobs /\ Materialized.part = job.part /\ Materialized.op = job.op
           /\ Materialized.lead = job.lead /\ Materialized.plan = job.plan
           /\ (Materialized.confirmed <=> job.confirmed) /\ Materialized.status \in Terminal
           /\ Materialized.intent = "none" /\ ~Materialized.owned
<1>1. job \in Jobs
    BY Typed
<1>2. job.intent \in {"failed", "cancelled"}
    BY <1>1 DEF Jobs
<1> QED
    BY <1>1, <1>2 DEF Materialized, Jobs, Terminal

-----------------------------------------------------------------------------

\* The worker fails the job, or is refused.
LEMMA FailsKeeps ==
    ASSUME Inv, WorkerWrites(Working, Staged("failed"), Wrote("release")), ~At("off"),
           UNCHANGED <<kind, scan, cancel, remote, yeses>>, spent' \in Spendings
    PROVE  Inv'
<1>1. CASE job' = job /\ wk' = Off
    BY <1>1, Gone, OffTyped, Typed
<1>2. CASE job' = Staged("failed") /\ wk' = Wrote("release") /\ WorkerMay(Working)
    <2>1. SameCore /\ job' \in Jobs /\ job'.status = "reconciling" /\ job'.intent # "none"
          /\ (job'.owned <=> job.owned)
        BY <1>2, StagedFields DEF SameCore
    <2>2. wk' \in Workers /\ wk'.pc = "release"
        BY <1>2, GoFields
    <2>3. job.owned /\ job.status \in Active /\ wk.pc # "off"
        BY <1>2 DEF WorkerMay, Working, Active, At
    <2> QED
        BY <2>1, <2>2, <2>3, JobEnds, Typed
<1> QED
    BY <1>1, <1>2 DEF WorkerWrites

\* An exception ends the worker.
LEMMA RaisesKeeps ==
    ASSUME Inv, Raises, ~At("off"), UNCHANGED <<kind, scan, cancel, remote, yeses>>,
           spent' \in Spendings
    PROVE  Inv'
    BY FailsKeeps, Gone, OffTyped, Typed DEF Raises

\* A worker that cannot go on ends.
LEMMA LeavesKeeps == ASSUME Inv, Leaves PROVE Inv'
    BY Gone, OffTyped, Typed DEF Leaves

\* A ticket that is not there fails the job before anything was drafted.
LEMMA TicketMissingKeeps == ASSUME Inv, TicketMissing PROVE Inv'
    BY FailsKeeps, ErrsSpends DEF TicketMissing, At

\* A draft that fails raises.
LEMMA DraftFailsKeeps == ASSUME Inv, DraftFails PROVE Inv'
    BY RaisesKeeps, ErrsSpends DEF DraftFails, At

\* The worker releases the end it staged.
LEMMA WorkerReleaseKeeps == ASSUME Inv, WorkerRelease PROVE Inv'
<1>1. CASE job.intent # "failed"
    BY <1>1, Gone, OffTyped, Typed DEF WorkerRelease
<1>2. CASE job.intent = "failed"
    <2>1. SameCore /\ job' \in Jobs /\ job'.status \in Terminal /\ job'.intent = "none"
          /\ ~job'.owned /\ wk' \in Workers /\ wk'.pc = "off"
        BY <1>2, MaterializedFields, OffTyped DEF WorkerRelease, SameCore
    <2> QED
        BY <2>1, JobEnds, Typed DEF WorkerRelease
<1> QED
    BY <1>1, <1>2

\* While a scan reconciles no worker is about to begin.
LEMMA NotBusy == ASSUME Inv, wk.pc \in Before \/ job.status = "awaiting" PROVE ~Busy
    BY DEF Inv, ScanTells

\* The worker starts, resolves a ticket, asks, or begins to write: the operation is planned.
LEMMA BeforeWriting ==
    ASSUME Inv, SameCore, wk.pc \in Before \/ job.status = "awaiting",
           job' \in Jobs, wk' \in Workers,
           UNCHANGED <<kind, scan, cancel, remote, yeses, spent>>,
           job.intent = "none" \/ job'.status = job.status, job'.intent = job.intent,
           job'.status = "awaiting" =>
             job.op = "planned" /\ ~job.confirmed /\ job.intent = "none",
           wk'.pc \in {"off", "next"} \cup Before,
           wk'.pc = "ready" => job.op = "planned",
           wk'.pc = "next" => job.confirmed /\ job.op = "planned"
    PROVE  Inv'
<1>1. TypeOK' /\ Ledger'
    BY Typed, TypesNext, LedgerKept DEF Pointing, Before
<1>2. job.op \in {"none", "planned"} /\ ~Uncertain
    BY DEF Inv, WorkerTells, JobTells
<1>3. Uncertain' <=> Uncertain
    BY SameUncertain
<1>4. JobTells'
    BY <1>2, <1>3, KindKept DEF Inv, JobTells, SameCore
<1>5. WorkerTells'
    BY <1>2, <1>3 DEF WorkerTells, SameCore, Before, Writing
<1>6. ScanTells'
    BY NotBusy, ScanFree
<1> QED
    BY <1>1, <1>4, <1>5, <1>6, InvNext

\* begin_worker takes the job on when it is still queued for it.
LEMMA BeginKeeps == ASSUME Inv, Begin PROVE Inv'
<1>1. CASE job' = job /\ wk' = Off
    BY <1>1, Gone, OffTyped, Typed DEF Begin
<1>2. CASE /\ job.owned /\ job.status = "queued" /\ wk' = [pc |-> "start", clean |-> TRUE]
           /\ job' = [job EXCEPT !.status = IF job.reconcile THEN "reconciling" ELSE "routing"]
    <2>1. job \in Jobs
        BY Typed
    <2>2. job' \in Jobs /\ SameCore /\ job'.status # "awaiting" /\ job'.intent = job.intent
        BY <1>2, <2>1 DEF Jobs, SameCore, Active
    <2>3. wk' \in Workers /\ wk'.pc = "start"
        BY <1>2 DEF Workers, Before
    <2>4. job.intent = "none"
        BY <1>2 DEF Inv, JobTells
    <2> QED
        BY <2>2, <2>3, <2>4, BeforeWriting DEF Begin, At, Before
<1> QED
    BY <1>1, <1>2 DEF Begin

\* The Linear identities are stored one after the other.
LEMMA ResolvesKeeps == ASSUME Inv, NEW k, Resolves(k) PROVE Inv'
<1>1. CASE job' = job /\ wk' = Off
    BY <1>1, Gone, OffTyped, Typed DEF Resolves
<1>2. CASE job' = [job EXCEPT !.resolved = @ + 1] /\ wk' = Wrote("start")
    <2>1. job \in Jobs /\ job.resolved + 1 \in 0..2
        BY Typed DEF Jobs, Resolves
    <2>2. job' \in Jobs /\ SameCore /\ job'.status = job.status /\ job'.intent = job.intent
        BY <1>2, <2>1 DEF Jobs, SameCore
    <2>3. wk' \in Workers /\ wk'.pc = "start"
        BY <1>2, GoFields DEF Before
    <2>4. job.status # "awaiting"
        BY DEF Resolves, Passes, WorkerMay, Working
    <2> QED
        BY <2>2, <2>3, <2>4, BeforeWriting DEF Resolves, At, Before
<1> QED
    BY <1>1, <1>2 DEF Resolves, WorkerWrites

\* A worker that finds a draft goes on with it.
LEMMA ResumesKeeps ==
    ASSUME Inv, Resumes, At("start"), job.op # "none", Passes
    PROVE  Inv'
<1>1. job.op = "planned" /\ job.status # "awaiting"
    BY DEF Inv, WorkerTells, At, Before, Passes, WorkerMay, Working
<1>2. wk' \in Workers /\ wk'.pc = "ready" /\ SameCore /\ job' \in Jobs
    BY GoFields, Typed DEF Resumes, Before, SameCore
<1> QED
    BY <1>1, <1>2, BeforeWriting DEF Resumes, At, Before

\* The question is asked while nothing is in doubt.
LEMMA AskConfirmationKeeps == ASSUME Inv, AskConfirmation PROVE Inv'
<1>1. CASE job' = job /\ wk' = Off
    BY <1>1, Gone, OffTyped, Typed DEF AskConfirmation
<1>2. CASE /\ job' = [job EXCEPT !.status = "awaiting", !.owned = FALSE, !.reconcile = FALSE]
           /\ wk' = Off /\ job.intent = "none"
    <2>1. job \in Jobs
        BY Typed
    <2>2. job' \in Jobs /\ SameCore /\ job'.status = "awaiting" /\ job'.intent = job.intent
        BY <1>2, <2>1 DEF Jobs, SameCore, Active
    <2>3. wk' \in Workers /\ wk'.pc = "off"
        BY <1>2, OffTyped
    <2>4. job.op = "planned"
        BY DEF Inv, WorkerTells, AskConfirmation, At
    <2> QED
        BY <1>2, <2>2, <2>3, <2>4, BeforeWriting DEF AskConfirmation, At, Before
<1> QED
    BY <1>1, <1>2 DEF AskConfirmation, WorkerWrites, WorkerMay

\* The writing begins only with a planned operation.
LEMMA MarkRunningKeeps == ASSUME Inv, MarkRunning PROVE Inv'
<1>1. CASE job' = job /\ wk' = Off
    BY <1>1, Gone, OffTyped, Typed DEF MarkRunning
<1>2. CASE /\ job' = [job EXCEPT !.status = "running"]
           /\ wk' = Wrote("next") /\ job.intent = "none" /\ job.op = "planned"
    <2>1. job \in Jobs
        BY Typed
    <2>2. job' \in Jobs /\ SameCore /\ job'.status = "running" /\ job'.intent = job.intent
        BY <1>2, <2>1 DEF Jobs, SameCore, Active
    <2>3. wk' \in Workers /\ wk'.pc = "next"
        BY <1>2, GoFields DEF Writing
    <2> QED
        BY <1>2, <2>2, <2>3, BeforeWriting DEF MarkRunning, At, Before
<1>3. CASE Raises
    BY <1>3, RaisesKeeps, Typed DEF MarkRunning, At
<1> QED
    BY <1>1, <1>2, <1>3 DEF MarkRunning, WorkerWrites, WorkerMay

\* A draft the user rejects ends the job with nothing sent.
LEMMA RejectsKeeps == ASSUME Inv, NEW k, Rejects(k) PROVE Inv'
<1>1. job \in Jobs /\ job.intent = "none"
    BY Typed DEF Inv, JobTells, Rejects
<1>2. job' \in Jobs /\ SameCore /\ job'.status = "completed" /\ job'.intent = job.intent
      /\ (job'.owned <=> job.owned)
    BY <1>1 DEF Rejects, Jobs, SameCore, Terminal
<1>3. job.op = "planned" /\ ~Uncertain /\ job.status = "awaiting"
    BY DEF Inv, JobTells, Rejects
<1>4. ~Busy
    BY <1>3, NotBusy
<1>5. TypeOK' /\ Ledger'
    BY <1>2, Typed, TypesNext, LedgerKept DEF Rejects
<1>6. JobTells'
    BY <1>1, <1>2, <1>3, KindKept DEF JobTells, SameCore, Inv, Rejects
<1>7. WorkerTells' /\ ScanTells'
    BY <1>2, <1>4, ScanFree, WorkerKept DEF Rejects
<1> QED
    BY <1>5, <1>6, <1>7, InvNext

-----------------------------------------------------------------------------

\* A worker that writes moves on without touching the job.
LEMMA MovesOn ==
    ASSUME Inv, UNCHANGED <<kind, job, scan, cancel, remote, yeses>>, spent' \in Spendings,
           wk.pc \in {"marked", "fenced", "out"},
           NEW l \in {"failed", "nostart", "answered"}, wk' = Go(l),
           l = "nostart" => wk.pc = "marked", l = "answered" => remote.inflight = 0,
           l = "answered" => \A p \in Parts : First(p) => remote.writes[p] > 0
    PROVE  Inv'
<1>1. wk' \in Workers /\ wk'.pc = l /\ SameCore
    BY GoFields DEF Writing, SameCore
<1>2. TypeOK' /\ Ledger'
    BY <1>1, Typed, TypesNext, LedgerKept DEF Pointing
<1>3. JobTells'
    BY JobKept
<1>4. \A p : First(p)' <=> First(p)
    BY <1>1, SameFirst DEF SameCore
<1>5. WorkerTells'
    BY <1>1, <1>4 DEF Inv, WorkerTells, Before, Writing
<1>6. ScanTells'
    BY <1>1, <1>4 DEF Inv, ScanTells, Before, Busy
<1> QED
    BY <1>2, <1>3, <1>5, <1>6, InvNext

\* A command that cannot start leaves the part unsent.
LEMMA CannotStartKeeps == ASSUME Inv, CannotStart PROVE Inv'
    BY MovesOn, ErrsSpends DEF CannotStart, At

\* A prompt that fails leaves the part in doubt.
LEMMA PromptFailsKeeps == ASSUME Inv, PromptFails PROVE Inv'
<1>1. PICK l : l = "failed"
    OBVIOUS
<1> QED
    BY <1>1, MovesOn, ErrsSpends DEF PromptFails

\* A lost answer leaves the part in doubt.
LEMMA LosesAnswerKeeps == ASSUME Inv, LosesAnswer PROVE Inv'
<1>1. PICK l : l = "failed"
    OBVIOUS
<1> QED
    BY <1>1, MovesOn, ErrsSpends DEF LosesAnswer, At

\* A part the provider shows was written, and is not in flight.
LEMMA SeenIsWritten ==
    ASSUME Inv, NEW p \in Parts, Seen(p), job.op # "none"
    PROVE  remote.writes[p] > 0 /\ remote.inflight # p
<1>1. PartTells(p) /\ CountTells
    BY DEF Inv
<1>2. remote.writes[p] \in Nat /\ remote.holds \in Nat
    BY Typed, CompositeConstants DEF Remotes, Plans
<1> QED
    BY <1>1, <1>2 DEF Seen, PartTells, CountTells, Survivor

\* There is only one first part.
LEMMA OneFirst ==
    ASSUME NEW p, NEW q, First(p), First(q)
    PROVE  p = q
<1>1. p \in Nat /\ q \in Nat /\ p \in Parts /\ q \in Parts
    BY PartsAre DEF First
<1>2. ~(p < q) /\ ~(q < p)
    BY <1>1 DEF First
<1> QED
    BY <1>1, <1>2

\* An answer is heard when nothing is in flight any more.
LEMMA HearsKeeps == ASSUME Inv, Hears PROVE Inv'
<1>1. spent' \in Spendings /\ job.op # "none" /\ wk.pc = "out"
    BY Typed DEF Hears, Inv, WorkerTells, At, Writing
<1>2. CASE wk' = Go("failed")
    <2>1. PICK l : l = "failed"
        OBVIOUS
    <2> QED
        BY <1>1, <1>2, <2>1, MovesOn DEF Hears
<1>3. CASE wk' = Go("answered") /\ Cur # 0 /\ Seen(Cur)
    <2>1. PICK c : c = Cur
        OBVIOUS
    <2>2. First(c) /\ c \in Parts /\ Seen(c)
        BY <1>3, <2>1, CurIsFirst DEF First
    <2>3. \A p \in Parts : First(p) => remote.writes[p] > 0
        BY <1>1, <2>2, SeenIsWritten, OneFirst
    <2> QED
        BY <1>1, <1>3, <2>3, MovesOn DEF Hears
<1> QED
    BY <1>2, <1>3 DEF Hears

\* The worker may die at any time.
LEMMA WorkerCrashKeeps == ASSUME Inv, WorkerCrash PROVE Inv'
    BY Gone, OffTyped, Typed, CrashSpends DEF WorkerCrash

\* The process that cancels may die between its steps.
LEMMA CancellerCrashKeeps == ASSUME Inv, CancellerCrash PROVE Inv'
    BY Gone, Typed, CrashSpends DEF CancellerCrash

\* The canceller stops the worker.
LEMMA CancelStopKeeps == ASSUME Inv, CancelStop PROVE Inv'
    BY Gone, OffTyped, Typed DEF CancelStop

\* The canceller stages the end of a job in any active status.
LEMMA CancelStageKeeps == ASSUME Inv, CancelStage PROVE Inv'
<1>1. SameCore /\ job' \in Jobs /\ job'.status = "reconciling" /\ job'.intent # "none"
      /\ (job'.owned <=> job.owned)
    BY StagedFields DEF CancelStage, SameCore
<1>2. wk \in Workers /\ spent \in Spendings /\ spent.cancels + 1 \in 0..MaxCancels
    BY Typed, CompositeConstants DEF Spendings, CancelStage
<1>3. wk' \in Workers /\ wk'.pc = wk.pc /\ spent' \in Spendings
    BY <1>2 DEF CancelStage, Workers, Spendings
<1> QED
    BY <1>1, <1>3, JobEnds DEF CancelStage

\* The canceller releases the end, unless the scan already did.
LEMMA CancelReleaseKeeps == ASSUME Inv, CancelRelease PROVE Inv'
<1>1. CASE job.intent # "cancelled"
    BY <1>1, Gone, Typed DEF CancelRelease
<1>2. CASE job.intent = "cancelled"
    <2>1. SameCore /\ job' \in Jobs /\ job'.status \in Terminal /\ job'.intent = "none"
          /\ ~job'.owned
        BY <1>2, MaterializedFields DEF CancelRelease, SameCore
    <2> QED
        BY <2>1, JobEnds, Typed DEF CancelRelease
<1> QED
    BY <1>1, <1>2

-----------------------------------------------------------------------------

\* A step of the scan that leaves the job and the worker alone.
LEMMA ScanMoves ==
    ASSUME Inv, UNCHANGED <<kind, job, wk, cancel, remote, yeses>>, spent' \in Spendings,
           scan' \in Scans, ScanTells'
    PROVE  Inv'
<1>1. SameCore
    BY DEF SameCore
<1>2. TypeOK' /\ Ledger'
    BY <1>1, Typed, TypesNext, LedgerKept
<1> QED
    BY <1>1, <1>2, JobKept, WorkerKept, InvNext

\* A scan that is past reconciling says nothing of a part.
LEMMA ScanToFields ==
    ASSUME Inv, NEW l \in {"idle", "recover"}, ScanTo(l)
    PROVE  scan' \in Scans /\ ScanTells'
<1>1. scan \in Scans
    BY Typed
<1>2. scan' \in Scans /\ scan'.pc = l
    BY <1>1 DEF ScanTo, Scans
<1> QED
    BY <1>2 DEF ScanTells, Busy

\* The scan picks a part in doubt, while no worker is about to begin.
LEMMA ScanStartKeeps == ASSUME Inv, ScanStart PROVE Inv'
<1>1. scan \in Scans /\ job \in Jobs
    BY Typed
<1>2. PICK c : c = InFlight
    OBVIOUS
<1>3. c # 0 => c \in Parts /\ job.part[c] \in Doubt
    BY <1>2, InFlightIs
<1>4. c \in 0..P
    <2>1. 0 \in 0..P
        BY CompositeConstants
    <2> QED
        BY <1>3, <2>1, PartsAre
<1>5. PICK l \in {"reconcile", "recover"} :
         /\ scan' = [scan EXCEPT !.pc = l, !.part = c]
         /\ l = "reconcile" <=> Uncertain /\ c # 0
    BY <1>2 DEF ScanStart
<1>6. scan' \in Scans /\ scan'.pc = l /\ scan'.part = c
    BY <1>1, <1>4, <1>5 DEF Scans
<1>7. CASE l = "reconcile"
    <2>1. Uncertain /\ c # 0
        BY <1>5, <1>7
    <2>2. wk.pc \notin Before /\ job.status # "awaiting"
        BY <2>1 DEF Inv, WorkerTells, JobTells
    <2>3. job.op # "none"
        BY <2>1 DEF Inv, CountTells, Uncertain, Doubt
    <2>4. ScanTells'
        BY <1>3, <1>6, <1>7, <2>1, <2>2, <2>3 DEF ScanTells, Busy, ScanStart, Doubt
    <2> QED
        BY <1>6, <2>4, ScanMoves, Typed DEF ScanStart
<1>8. CASE l = "recover"
    <2>1. ScanTells'
        BY <1>6, <1>8 DEF ScanTells, Busy
    <2> QED
        BY <1>6, <2>1, ScanMoves, Typed DEF ScanStart
<1> QED
    BY <1>7, <1>8

\* What the scan saw is still true when it settles the part.
LEMMA LooksKeeps == ASSUME Inv, Looks PROVE Inv'
<1>1. CASE Errs /\ ScanTo("recover")
    BY <1>1, ErrsSpends, ScanToFields, ScanMoves DEF Looks
<1>2. CASE scan' = [scan EXCEPT !.pc = "settle", !.visible = Seen(scan.part)] /\ UNCHANGED spent
    <2>1. scan \in Scans /\ Seen(scan.part) \in BOOLEAN
        <3>1. CASE Merge /\ scan.part = 1
            BY <3>1, Typed DEF Seen
        <3>2. CASE ~(Merge /\ scan.part = 1)
            <4>1. Seen(scan.part) = (remote.writes[scan.part] > 0)
                BY <3>2 DEF Seen
            <4>2. (remote.writes[scan.part] > 0) \in BOOLEAN
                OBVIOUS
            <4> QED
                BY <4>1, <4>2, Typed
        <3> QED
            BY <3>1, <3>2
    <2>2. scan' \in Scans /\ scan'.pc = "settle" /\ scan'.part = scan.part
          /\ (scan'.visible <=> Seen(scan.part))
        BY <1>2, <2>1 DEF Scans
    <2>3. PICK c : c = scan.part
        OBVIOUS
    <2>4. Busy /\ c \in Parts /\ job.op # "none"
        BY <2>3 DEF Looks, Busy, Inv, ScanTells
    <2>5. Seen(c) => remote.writes[c] > 0 /\ remote.inflight # c
        BY <2>4, SeenIsWritten
    <2>6. Seen(c) => ~(wk.pc \in {"marked", "fenced", "nostart"} /\ First(c))
        <3> SUFFICES ASSUME Seen(c), Unsent(c) PROVE FALSE
            BY DEF Unsent
        <3>1. PartTells(c)
            BY <2>4 DEF Inv
        <3> QED
            BY <2>4, <2>5, <3>1 DEF PartTells, Seen, Survivor
    <2>7. \A p : First(p)' <=> First(p)
        BY SameFirst DEF Looks
    <2>8. ScanTells'
        BY <2>2, <2>3, <2>4, <2>5, <2>6, <2>7 DEF Looks, Inv, ScanTells, Busy
    <2> QED
        BY <1>2, <2>2, <2>8, ScanMoves, Typed DEF Looks
<1> QED
    BY <1>1, <1>2 DEF Looks

\* An abandoned job starts again only when its operation is not in doubt.
LEMMA RecoverKeeps == ASSUME Inv, Recover PROVE Inv'
<1>1. scan' \in Scans /\ ScanTells'
    BY ScanToFields DEF Recover
<1>2. CASE UNCHANGED <<job, wk>>
    BY <1>1, <1>2, ScanMoves, Typed DEF Recover
<1>3. CASE job.intent # "none" /\ job' = Materialized /\ wk' = Off
    <2>1. SameCore /\ job' \in Jobs /\ job'.status \in Terminal /\ job'.intent = "none"
          /\ ~job'.owned
        BY <1>3, MaterializedFields DEF SameCore
    <2>2. wk' \in Workers /\ wk'.pc = "off"
        BY <1>3, OffTyped
    <2>3. TypeOK' /\ Ledger'
        BY <1>1, <2>1, <2>2, Typed, TypesNext, LedgerKept DEF Recover, Pointing
    <2>4. JobTells'
        BY <2>1, KindKept DEF Inv, JobTells, SameCore, Terminal, Recover
    <2>5. WorkerTells'
        BY <2>2 DEF WorkerTells, Before, Writing
    <2> QED
        BY <1>1, <2>3, <2>4, <2>5, InvNext
<1>4. CASE /\ job.intent = "none" /\ ~Uncertain /\ Abandoned
           /\ job' = Launched([job EXCEPT !.reconcile = @ /\ job.status = "queued"])
           /\ wk' = [Off EXCEPT !.pc = "launched"]
    <2>1. job \in Jobs
        BY Typed
    <2>2. PICK b \in BOOLEAN : b <=> (job.reconcile /\ job.status = "queued")
        OBVIOUS
    <2>3. job' = [job EXCEPT !.reconcile = b, !.status = "queued", !.owned = TRUE]
        BY <1>4, <2>1, <2>2 DEF Launched, Jobs
    <2>4. job' \in Jobs /\ SameCore /\ job'.status = "queued" /\ job'.intent = job.intent
        BY <2>1, <2>3 DEF Jobs, SameCore, Active
    <2>5. wk' \in Workers /\ wk'.pc = "launched"
        BY <1>4 DEF Off, Workers, Before
    <2>6. job.op \in {"none", "planned"}
        <3>1. job.op \in Ops /\ job.op \notin Doubt
            BY <1>4, <2>1 DEF Jobs, Uncertain
        <3>2. job.status \notin Terminal \cup {"blocked"}
            BY <1>4 DEF Abandoned, Working, Terminal
        <3> QED
            BY <1>4, <3>1, <3>2 DEF Inv, JobTells, Ops, Doubt
    <2>7. Uncertain' <=> Uncertain
        BY <2>4, SameUncertain
    <2>8. TypeOK' /\ Ledger'
        BY <1>1, <2>4, <2>5, Typed, TypesNext, LedgerKept DEF Recover, Pointing
    <2>9. JobTells'
        BY <1>4, <2>4, <2>6, KindKept DEF Inv, JobTells, SameCore, Recover
    <2>10. WorkerTells'
        BY <1>4, <2>4, <2>5, <2>6, <2>7 DEF WorkerTells, SameCore, Before, Writing
    <2> QED
        BY <1>1, <2>8, <2>9, <2>10, InvNext
<1> QED
    BY <1>2, <1>3, <1>4 DEF Recover

-----------------------------------------------------------------------------

\* The numbers the invariant speaks of.
LEMMA Numbers ==
    ASSUME Inv
    PROVE  /\ \A p \in Parts : remote.writes[p] \in Nat /\ remote.writes[p] \in 0..MaxPlans
           /\ remote.inflight \in 0..P /\ remote.holds \in Nat /\ remote.sent \in Nat
           /\ job.plan \in Nat /\ job.plan \in 0..MaxPlans
           /\ yeses.count \in Nat /\ yeses.count \in 0..MaxPlans /\ MaxPlans \in Nat
           /\ remote.inflight # 0 => remote.inflight \in Parts
<1>1. /\ \A p \in Parts : remote.writes[p] \in 0..MaxPlans
      /\ remote.inflight \in 0..P /\ remote.holds \in 0..MaxPlans /\ remote.sent \in 0..MaxPlans
      /\ job.plan \in 0..MaxPlans /\ yeses.count \in 0..MaxPlans /\ MaxPlans \in Nat
    BY Typed, CompositeConstants DEF Remotes, Jobs, Yeses, Plans
<1>2. P \in Nat
    BY PartsAre
<1> QED
    BY <1>1, <1>2 DEF Parts

\* A step of the provider leaves the job and the worker alone.
LEMMA ProviderKeeps ==
    ASSUME Inv, UNCHANGED <<kind, job, wk, scan, cancel, yeses>>, spent' \in Spendings,
           remote' \in Remotes, Ledger',
           remote'.inflight \in {0, remote.inflight},
           \A p \in Parts : remote'.writes[p] >= remote.writes[p]
    PROVE  Inv'
<1>1. TypeOK'
    BY Typed, TypesNext
<1>2. \A p : First(p)' <=> First(p)
    BY SameFirst
<1>3. SameCore /\ \A p \in Parts : remote.writes[p] \in Nat /\ remote'.writes[p] \in Nat
    BY Typed, CompositeConstants DEF SameCore, Remotes
<1>4. WorkerTells'
    <2>1. (Linear' <=> Linear) /\ (Uncertain' <=> Uncertain)
        BY <1>3, KindKept, SameUncertain
    <2>2. wk.pc = "answered" =>
            remote'.inflight = 0 /\ \A p \in Parts : First(p) => remote'.writes[p] > 0
        <3> SUFFICES ASSUME wk.pc = "answered"
                     PROVE  remote'.inflight = 0
                            /\ \A p \in Parts : First(p) => remote'.writes[p] > 0
            OBVIOUS
        <3>1. remote.inflight = 0 /\ \A p \in Parts : First(p) => remote.writes[p] > 0
            BY DEF Inv, WorkerTells
        <3> QED
            BY <1>3, <3>1
    <2> QED
        BY <1>2, <2>1, <2>2 DEF Inv, WorkerTells
<1>5. ScanTells'
    <2>1. scan.pc = "settle" /\ scan.visible => remote'.writes[scan.part] > 0
        BY <1>3 DEF Inv, ScanTells, Busy
    <2>2. Busy => scan.part # 0
        BY PartsAre DEF Inv, ScanTells
    <2> QED
        BY <1>2, <2>1, <2>2 DEF Inv, ScanTells, Busy
<1> QED
    BY <1>1, <1>4, <1>5, JobKept, InvNext

\* Whether a part may be sent is read off the job and the worker.
LEMMA SameUnsentHere ==
    ASSUME NEW p, UNCHANGED <<kind, job, wk>>
    PROVE  Unsent(p)' <=> Unsent(p)
    BY SameFirst, KindKept DEF Unsent

\* The provider carries a request out: the part is written for the first time, or the
\* survivor within its confirmations.
LEMMA ApplyKeeps == ASSUME Inv, Apply PROVE Inv'
<1>1. PICK a : a = remote.inflight
    OBVIOUS
<1>2. a \in Parts /\ a # 0
    BY <1>1, Numbers DEF Apply
<1>3. /\ remote' = [remote EXCEPT !.inflight = 0, !.writes[a] = @ + 1, !.drift = Merge,
                                  !.holds = IF Merge /\ a = 1 THEN remote.sent ELSE @]
      /\ UNCHANGED <<kind, job, wk, scan, cancel, yeses, spent>>
    BY <1>1 DEF Apply
<1>4. remote \in Remotes /\ Merge \in BOOLEAN
    BY Typed DEF Merge
<1>5. PartTells(a) /\ CountTells
    BY <1>2 DEF Inv
<1>6. remote.writes[a] + 1 \in 0..MaxPlans
    <2>1. job.plan > 0 /\ remote.sent = job.plan
        BY <1>1, <1>2, <1>5 DEF CountTells, Unsure, Doubt
    <2>2. CASE Survivor(a)
        <3>1. remote.writes[1] + 1 <= yeses.count
            BY <1>1, <1>5, <2>2, Numbers, PartsAre DEF CountTells, Survivor
        <3> QED
            BY <2>2, <3>1, Numbers, PartsAre DEF Survivor
    <2>3. CASE ~Survivor(a)
        <3>1. remote.writes[a] + 1 <= 1
            BY <1>1, <1>5, <2>3 DEF PartTells
        <3> QED
            BY <1>2, <2>1, <3>1, Numbers
    <2> QED
        BY <2>2, <2>3
<1>7. /\ remote' \in Remotes /\ remote'.inflight = 0 /\ remote'.sent = remote.sent
      /\ remote'.writes = [remote.writes EXCEPT ![a] = @ + 1]
      /\ remote'.holds = IF Merge /\ a = 1 THEN remote.sent ELSE remote.holds
    <2>1. 0 \in 0..P
        BY CompositeConstants
    <2>2. [remote.writes EXCEPT ![a] = @ + 1] \in [Parts -> 0..MaxPlans]
        BY <1>2, <1>4, <1>6 DEF Remotes
    <2> QED
        BY <1>3, <1>4, <2>1, <2>2 DEF Remotes
<1>8. /\ remote'.writes[a] = remote.writes[a] + 1
      /\ \A p \in Parts : p # a => remote'.writes[p] = remote.writes[p]
    BY <1>2, <1>4, <1>7 DEF Remotes
<1>9. (Merge' <=> Merge) /\ \A p : Survivor(p)' <=> Survivor(p)
    BY <1>3, KindKept
<1>10. \A p : Unsent(p)' <=> Unsent(p)
    BY <1>3, SameUnsentHere
<1>11. job.op \in Unsure /\ remote.sent = job.plan /\ ~Unsent(a)
    BY <1>1, <1>2, <1>5 DEF CountTells, PartTells
<1>12. ASSUME NEW p \in Parts PROVE PartTells(p)'
    <2>1. PartTells(p) /\ remote'.inflight # p /\ remote.writes[p] \in Nat
        BY <1>7, PartsAre, Numbers DEF Inv
    <2>2. CASE p = a
        BY <1>1, <1>3, <1>7, <1>8, <1>9, <1>10, <1>11, <2>1, <2>2
            DEF PartTells, Unsure, Doubt
    <2>3. CASE p # a
        BY <1>1, <1>3, <1>7, <1>8, <1>9, <1>10, <1>11, <2>1, <2>3
            DEF PartTells, Unsure, Doubt, Survivor
    <2> QED
        BY <2>2, <2>3
<1>13. ASSUME NEW p \in Parts, NEW q \in Parts PROVE OrderTells(p, q)'
    <2>1. OrderTells(p, q) /\ remote.writes[p] \in Nat /\ remote.writes[q] \in Nat
        BY Numbers DEF Inv
    <2>2. remote'.writes[q] > 0 => remote.inflight = q \/ remote.writes[q] > 0
        BY <1>1, <1>8, <2>1
    <2>3. remote.writes[p] > 0 => remote'.writes[p] > 0
        BY <1>8, <2>1
    <2> QED
        BY <1>2, <1>3, <1>7, <1>9, <2>1, <2>2, <2>3, PartsAre DEF OrderTells
<1>14. CountTells'
    <2>1. /\ Merge => remote.writes[1] + (IF a = 1 THEN 1 ELSE 0)
                        + (IF job.confirmed /\ Unsent(1) THEN 1 ELSE 0) <= yeses.count
        BY <1>1, <1>5 DEF CountTells
    <2>2. Merge => remote'.writes[1] + (IF job.confirmed /\ Unsent(1) THEN 1 ELSE 0)
                     <= yeses.count
        BY <2>1, <1>8, Numbers, PartsAre
    <2>3. Merge => remote'.writes[1] + (IF remote'.inflight = 1 THEN 1 ELSE 0)
                     + (IF job.confirmed /\ Unsent(1) THEN 1 ELSE 0) <= yeses.count
        BY <2>2, <1>7, Typed, PartsAre, CompositeConstants DEF Remotes
    <2>4. Merge /\ remote'.holds > 0 => remote'.writes[1] > 0
        BY <1>5, <1>7, <1>8, Numbers, PartsAre DEF CountTells
    <2>5. remote'.holds <= job.plan
        BY <1>5, <1>7, <1>11, Numbers DEF CountTells
    <2> QED
        BY <1>3, <1>5, <1>7, <1>9, <1>10, <2>3, <2>4, <2>5 DEF CountTells
<1>15. \A p \in Parts : remote'.writes[p] >= remote.writes[p]
    BY <1>8, Numbers
<1> QED
    BY <1>3, <1>7, <1>12, <1>13, <1>14, <1>15, ProviderKeeps, Typed DEF Ledger

\* The provider or others change what it holds, and no part is written.
LEMMA RemoteChanges ==
    ASSUME Inv, UNCHANGED <<kind, job, wk, scan, cancel, yeses>>, spent' \in Spendings,
           remote' \in Remotes, remote'.inflight \in {0, remote.inflight},
           remote'.sent = remote.sent, remote'.writes = remote.writes,
           remote'.holds \in {0, remote.holds}
    PROVE  Inv'
<1>1. (Merge' <=> Merge) /\ \A p : Survivor(p)' <=> Survivor(p)
    BY KindKept
<1>2. \A p : Unsent(p)' <=> Unsent(p)
    BY SameUnsentHere
<1>3. job.op # "none" => job.plan > 0
    BY DEF Inv, CountTells
<1>4. ASSUME NEW p \in Parts PROVE PartTells(p)'
    <2>1. PartTells(p) /\ p # 0 /\ remote.writes[p] \in Nat
        BY PartsAre, Numbers DEF Inv
    <2>2. remote.inflight = p => job.plan > 0
        BY <1>3, <2>1 DEF Inv, CountTells, Unsure, Doubt
    <2> QED
        BY <1>1, <1>2, <1>3, <2>1, <2>2 DEF PartTells
<1>5. ASSUME NEW p \in Parts, NEW q \in Parts PROVE OrderTells(p, q)'
    <2>1. OrderTells(p, q) /\ q # 0
        BY PartsAre DEF Inv
    <2> QED
        BY <1>1, <2>1 DEF OrderTells
<1>6. CountTells'
    <2>1. CountTells
        BY DEF Inv
    <2>2. Merge => remote.writes[1] + (IF remote'.inflight = 1 THEN 1 ELSE 0)
                     + (IF job.confirmed /\ Unsent(1) THEN 1 ELSE 0) <= yeses.count
        BY <2>1, Numbers, PartsAre DEF CountTells
    <2>3. remote'.holds <= job.plan /\ (remote'.holds > 0 => remote.holds > 0)
        BY <2>1, Numbers DEF CountTells
    <2> QED
        BY <1>1, <1>2, <2>1, <2>2, <2>3 DEF CountTells
<1>7. \A p \in Parts : remote'.writes[p] >= remote.writes[p]
    BY Numbers
<1> QED
    BY <1>4, <1>5, <1>6, <1>7, ProviderKeeps DEF Ledger

\* A request that is refused or lost writes nothing.
LEMMA RefuseKeeps == ASSUME Inv, Refuse PROVE Inv'
<1>1. remote \in Remotes /\ 0 \in 0..P
    BY Typed, CompositeConstants
<1>2. /\ remote' \in Remotes /\ remote'.inflight = 0 /\ remote'.sent = remote.sent
      /\ remote'.writes = remote.writes /\ remote'.holds = remote.holds
    BY <1>1 DEF Refuse, Remotes
<1> QED
    BY <1>2, RemoteChanges, Typed DEF Refuse

\* Someone else edits a ticket of a merge.
LEMMA OutsideEditKeeps == ASSUME Inv, OutsideEdit PROVE Inv'
<1>1. remote \in Remotes /\ 0 \in Plans /\ spent \in Spendings
      /\ spent.edits + 1 \in 0..MaxEdits
    BY Typed, CompositeConstants DEF Plans, Spendings, OutsideEdit
<1>2. PICK h \in {0, remote.holds} : remote' = [remote EXCEPT !.drift = TRUE, !.holds = h]
    BY DEF OutsideEdit
<1>3. h \in Plans
    BY <1>1, <1>2 DEF Remotes
<1>4. /\ remote' \in Remotes /\ remote'.inflight = remote.inflight /\ remote'.sent = remote.sent
      /\ remote'.writes = remote.writes /\ remote'.holds = h
    BY <1>1, <1>2, <1>3 DEF Remotes
<1>5. spent' \in Spendings
    BY <1>1 DEF OutsideEdit, Spendings
<1> QED
    BY <1>2, <1>4, <1>5, RemoteChanges DEF OutsideEdit

-----------------------------------------------------------------------------

\* While the operation is planned nothing is in flight.
LEMMA PlannedIsQuiet ==
    ASSUME Inv, job.op \in {"none", "planned"}
    PROVE  remote.inflight = 0
    BY DEF Inv, CountTells, Unsure, Doubt

\* A draft is made, or made again.
LEMMA DraftsKeep ==
    ASSUME Inv, At("start"), Passes, NEW l \in 0..P, NEW j \in Jobs, Drafts(j),
           \/ job.op = "none" /\ j = [job EXCEPT !.lead = l] /\ (Merge => l = 1)
              /\ (~Merge => l \in {0, P})
           \/ job.op # "none" /\ Merge /\ j = Redraft
    PROVE  Inv'
<1>1. CASE job' = job /\ wk' = Off /\ ~WorkerMay({"routing"})
    BY <1>1, Gone, OffTyped, Typed DEF Drafts
<1>2. CASE /\ WorkerMay({"routing"}) /\ wk' = Wrote("ready")
           /\ job' = [j EXCEPT !.plan = @ + 1, !.op = "planned"]
    <2>1. job \in Jobs /\ remote \in Remotes /\ job.op \in {"none", "planned"}
          /\ remote.inflight = 0 /\ ~Uncertain
        BY Typed, PlannedIsQuiet DEF Inv, WorkerTells, At, Before
    <2>2. /\ j.status = job.status /\ j.plan = job.plan /\ (j.owned <=> job.owned)
          /\ j.intent = job.intent
          /\ \A p \in Parts : p = 1 \/ j.part[p] = job.part[p]
          /\ job.op = "none" => j.part = job.part /\ j.lead = l
          /\ job.op # "none" => j.part[1] = "planned" /\ j.lead = job.lead
          /\ ~j.confirmed
        <3>1. CASE job.op = "none" /\ j = [job EXCEPT !.lead = l]
            <4>1. ~job.confirmed
                BY <3>1 DEF Inv, CountTells
            <4> QED
                BY <2>1, <3>1, <4>1 DEF Jobs
        <3>2. CASE job.op # "none" /\ j = Redraft
            BY <2>1, <3>2, PartsAre DEF Jobs, Redraft
        <3> QED
            BY <3>1, <3>2
    <2>3. job.plan + 1 \in Plans /\ job.plan \in Nat
        BY Numbers DEF Drafts, Plans
    <2>4. /\ job' \in Jobs /\ job'.status = job.status /\ job'.plan = job.plan + 1
          /\ job'.op = "planned" /\ job'.part = j.part /\ job'.lead = j.lead
          /\ (job'.owned <=> job.owned) /\ ~job'.confirmed /\ job'.intent = job.intent
        BY <1>2, <2>2, <2>3 DEF Jobs, Ops
    <2>5. wk' \in Workers /\ wk'.pc = "ready"
        BY <1>2, GoFields DEF Before
    <2>6. /\ remote' \in Remotes /\ remote'.inflight = 0 /\ remote'.writes = remote.writes
          /\ remote'.holds = remote.holds
        BY <1>2, <2>1 DEF Drafts, Remotes
    <2>7. UNCHANGED <<kind, scan, cancel, yeses, spent>>
        BY DEF Drafts
    <2>8. (Merge' <=> Merge) /\ (Linear' <=> Linear) /\ \A p : Survivor(p)' <=> Survivor(p)
        BY <2>7, KindKept
    <2>9. TypeOK'
        BY <2>4, <2>5, <2>6, <2>7, Typed, TypesNext
    <2>10. job.status = "routing" /\ job.intent = "none"
        BY <1>2 DEF WorkerMay
    <2>11. IF Merge THEN job'.lead = 1 ELSE job'.lead \in {0, P}
        BY <2>2, <2>4 DEF Inv, CountTells
    <2>12. job'.lead # 0 => job'.part[job'.lead] = "planned"
        <3>1. CASE job.op = "none"
            BY <2>2, <2>4, <2>11, <3>1, PartsAre DEF Inv, CountTells
        <3>2. CASE job.op # "none"
            BY <2>2, <2>4, <2>11, <3>2
        <3> QED
            BY <3>1, <3>2
    <2>13. ASSUME NEW p \in Parts PROVE PartTells(p)'
        <3>1. PartTells(p) /\ remote.writes[p] \in Nat /\ p # 0
            BY Numbers, PartsAre DEF Inv
        <3>2. remote.holds # job'.plan
            BY <2>3, <2>4, Numbers DEF Inv, CountTells
        <3>3. ~Survivor(p) => job'.part[p] = job.part[p]
            BY <2>2, <2>4 DEF Survivor
        <3>4. Survivor(p) /\ job'.part[p] = "created" => job.part[p] = "created"
            BY <2>2, <2>4 DEF Survivor
        <3>5. Unsent(p)' => job'.part[p] = "planned"
            BY <2>5 DEF Unsent
        <3>6. ~Survivor(p) /\ job'.part[p] # "created" => remote.writes[p] = 0
            BY <2>1, <3>1, <3>3 DEF PartTells
        <3> QED
            BY <2>4, <2>6, <2>8, <3>1, <3>2, <3>3, <3>4, <3>5, <3>6 DEF PartTells, Survivor
    <2>14. ASSUME NEW p \in Parts, NEW q \in Parts PROVE OrderTells(p, q)'
        <3>1. OrderTells(p, q) /\ q # 0 /\ p < q => q # 1
            BY PartsAre DEF Inv
        <3>2. p < q => job'.part[q] = job.part[q]
            BY <2>2, <2>4, PartsAre
        <3>3. p # 1 => job'.part[p] = job.part[p]
            BY <2>2, <2>4
        <3>4. job.op # "none" => Merge
            OBVIOUS
        <3>5. CASE job.op = "none"
            BY <2>2, <2>4, <2>6, <2>8, <3>5, PartsAre DEF OrderTells, Inv
        <3>6. CASE job.op # "none"
            BY <2>2, <2>4, <2>6, <2>8, <3>2, <3>3, <3>4, <3>6, PartsAre
                DEF OrderTells, Survivor, Inv
        <3> QED
            BY <3>5, <3>6
    <2>15. CountTells'
        <3>1. CountTells
            BY DEF Inv
        <3>2. Merge => remote.writes[1] <= yeses.count
            BY <3>1, Numbers, PartsAre DEF CountTells
        <3>3. yeses.count < job'.plan /\ remote.holds <= job'.plan /\ job'.plan > 0
            BY <2>3, <2>4, <3>1, Numbers DEF CountTells
        <3>4. remote.writes[1] \in Nat /\ yeses.count \in Nat
            BY Numbers, PartsAre
        <3> QED
            BY <2>3, <2>4, <2>6, <2>7, <2>8, <2>11, <3>1, <3>2, <3>3, <3>4 DEF CountTells
    <2>16. ~Uncertain'
        BY <2>4, <2>12 DEF Uncertain, Doubt
    <2>17. JobTells'
        <3>1. Merge => job'.part[1] # "manual_required"
            BY <2>2, <2>4, <2>11, <2>12
        <3> QED
            BY <2>4, <2>8, <2>10, <3>1 DEF JobTells
    <2>18. WorkerTells'
        BY <2>4, <2>5, <2>16 DEF WorkerTells, Before, Writing
    <2>19. ScanTells'
        BY <2>7, NotBusy, ScanFree DEF At, Before
    <2> QED
        BY <2>9, <2>13, <2>14, <2>15, <2>17, <2>18, <2>19, InvNext DEF Ledger
<1> QED
    BY <1>1, <1>2 DEF Drafts, WorkerWrites

\* A split is drafted once.
LEMMA PlansSplitKeeps == ASSUME Inv, NEW k \in Splits, PlansSplit(k) PROVE Inv'
<1>1. At("start") /\ Passes /\ ~Merge
    BY DEF PlansSplit, Merge, Merges, Splits
<1>2. CASE job.op # "none"
    BY <1>1, <1>2, ResumesKeeps DEF PlansSplit
<1>3. CASE job.op = "none"
    <2>1. PICK l \in {0, P} : Drafts([job EXCEPT !.lead = l])
        BY <1>3 DEF PlansSplit
    <2>2. l \in 0..P /\ job \in Jobs
        BY Typed, CompositeConstants
    <2>3. PICK j : j = [job EXCEPT !.lead = l]
        OBVIOUS
    <2>4. j \in Jobs
        BY <2>2, <2>3 DEF Jobs
    <2>5. Drafts(j)
        BY <2>1, <2>3
    <2> QED
        BY <1>1, <1>3, <2>2, <2>3, <2>4, <2>5, DraftsKeep
<1> QED
    BY <1>2, <1>3

\* A merge is drafted again when its tickets drifted.
LEMMA PlansMergeKeeps == ASSUME Inv, NEW k \in Merges, PlansMerge(k) PROVE Inv'
<1>1. At("start") /\ Passes /\ Merge /\ job \in Jobs /\ 1 \in 0..P
    BY Typed, CompositeConstants DEF PlansMerge, Merge
<1>2. CASE Resumes /\ job.op # "none"
    BY <1>1, <1>2, ResumesKeeps
<1>3. CASE job.op = "none" /\ Drafts([job EXCEPT !.lead = 1])
    <2>1. PICK l \in 0..P : l = 1
        BY <1>1
    <2>2. PICK j : j = [job EXCEPT !.lead = l]
        OBVIOUS
    <2>3. j \in Jobs
        BY <1>1, <2>2 DEF Jobs
    <2>4. Drafts(j)
        BY <1>3, <2>1, <2>2
    <2> QED
        BY <1>1, <1>3, <2>1, <2>2, <2>3, <2>4, DraftsKeep
<1>4. CASE job.op # "none" /\ Drafts(Redraft)
    <2>1. PICK l \in 0..P : l = 1
        BY <1>1
    <2>2. PICK j : j = Redraft
        OBVIOUS
    <2>3. j \in Jobs
        BY <1>1, <2>2, PartsAre DEF Jobs, Redraft, States
    <2>4. Drafts(j)
        BY <1>4, <2>2
    <2> QED
        BY <1>1, <1>4, <2>1, <2>2, <2>3, <2>4, DraftsKeep
<1> QED
    BY <1>2, <1>3, <1>4 DEF PlansMerge

\* A yes makes room for one more write of the survivor.
LEMMA ConfirmsKeeps == ASSUME Inv, NEW k, Confirms(k) PROVE Inv'
<1>1. job \in Jobs /\ yeses \in Yeses /\ job.status = "awaiting" /\ wk.pc = "off"
    BY Typed DEF Confirms, At
<1>2. job.op = "planned" /\ ~job.confirmed /\ ~Uncertain /\ job.intent = "none"
      /\ remote.inflight = 0 /\ ~Busy
    BY <1>1, PlannedIsQuiet, NotBusy DEF Inv, JobTells
<1>3. job' = [job EXCEPT !.confirmed = TRUE, !.status = "queued", !.owned = TRUE]
    BY <1>1 DEF Confirms, Launched, Jobs
<1>4. /\ job' \in Jobs /\ job'.part = job.part /\ job'.op = "planned" /\ job'.lead = job.lead
      /\ job'.plan = job.plan /\ job'.confirmed /\ job'.status = "queued"
      /\ job'.intent = "none"
    BY <1>1, <1>2, <1>3 DEF Jobs, Active
<1>5. wk' \in Workers /\ wk'.pc = "launched"
    BY DEF Confirms, Off, Workers, Before
<1>6. yeses.count + 1 <= job.plan /\ yeses.count + 1 \in 0..MaxPlans
    BY <1>2, Numbers DEF Inv, CountTells
<1>7. yeses' \in Yeses /\ yeses'.count = yeses.count + 1 /\ yeses'.plan = job.plan
    BY <1>1, <1>6 DEF Confirms, Yeses, Jobs
<1>8. UNCHANGED <<kind, scan, cancel, remote, spent>>
    BY DEF Confirms
<1>9. TypeOK'
    BY <1>4, <1>5, <1>7, <1>8, Typed, TypesNext
<1>10. (Merge' <=> Merge) /\ (Linear' <=> Linear) /\ \A p : Survivor(p)' <=> Survivor(p)
    BY <1>8, KindKept
<1>11. ASSUME NEW p PROVE Unsent(p)' => Unsent(p)
    BY <1>2, <1>4, <1>5, <1>8, SameUnsent DEF Pointing
<1>12. ASSUME NEW p \in Parts PROVE PartTells(p)'
    <2>1. PartTells(p)
        BY DEF Inv
    <2> QED
        BY <1>2, <1>4, <1>8, <1>10, <1>11, <2>1 DEF PartTells
<1>13. ASSUME NEW p \in Parts, NEW q \in Parts PROVE OrderTells(p, q)'
    BY <1>4, <1>8, <1>10 DEF Inv, OrderTells
<1>14. CountTells'
    <2>1. CountTells
        BY DEF Inv
    <2>2. Merge => remote.writes[1] <= yeses.count
        BY <1>2, <2>1, Numbers, PartsAre DEF CountTells
    <2>3. remote.writes[1] \in Nat /\ yeses.count \in Nat
        BY Numbers, PartsAre
    <2> QED
        BY <1>2, <1>4, <1>6, <1>7, <1>8, <1>10, <2>1, <2>2, <2>3 DEF CountTells
<1>15. ~Uncertain'
    BY <1>2, <1>4 DEF Uncertain, Doubt
<1>16. JobTells'
    BY <1>4, <1>8, <1>10, <1>2 DEF JobTells, Inv
<1>17. WorkerTells' /\ ScanTells'
    BY <1>2, <1>4, <1>5, <1>8, <1>15, ScanFree DEF WorkerTells, Before, Writing
<1> QED
    BY <1>9, <1>12, <1>13, <1>14, <1>16, <1>17, InvNext DEF Ledger

-----------------------------------------------------------------------------

\* A part behind the first one may still be sent, unless the first is the survivor, and then
\* it was neither written nor sent.
LEMMA BehindFirst ==
    ASSUME Inv, NEW p \in Parts, NEW q \in Parts, First(p), q # p, job.part[q] # "created",
           job.op # "none"
    PROVE  p < q /\ remote.writes[q] = 0 /\ remote.inflight # q
<1>1. p \in Nat /\ q \in Nat /\ ~(q < p)
    BY PartsAre DEF First
<1>2. p < q /\ PartTells(q) /\ OrderTells(p, q)
    BY <1>1 DEF Inv
<1>3. CASE Survivor(p)
    BY <1>2, <1>3 DEF Survivor, First, PartTells
<1>4. CASE ~Survivor(p)
    <2>1. job.part[q] = "planned"
        BY <1>2, <1>4 DEF OrderTells, First
    <2>2. ~First(q)
        BY OneFirst
    <2>3. Unsent(q)
        BY <2>1, <2>2 DEF Unsent
    <2>4. ~Survivor(q)
        BY <1>1, <1>2, PartsAre DEF Survivor
    <2> QED
        BY <1>2, <2>3, <2>4 DEF PartTells
<1> QED
    BY <1>3, <1>4

\* Only the first part can be in flight.
LEMMA InflightFirst ==
    ASSUME Inv, NEW p \in Parts, First(p), remote.inflight # p
    PROVE  remote.inflight = 0
<1> SUFFICES ASSUME remote.inflight # 0 PROVE FALSE
    OBVIOUS
<1>1. PICK q \in Parts : q = remote.inflight
    BY Numbers
<1>2. job.part[q] # "created" /\ job.op # "none"
    BY <1>1 DEF Inv, PartTells, CountTells, Unsure, Doubt
<1> QED
    BY <1>1, <1>2, BehindFirst

\* The first part is created.
LEMMA PartCreated ==
    ASSUME Inv, NEW p \in Parts, First(p), job.op # "none", remote.inflight = 0,
           remote.writes[p] > 0, job'.part = [job.part EXCEPT ![p] = "created"],
           job'.op \in {"planned", "created"}, job'.lead = job.lead, job'.plan = job.plan,
           (job'.confirmed <=> job.confirmed), UNCHANGED <<kind, remote, yeses>>,
           wk'.pc \notin Pointing
    PROVE  Ledger'
<1>1. (Merge' <=> Merge) /\ (Linear' <=> Linear) /\ \A q : Survivor(q)' <=> Survivor(q)
    BY KindKept
<1>2. job'.part[p] = "created" /\ \A q \in Parts : q # p => job'.part[q] = job.part[q]
    BY Typed DEF Jobs
<1>3. ASSUME NEW q \in Parts, Unsent(q)' PROVE Unsent(q) /\ q # p
    <2>1. job'.part[q] = "planned" /\ q # p
        BY <1>2, <1>3 DEF Unsent, Pointing
    <2> QED
        BY <1>2, <2>1, OneFirst DEF Unsent
<1>4. ASSUME NEW q \in Parts PROVE PartTells(q)'
    <2>1. PartTells(q) /\ q # 0
        BY PartsAre DEF Inv
    <2>2. CASE q = p
        BY <1>1, <1>2, <1>3, <2>1, <2>2 DEF PartTells
    <2>3. CASE q # p
        <3>1. job.part[q] # "created" => p < q /\ remote.writes[q] = 0
            BY <2>3, BehindFirst
        <3>2. Survivor(q) => job.part[q] = "created"
            BY <2>3, <3>1, PartsAre DEF Survivor
        <3>3. Merge => job'.part[1] = "created"
            BY <1>2, PartsAre DEF First
        <3> QED
            BY <1>1, <1>2, <1>3, <2>1, <2>3, <3>1, <3>2, <3>3 DEF PartTells
    <2> QED
        BY <2>2, <2>3
<1>5. ASSUME NEW a \in Parts, NEW q \in Parts PROVE OrderTells(a, q)'
    <2>1. OrderTells(a, q)
        BY DEF Inv
    <2>2. CASE q = p
        BY <1>1, <1>2, <2>1, <2>2, PartsAre DEF OrderTells, First
    <2>3. CASE q # p
        BY <1>1, <1>2, <2>1, <2>3 DEF OrderTells
    <2> QED
        BY <2>2, <2>3
<1>6. CountTells'
    <2>1. CountTells /\ (Unsent(1)' => Unsent(1))
        BY <1>3, PartsAre DEF Inv
    <2>2. remote.writes[1] \in Nat /\ yeses.count \in Nat
        BY Numbers, PartsAre
    <2> QED
        BY <1>1, <2>1, <2>2 DEF CountTells
<1> QED
    BY <1>4, <1>5, <1>6 DEF Ledger

\* A part that is not created changes its state.
LEMMA PartSet ==
    ASSUME Inv, NEW p \in Parts, NEW s \in States \ {"created"}, NEW o \in Unsure \cup {"planned"},
           job.part[p] # "created", job.op # "none",
           job'.part = [job.part EXCEPT ![p] = s], job'.op = o, job'.lead = job.lead,
           job'.plan = job.plan, (job'.confirmed <=> job.confirmed),
           UNCHANGED <<kind, remote, yeses>>,
           First(p) \/ (job.part[p] # "planned" /\ s # "planned" /\ o = "manual_required"),
           remote.inflight # 0 => o \in Unsure,
           wk'.pc \in Pointing => First(p) \/ wk.pc \in Pointing,
           Unsent(p)' => Unsent(p) \/ (~Survivor(p) /\ remote.writes[p] = 0 /\ remote.inflight # p),
           o = "planned" => First(p) /\ (~Survivor(p) => remote.writes[p] = 0)
    PROVE  Ledger' /\ \A q : First(q)' <=> First(q)
<1>1. (Merge' <=> Merge) /\ (Linear' <=> Linear) /\ \A q : Survivor(q)' <=> Survivor(q)
    BY KindKept
<1>2. job'.part[p] = s /\ \A q \in Parts : q # p => job'.part[q] = job.part[q]
    BY Typed DEF Jobs
<1>3. \A q \in Parts : job'.part[q] = "created" <=> job.part[q] = "created"
    BY <1>2
<1>4. ASSUME NEW q PROVE First(q)' <=> First(q)
    BY <1>3 DEF First
<1>5. ASSUME NEW q \in Parts, q # p, Unsent(q)' PROVE Unsent(q)
    <2>1. CASE wk'.pc \in Pointing /\ First(q)'
        BY <1>4, <1>5, <2>1, OneFirst DEF Unsent, Pointing
    <2>2. CASE /\ job'.part[q] = "planned"
               /\ ~(Linear /\ q = job.lead /\ First(q) /\ o \notin {"none", "planned"})
        BY <1>2, <1>5, <2>2, OneFirst DEF Unsent
    <2> QED
        BY <1>1, <1>4, <1>5, <2>1, <2>2 DEF Unsent, Pointing
<1>6. ASSUME NEW q \in Parts PROVE PartTells(q)'
    <2>1. PartTells(q) /\ q # 0 /\ remote.writes[q] \in Nat
        BY PartsAre, Numbers DEF Inv
    <2>2. CASE q = p
        <3>1. Unsent(p)' => /\ remote.inflight # p
                            /\ ~Survivor(p) => remote.writes[p] = 0
                            /\ Survivor(p) => remote.holds # job.plan
            BY <2>1, <2>2 DEF PartTells
        <3>2. job'.part[p] # "created" /\ (job'.part[1] = "created" <=> job.part[1] = "created")
            BY <1>2, <1>3, PartsAre
        <3>3. o # "none"
            BY DEF Unsure, Doubt
        <3> QED
            BY <1>1, <2>1, <2>2, <3>1, <3>2, <3>3 DEF PartTells
    <2>3. CASE q # p
        <3>1. o = "planned" /\ job.part[q] # "created" => remote.writes[q] = 0
            BY <2>3, BehindFirst
        <3>2. Unsent(q)' => Unsent(q)
            BY <1>5, <2>3
        <3>3. job'.part[q] = job.part[q] /\ (job'.part[1] = "created" <=> job.part[1] = "created")
            BY <1>2, <1>3, <2>3, PartsAre
        <3>4. o # "none"
            BY DEF Unsure, Doubt
        <3> QED
            BY <1>1, <2>1, <3>1, <3>2, <3>3, <3>4 DEF PartTells
    <2> QED
        BY <2>2, <2>3
<1>7. ASSUME NEW a \in Parts, NEW q \in Parts PROVE OrderTells(a, q)'
    <2>1. OrderTells(a, q)
        BY DEF Inv
    <2>2. CASE q = p
        BY <1>1, <1>3, <2>1, <2>2, PartsAre DEF OrderTells, First
    <2>3. CASE q # p
        BY <1>1, <1>2, <1>3, <2>1, <2>3 DEF OrderTells
    <2> QED
        BY <2>2, <2>3
<1>8. CountTells'
    <2>1. CountTells /\ (Merge /\ Unsent(1)' => Unsent(1))
        BY <1>5, PartsAre DEF Inv, Survivor
    <2>2. remote.writes[1] \in Nat /\ yeses.count \in Nat
        BY Numbers, PartsAre
    <2>3. o # "none"
        BY DEF Unsure, Doubt
    <2> QED
        BY <1>1, <2>1, <2>2, <2>3 DEF CountTells
<1> QED
    BY <1>4, <1>6, <1>7, <1>8 DEF Ledger

-----------------------------------------------------------------------------

\* The job with one part and the operation changed.
LEMMA SetPartFields ==
    ASSUME Inv, NEW p \in Parts, NEW s \in States, NEW o \in Ops, NEW j, j = SetPart(p, s, o)
    PROVE  /\ j \in Jobs /\ j.part = [job.part EXCEPT ![p] = s] /\ j.op = o
           /\ j.part[p] = s /\ \A q \in Parts : q # p => j.part[q] = job.part[q]
           /\ j.lead = job.lead /\ j.plan = job.plan /\ (j.confirmed <=> job.confirmed)
           /\ j.status = job.status /\ j.intent = job.intent
           /\ (j.owned <=> job.owned) /\ (j.reconcile <=> job.reconcile)
<1>1. job \in Jobs
    BY Typed
<1>2. PICK f : f = [job.part EXCEPT ![p] = s]
    OBVIOUS
<1>3. f \in [Parts -> States] /\ f[p] = s /\ \A q \in Parts : q # p => f[q] = job.part[q]
    BY <1>1, <1>2 DEF Jobs
<1>4. j = [job EXCEPT !.part = f, !.op = o]
    BY <1>1, <1>2 DEF SetPart, Jobs
<1>5. j \in Jobs /\ j.part = f /\ j.op = o
    BY <1>1, <1>3, <1>4 DEF Jobs
<1>6. /\ j.lead = job.lead /\ j.plan = job.plan /\ j.status = job.status
      /\ j.intent = job.intent
    BY <1>1, <1>4 DEF Jobs
<1>7. /\ (j.confirmed <=> job.confirmed) /\ (j.owned <=> job.owned)
      /\ (j.reconcile <=> job.reconcile)
    BY <1>1, <1>4 DEF Jobs
<1> QED
    BY <1>2, <1>3, <1>5, <1>6, <1>7

\* The states and operations a part's change names.
LEMMA Named ==
    /\ {"planned", "submitted", "ambiguous", "created", "manual_required"} \subseteq States
    /\ {"planned", "submitting", "submitted", "ambiguous", "created", "manual_required"}
         \subseteq Ops
    BY DEF States, Ops

\* A worker that owns the job of an operation under way.
LEMMA OwnerKnows ==
    ASSUME Inv, job.owned
    PROVE  /\ job.op \notin {"created", "manual_required"}
           /\ Merge => job.part[1] # "manual_required"
    BY DEF Inv, JobTells

\* The worker has written the first part.
LEMMA PartDoneKeeps ==
    ASSUME Inv, NEW p \in Parts, First(p), PartDone(p), wk.pc \in Writing,
           remote.inflight = 0, remote.writes[p] > 0, UNCHANGED spent
    PROVE  Inv'
<1>1. UNCHANGED <<kind, scan, cancel, remote, yeses, spent>>
    BY DEF PartDone, Finishes
<1>2. CASE job' = job /\ wk' = Off
    BY <1>1, <1>2, Gone, OffTyped, Typed
<1>3. CASE WorkerMay({"routing", "running"}) /\ ~(job' = job /\ wk' = Off)
    <2>1. job.op # "none" /\ job.confirmed /\ job.owned /\ job.intent = "none"
        BY <1>3 DEF Inv, WorkerTells, WorkerMay
    <2>2. /\ job' \in Jobs /\ job'.part = [job.part EXCEPT ![p] = "created"]
          /\ job'.part[p] = "created"
          /\ \A q \in Parts : q # p => job'.part[q] = job.part[q]
          /\ job'.lead = job.lead /\ job'.plan = job.plan /\ (job'.confirmed <=> job.confirmed)
          /\ job'.intent = "none" /\ job'.status # "awaiting"
          /\ wk' \in Workers
          /\ \/ /\ ~Merge /\ p = job.lead /\ job'.op = "created" /\ job'.status = "completed"
                /\ ~job'.owned /\ wk'.pc = "off"
             \/ job'.op = "planned" /\ wk'.pc = "next"
        <3>1. CASE ~Merge /\ p = job.lead
            <4>1. PICK j : j = SetPart(p, "created", "created")
                OBVIOUS
            <4>2. /\ j \in Jobs /\ j.part = [job.part EXCEPT ![p] = "created"]
                  /\ j.part[p] = "created" /\ \A q \in Parts : q # p => j.part[q] = job.part[q]
                  /\ j.lead = job.lead /\ j.plan = job.plan /\ (j.confirmed <=> job.confirmed)
                  /\ j.intent = job.intent
                BY <4>1, Named, SetPartFields
            <4>3. job' = [j EXCEPT !.status = "completed", !.op = "created", !.owned = FALSE]
                  /\ wk' = Off
                BY <1>3, <3>1, <4>1 DEF PartDone, Finishes, WorkerWrites
            <4> QED
                BY <2>1, <3>1, <4>2, <4>3, OffTyped DEF Jobs, Terminal, Ops
        <3>2. CASE ~(~Merge /\ p = job.lead)
            <4>1. /\ job' = SetPart(p, "created", "planned") /\ wk' = Wrote("next")
                  /\ job.status = "running"
                BY <1>3, <3>2 DEF PartDone, WorkerWrites, WorkerMay
            <4>2. wk' \in Workers /\ wk'.pc = "next"
                BY <4>1, GoFields DEF Writing
            <4>3. PICK j : j = SetPart(p, "created", "planned")
                OBVIOUS
            <4>4. /\ j \in Jobs /\ j.part = [job.part EXCEPT ![p] = "created"] /\ j.op = "planned"
                  /\ j.part[p] = "created" /\ \A q \in Parts : q # p => j.part[q] = job.part[q]
                  /\ j.lead = job.lead /\ j.plan = job.plan /\ (j.confirmed <=> job.confirmed)
                  /\ j.intent = job.intent /\ j.status = job.status
                BY <4>3, Named, SetPartFields
            <4>5. job' = j
                BY <4>1, <4>3
            <4> QED
                BY <2>1, <4>1, <4>2, <4>4, <4>5
        <3> QED
            BY <3>1, <3>2
    <2>3. TypeOK'
        BY <1>1, <2>2, Typed, TypesNext
    <2>4. Ledger'
        BY <1>1, <2>1, <2>2, PartCreated DEF Pointing
    <2>5. (Merge' <=> Merge) /\ (Linear' <=> Linear)
        BY <1>1, KindKept
    <2>6. JobTells'
        <3>1. job'.op = "created" => \A q \in Parts : job'.part[q] = "created"
            <4> SUFFICES ASSUME job'.op = "created", NEW q \in Parts
                         PROVE  job'.part[q] = "created"
                OBVIOUS
            <4>1. p = P
                BY <2>2, PartsAre DEF Inv, CountTells
            <4>2. q = p \/ q < p
                BY <4>1, PartsAre DEF Parts
            <4> QED
                BY <2>2, <4>2 DEF First
        <3>2. Merge => job'.part[1] # "manual_required"
            BY <2>1, <2>2, OwnerKnows, PartsAre
        <3> QED
            BY <2>2, <2>5, <3>1, <3>2 DEF JobTells, Terminal
    <2>7. WorkerTells'
        BY <2>1, <2>2 DEF WorkerTells, Before, Writing
    <2>8. ScanTells'
        BY <1>1, <2>1, <2>2 DEF Inv, ScanTells, Busy, Before, Writing
    <2> QED
        BY <2>3, <2>4, <2>6, <2>7, <2>8, InvNext
<1> QED
    BY <1>2, <1>3 DEF PartDone, Finishes, WorkerWrites, WorkerMay

\* The worker gives the first part up, in doubt or to be retried.
LEMMA PartQueued ==
    ASSUME Inv, NEW p \in Parts, First(p), wk.pc \in Writing, job.owned,
           NEW s \in {"planned", "ambiguous"}, NEW r \in BOOLEAN,
           job' = [SetPart(p, s, s) EXCEPT !.status = "queued", !.reconcile = r, !.owned = FALSE],
           job.intent = "none",
           wk' = Off, UNCHANGED <<kind, scan, cancel, remote, yeses>>, spent' \in Spendings,
           s = "planned" => wk.pc = "nostart"
    PROVE  Inv'
<1>1. job.op # "none" /\ job.confirmed
    BY DEF Inv, WorkerTells
<1>2. PICK j : j = SetPart(p, s, s)
    OBVIOUS
<1>3. /\ j \in Jobs /\ j.part = [job.part EXCEPT ![p] = s] /\ j.op = s
      /\ j.part[p] = s /\ \A q \in Parts : q # p => j.part[q] = job.part[q]
      /\ j.lead = job.lead /\ j.plan = job.plan /\ (j.confirmed <=> job.confirmed)
      /\ j.intent = job.intent
    BY <1>2, Named, SetPartFields
<1>4. job' = [j EXCEPT !.status = "queued", !.reconcile = r, !.owned = FALSE]
    BY <1>2
<1>5. /\ job' \in Jobs /\ job'.part = [job.part EXCEPT ![p] = s] /\ job'.op = s
      /\ job'.part[p] = s /\ \A q \in Parts : q # p => job'.part[q] = job.part[q]
      /\ job'.lead = job.lead /\ job'.plan = job.plan /\ (job'.confirmed <=> job.confirmed)
      /\ job'.intent = "none" /\ job'.status = "queued" /\ ~job'.owned
    <2>1. job' \in Jobs /\ job'.status = "queued" /\ ~job'.owned
        BY <1>3, <1>4 DEF Jobs, Active
    <2>2. /\ job'.part = j.part /\ job'.op = j.op /\ job'.lead = j.lead /\ job'.plan = j.plan
          /\ job'.intent = j.intent
        BY <1>3, <1>4 DEF Jobs
    <2>3. job'.confirmed <=> j.confirmed
        BY <1>3, <1>4 DEF Jobs
    <2> QED
        BY <1>3, <2>1, <2>2, <2>3
<1>6. wk' \in Workers /\ wk'.pc = "off"
    BY OffTyped
<1>7. TypeOK'
    BY <1>5, <1>6, Typed, TypesNext
<1>8. s = "planned" => Unsent(p) /\ PartTells(p)
    BY DEF Unsent, Inv
<1>9. s = "planned" => remote.inflight = 0 /\ (~Survivor(p) => remote.writes[p] = 0)
    BY <1>8, InflightFirst DEF PartTells
<1>10. Unsent(p)' => s = "planned"
    BY <1>5, <1>6 DEF Unsent
<1>11. Ledger' /\ \A q : First(q)' <=> First(q)
    <2>1. s \in States \ {"created"} /\ s \in Unsure \cup {"planned"} /\ job.part[p] # "created"
        BY DEF States, Unsure, Doubt, First
    <2>2. remote.inflight # 0 => s \in Unsure
        BY <1>9 DEF Unsure, Doubt
    <2> QED
        BY <1>1, <1>5, <1>6, <1>8, <1>9, <1>10, <2>1, <2>2, PartSet DEF Pointing
<1>12. JobTells'
    <2>1. Merge => job'.part[1] # "manual_required"
        BY <1>5, OwnerKnows, PartsAre
    <2> QED
        BY <1>5, <2>1, KindKept DEF JobTells
<1>13. WorkerTells'
    BY <1>6 DEF WorkerTells, Before, Writing
<1>14. ScanTells'
    <2>1. scan.pc = "settle" /\ scan.visible /\ s = "planned" => scan.part # p
        BY <1>8 DEF Inv, ScanTells, First
    <2>2. Busy => /\ scan.part \in Parts /\ job.part[scan.part] # "manual_required"
                  /\ job.part[scan.part] # "planned"
        BY DEF Inv, ScanTells, Writing
    <2>3. Busy' => /\ scan'.part \in Parts /\ wk'.pc \notin Before /\ job'.status # "awaiting"
                   /\ job'.op # "none" /\ job'.part[scan'.part] # "manual_required"
        BY <1>5, <1>6, <2>2 DEF Busy, Before
    <2>4. scan.pc = "settle" /\ scan.visible =>
            /\ remote.writes[scan.part] > 0
            /\ job.part[scan.part] # "created" => remote.inflight # scan.part
        BY DEF Inv, ScanTells
    <2>5. scan.pc = "settle" /\ scan.visible /\ job'.part[scan.part] # "created" =>
            remote.inflight # scan.part
        BY <1>5, <2>2, <2>4 DEF Busy, First
    <2> QED
        BY <1>6, <2>3, <2>4, <2>5 DEF ScanTells
<1> QED
    BY <1>7, <1>11, <1>12, <1>13, <1>14, InvNext

\* A part in doubt is queued for reconciliation.
LEMMA QueuesAmbiguousKeeps ==
    ASSUME Inv, NEW p \in Parts, First(p), wk.pc \in Writing, QueuesAmbiguous(p),
           spent' \in Spendings
    PROVE  Inv'
<1>1. CASE job' = job /\ wk' = Off
    BY <1>1, Gone, OffTyped, Typed DEF QueuesAmbiguous
<1>2. CASE /\ WorkerMay({"routing", "running"}) /\ wk' = Off
           /\ job' = [SetPart(p, "ambiguous", "ambiguous") EXCEPT
                        !.status = "queued", !.reconcile = TRUE, !.owned = FALSE]
    BY <1>2, PartQueued DEF QueuesAmbiguous, WorkerMay
<1> QED
    BY <1>1, <1>2 DEF QueuesAmbiguous, WorkerWrites

\* A part that was never sent is planned again.
LEMMA QueuesRetryKeeps ==
    ASSUME Inv, NEW p \in Parts, First(p), At("nostart"), QueuesRetry(p)
    PROVE  Inv'
<1>1. CASE job' = job /\ wk' = Off
    BY <1>1, Gone, OffTyped, Typed DEF QueuesRetry
<1>2. CASE /\ WorkerMay({"routing", "running"}) /\ wk' = Off
           /\ job' = [SetPart(p, "planned", "planned") EXCEPT !.status = "queued",
                                                              !.owned = FALSE]
    <2>1. PICK j : j = SetPart(p, "planned", "planned")
        OBVIOUS
    <2>2. j \in Jobs
        BY ZenonT(30), <2>1, Named, SetPartFields
    <2>3. PICK r \in BOOLEAN : r = j.reconcile
        BY <2>2 DEF Jobs
    <2>4. job' = [j EXCEPT !.status = "queued", !.reconcile = r, !.owned = FALSE]
        BY <1>2, <2>1, <2>2, <2>3 DEF Jobs
    <2>5. job' = [SetPart(p, "planned", "planned") EXCEPT !.status = "queued",
                                             !.reconcile = r, !.owned = FALSE]
        BY <2>1, <2>4
    <2>6. wk.pc = "nostart" /\ wk.pc \in Writing /\ job.owned /\ job.intent = "none"
        BY <1>2 DEF At, WorkerMay, Writing
    <2> QED
        BY <1>2, <2>5, <2>6, PartQueued, Typed DEF QueuesRetry
<1> QED
    BY <1>1, <1>2 DEF QueuesRetry, WorkerWrites

\* The worker records the first part, or the prompt of it, before anything is sent.
LEMMA PartNoted ==
    ASSUME Inv, NEW p \in Parts, First(p), wk.pc \in Writing, job.owned, job.intent = "none",
           job.status = "running",
           NEW s \in {"planned", "submitted", "ambiguous", "manual_required"},
           NEW o \in {"planned", "submitting", "submitted"}, NEW l \in {"marked", "fenced", "out"},
           job' = SetPart(p, s, o), wk' = Wrote(l),
           UNCHANGED <<kind, scan, cancel, remote, yeses, spent>>,
           s = job.part[p] \/ (s \in {"planned", "submitted"} /\ (Busy => scan.part # p)),
           l = "out" => wk.pc = "out",
           l = "fenced" => Linear /\ o \in Unsure,
           l = "marked" /\ ~Linear => o \in Unsure,
           l \in {"marked", "fenced"} /\ s = "planned" => Linear /\ p = job.lead,
           l \in {"marked", "fenced"} =>
             \/ wk.pc \in Pointing
             \/ Unsent(p) /\ (Busy => scan.part # p)
             \/ ~Survivor(p) /\ remote.writes[p] = 0 /\ (Busy => scan.part # p),
           remote.inflight # 0 => o \in Unsure,
           l = "out" => Linear /\ o \in Unsure /\ job.op \in Unsure /\ s = job.part[p],
           l \in {"marked", "fenced"} => remote.inflight = 0,
           o = "planned" /\ ~Survivor(p) => remote.writes[p] = 0
    PROVE  Inv'
<1>1. job.op # "none" /\ job.confirmed
    BY DEF Inv, WorkerTells
<1>2. PICK j : j = SetPart(p, s, o)
    OBVIOUS
<1>3. /\ job' \in Jobs /\ job'.part = [job.part EXCEPT ![p] = s] /\ job'.op = o
      /\ job'.part[p] = s /\ \A q \in Parts : q # p => job'.part[q] = job.part[q]
      /\ job'.lead = job.lead /\ job'.plan = job.plan /\ (job'.confirmed <=> job.confirmed)
      /\ job'.status = job.status /\ job'.intent = job.intent /\ (job'.owned <=> job.owned)
    <2>1. job' = j /\ s \in States /\ o \in Ops
        BY <1>2, Named
    <2> QED
        BY <1>2, <2>1, SetPartFields
<1>4. wk' \in Workers /\ wk'.pc = l
    BY GoFields DEF Writing
<1>5. TypeOK'
    BY <1>3, <1>4, Typed, TypesNext
<1>6. (Merge' <=> Merge) /\ (Linear' <=> Linear)
    BY KindKept
<1>7. Ledger' /\ \A q : First(q)' <=> First(q)
    <2>1. s \in States \ {"created"} /\ o \in Unsure \cup {"planned"} /\ job.part[p] # "created"
        BY DEF States, Unsure, Doubt, First
    <2>2. wk.pc \in Pointing => Unsent(p)
        BY DEF Pointing, Unsent
    <2>3. Unsent(p)' => Unsent(p) \/ (~Survivor(p) /\ remote.writes[p] = 0 /\ remote.inflight # p)
        <3>1. CASE l = "out"
            <4>1. Unsent(p)' => job'.part[p] = "planned" /\ p # job.lead
                <5>1. First(p)'
                    BY <1>3 DEF First
                <5> QED
                    BY <1>3, <1>4, <1>6, <3>1, <5>1 DEF Unsent, Unsure, Doubt
            <4> QED
                BY <1>3, <3>1, <4>1 DEF Unsent
        <3>2. CASE l # "out"
            BY <2>2, <3>2, PartsAre
        <3> QED
            BY <3>1, <3>2
    <2> QED
        BY <1>1, <1>3, <2>1, <2>3, PartSet
<1>8. JobTells'
    <2>1. Merge => job'.part[1] # "manual_required"
        BY <1>3, OwnerKnows, PartsAre
    <2> QED
        BY <1>3, <1>6, <2>1 DEF JobTells
<1>9. WorkerTells'
    <2>1. \A q \in Parts : First(q) /\ q # p => FALSE
        BY OneFirst
    <2>2. l \in {"marked", "fenced"} =>
            \A q \in Parts : First(q) /\ job'.part[q] = "planned" => Linear /\ q = job.lead
        BY <1>3, <2>1
    <2> QED
        BY <1>1, <1>3, <1>4, <1>6, <1>7, <2>2 DEF WorkerTells, Before, Writing
<1>10. ScanTells'
    <2>1. Busy => /\ scan.part \in Parts /\ job.part[scan.part] # "manual_required"
                  /\ job.part[scan.part] # "planned"
        BY DEF Inv, ScanTells, Writing
    <2>2. Busy => job'.part[scan.part] = job.part[scan.part]
        BY <1>3, <2>1
    <2>3. scan.pc = "settle" /\ scan.visible /\ l \in {"marked", "fenced"} =>
            ~First(scan.part) \/ job.part[scan.part] = "created"
        <3> SUFFICES ASSUME scan.pc = "settle", scan.visible, l \in {"marked", "fenced"},
                            First(scan.part)
                     PROVE  FALSE
            OBVIOUS
        <3>1. scan.part = p /\ Busy
            BY OneFirst DEF Busy
        <3>2. wk.pc \in Pointing
            BY <3>1
        <3> QED
            BY <3>1, <3>2 DEF Inv, ScanTells, First, Pointing
    <2>4. scan.pc = "settle" /\ scan.visible =>
            /\ remote.writes[scan.part] > 0
            /\ job.part[scan.part] # "created" => remote.inflight # scan.part
        BY DEF Inv, ScanTells
    <2> QED
        BY <1>3, <1>4, <1>7, <2>1, <2>2, <2>3, <2>4 DEF ScanTells, Busy, Before
<1> QED
    BY <1>5, <1>7, <1>8, <1>9, <1>10, InvNext

\* A part is marked only while nothing of it was written or sent.
LEMMA MarksPartKeeps ==
    ASSUME Inv, NEW p \in Parts, First(p), MarksPart(p)
    PROVE  Inv'
<1>1. CASE job' = job /\ wk' = Off
    BY <1>1, Gone, OffTyped, Typed DEF MarksPart
<1>2. CASE WorkerMay({"running"}) /\ job' = Marks(p) /\ wk' = Wrote("marked")
    <2>1. /\ wk.pc = "next" /\ job.owned /\ job.intent = "none" /\ job.status = "running"
          /\ wk.pc \in Writing
        BY <1>2 DEF MarksPart, At, WorkerMay, Writing
    <2>2. job.op = "planned" /\ remote.inflight = 0
        BY <2>1, PlannedIsQuiet DEF Inv, WorkerTells
    <2>3. ~Survivor(p) => remote.writes[p] = 0
        BY <2>2 DEF Inv, PartTells, First
    <2>4. Busy => scan.part # p
        BY <2>1 DEF MarksPart, Inv, ScanTells
    <2>5. Survivor(p) => Unsent(p)
        <3>1. Survivor(p) => job.part[p] = "planned"
            BY <2>1, OwnerKnows DEF MarksPart, Survivor
        <3> QED
            BY <2>2, <3>1 DEF Unsent
    <2>6. PICK s \in {"planned", "submitted"}, o \in {"planned", "submitted"} :
             /\ job' = SetPart(p, s, o) /\ (~Linear => o = "submitted")
             /\ s = "planned" => Linear /\ p = job.lead
        BY <1>2 DEF Marks
    <2>7. ~Linear => o \in Unsure
        BY <2>6 DEF Unsure, Doubt
    <2>8. PICK l : l = "marked"
        OBVIOUS
    <2> QED
        BY <1>2, <2>1, <2>2, <2>3, <2>4, <2>5, <2>6, <2>7, <2>8, PartNoted DEF MarksPart
<1> QED
    BY <1>1, <1>2 DEF MarksPart, WorkerWrites

\* The operation changes and the parts do not.
LEMMA OpOnly ==
    ASSUME Inv, NEW p \in Parts, NEW o, job' = [job EXCEPT !.op = o]
    PROVE  job' = SetPart(p, job.part[p], o)
<1>1. job \in Jobs
    BY Typed
<1>2. [job.part EXCEPT ![p] = job.part[p]] = job.part
    BY <1>1 DEF Jobs
<1>3. SetPart(p, job.part[p], o) = [job EXCEPT !.part = [job.part EXCEPT ![p] = job.part[p]],
                                               !.op = o]
    BY <1>1 DEF SetPart, Jobs
<1>4. [job EXCEPT !.part = job.part, !.op = o] = [job EXCEPT !.op = o]
    BY <1>1 DEF Jobs
<1> QED
    BY <1>2, <1>3, <1>4

\* The first part leaves for the provider.
LEMMA SendsKeeps ==
    ASSUME Inv, NEW p \in Parts, First(p), Sends(p), wk.pc \in {"marked", "fenced"},
           wk.pc = "marked" => ~Linear
    PROVE  Inv' /\ remote'.sent = yeses.plan /\ remote'.inflight = p
<1>1. job.op \in Unsure /\ job.confirmed /\ job.op # "none"
    BY DEF Inv, WorkerTells, Writing
<1>2. Unsent(p) /\ PartTells(p) /\ CountTells
    BY DEF Unsent, Inv
<1>3. remote.inflight = 0 /\ remote \in Remotes /\ p # 0
    BY <1>2, InflightFirst, Typed, PartsAre DEF PartTells
<1>4. /\ remote' \in Remotes /\ remote'.inflight = p /\ remote'.sent = job.plan
      /\ remote'.writes = remote.writes /\ remote'.holds = remote.holds
    <2>1. p \in 0..P /\ job.plan \in Plans
        BY PartsAre, Typed DEF Jobs
    <2>2. remote' = [remote EXCEPT !.inflight = p, !.sent = job.plan]
        BY DEF Sends
    <2> QED
        BY <1>3, <2>1, <2>2 DEF Remotes
<1>5. wk' \in Workers /\ wk'.pc = "out" /\ UNCHANGED <<kind, job, scan, cancel, yeses, spent>>
    BY GoFields DEF Sends, Writing
<1>6. TypeOK'
    BY <1>4, <1>5, Typed, TypesNext
<1>7. (Merge' <=> Merge) /\ (Linear' <=> Linear) /\ \A q : Survivor(q)' <=> Survivor(q)
    BY <1>5, KindKept
<1>8. \A q : First(q)' <=> First(q)
    BY <1>5, SameFirst
<1>9. ASSUME NEW q, Unsent(q)' PROVE Unsent(q)
    BY <1>5, <1>9, SameUnsent DEF Pointing
<1>10. ~Unsent(p)'
    <2>1. job.part[p] = "planned" => Linear /\ p = job.lead
        BY DEF Inv, WorkerTells
    <2> QED
        BY <1>1, <1>5, <1>7, <1>8, <2>1 DEF Unsent, Unsure, Doubt
<1>11. ASSUME NEW q \in Parts PROVE PartTells(q)'
    <2>1. PartTells(q) /\ remote.writes[q] \in Nat
        BY Numbers DEF Inv
    <2>2. CASE q = p
        <3>1. ~Survivor(p) => remote.writes[p] = 0
            BY <1>2 DEF PartTells
        <3>2. Survivor(p) => remote.holds # job.plan
            BY <1>1, <1>2 DEF PartTells
        <3>3. Merge /\ p # 1 => job.part[1] = "created"
            BY PartsAre DEF First
        <3> QED
            BY <1>1, <1>4, <1>5, <1>7, <1>10, <2>1, <2>2, <3>1, <3>2, <3>3
                DEF PartTells, First, Unsure, Doubt
    <2>3. CASE q # p
        BY <1>3, <1>4, <1>5, <1>7, <1>9, <2>1, <2>3 DEF PartTells
    <2> QED
        BY <2>2, <2>3
<1>12. ASSUME NEW a \in Parts, NEW q \in Parts PROVE OrderTells(a, q)'
    <2>1. OrderTells(a, q) /\ PartTells(a)
        BY DEF Inv
    <2>2. a < p => remote.writes[a] > 0
        BY <2>1 DEF PartTells, First
    <2> QED
        BY <1>4, <1>5, <1>7, <2>1, <2>2 DEF OrderTells
<1>13. CountTells'
    <2>1. Merge => remote.writes[1] + (IF p = 1 THEN 1 ELSE 0)
                     + (IF job.confirmed /\ Unsent(1)' THEN 1 ELSE 0) <= yeses.count
        <3>1. CASE p = 1
            <4>1. Merge => remote.writes[1] + 1 <= yeses.count
                BY <1>1, <1>2, <1>3, <3>1, Numbers, PartsAre DEF CountTells
            <4>2. ~Unsent(1)'
                BY <1>10, <3>1
            <4> QED
                BY <3>1, <4>1, <4>2, Numbers, PartsAre
        <3>2. CASE p # 1
            <4>1. Unsent(1)' => Unsent(1)
                BY <1>9
            <4>2. Merge => remote.writes[1] + (IF job.confirmed /\ Unsent(1) THEN 1 ELSE 0)
                             <= yeses.count
                BY <1>2, <1>3, Numbers, PartsAre DEF CountTells
            <4> QED
                BY <3>2, <4>1, <4>2, Numbers, PartsAre
        <3> QED
            BY <3>1, <3>2
    <2> QED
        BY <1>1, <1>2, <1>4, <1>5, <1>7, <2>1 DEF CountTells
<1>14. JobTells'
    BY <1>5, JobKept
<1>15. WorkerTells'
    BY <1>1, <1>5 DEF WorkerTells, Before, Writing
<1>16. ScanTells'
    <2>1. scan.pc = "settle" /\ scan.visible => scan.part # p
        BY DEF Inv, ScanTells, First
    <2> QED
        BY <1>4, <1>5, <2>1 DEF Inv, ScanTells, Busy, Before
<1>17. remote'.sent = yeses.plan
    BY <1>1, <1>2, <1>4 DEF CountTells
<1> QED
    BY <1>4, <1>6, <1>11, <1>12, <1>13, <1>14, <1>15, <1>16, <1>17, InvNext DEF Ledger

\* The fence, the prompt and its acceptance.
LEMMA PromptsKeeps ==
    ASSUME Inv, NEW p \in Parts, First(p), Linear, Prompts(p)
    PROVE  Inv'
<1>1. CASE job' = job /\ wk' = Off /\ UNCHANGED <<kind, scan, cancel, remote, yeses, spent>>
    BY <1>1, Gone, OffTyped, Typed
<1>2. CASE At("fenced") /\ Sends(p)
    BY <1>2, SendsKeeps DEF At
<1>3. PICK s : s = job.part[p]
    OBVIOUS
<1>4. s \in {"planned", "submitted", "ambiguous", "manual_required"}
    BY <1>3, Typed DEF Jobs, States, First
<1>5. CASE /\ At("marked") /\ WorkerMay({"running"}) /\ job' = [job EXCEPT !.op = "submitting"]
           /\ wk' = Wrote("fenced") /\ UNCHANGED <<kind, scan, cancel, remote, yeses, spent>>
    <2>1. PICK o \in {"planned", "submitting", "submitted"}, l \in {"marked", "fenced", "out"} :
            o = "submitting" /\ l = "fenced"
        OBVIOUS
    <2>2. job' = SetPart(p, s, o)
        BY <1>3, <1>5, <2>1, OpOnly
    <2>3. wk.pc = "marked" /\ wk.pc \in Pointing /\ wk.pc \in Writing /\ o \in Unsure
        BY <1>5, <2>1 DEF At, Pointing, Writing, Unsure, Doubt
    <2>4. job.owned /\ job.intent = "none" /\ job.status = "running"
        BY <1>5 DEF WorkerMay
    <2>5. s = "planned" => p = job.lead
        BY <1>3, <2>3 DEF Inv, WorkerTells
    <2>6. remote.inflight = 0
        <3>1. Unsent(p) /\ PartTells(p)
            BY <2>3 DEF Unsent, Inv
        <3> QED
            BY <3>1, InflightFirst DEF PartTells
    <2> QED
        BY <1>3, <1>4, <1>5, <2>1, <2>2, <2>3, <2>4, <2>5, <2>6, PartNoted
<1>6. CASE /\ At("out") /\ job.op = "submitting" /\ WorkerMay({"running"})
           /\ job' = [job EXCEPT !.op = "submitted"]
           /\ wk' = Wrote("out") /\ UNCHANGED <<kind, scan, cancel, remote, yeses, spent>>
    <2>1. PICK o \in {"planned", "submitting", "submitted"}, l \in {"marked", "fenced", "out"} :
            o = "submitted" /\ l = "out"
        OBVIOUS
    <2>2. job' = SetPart(p, s, o)
        BY <1>3, <1>6, <2>1, OpOnly
    <2>3. wk.pc = "out" /\ wk.pc \in Writing /\ o \in Unsure /\ job.op \in Unsure
        BY <1>6, <2>1 DEF At, Writing, Unsure, Doubt
    <2>4. job.owned /\ job.intent = "none" /\ job.status = "running"
        BY <1>6 DEF WorkerMay
    <2> QED
        BY <1>3, <1>4, <1>6, <2>1, <2>2, <2>3, <2>4, PartNoted
<1> QED
    BY <1>1, <1>2, <1>5, <1>6 DEF Prompts, WorkerWrites

\* A part that is seen is done.
LEMMA SeenDone ==
    ASSUME Inv, NEW p \in Parts, First(p), Seen(p), PartDone(p), wk.pc \in Writing,
           UNCHANGED spent
    PROVE  Inv'
<1>1. job.op # "none"
    BY DEF Inv, WorkerTells
<1>2. remote.writes[p] > 0 /\ remote.inflight = 0
    BY <1>1, SeenIsWritten, InflightFirst
<1> QED
    BY <1>2, PartDoneKeeps

\* A part found in doubt is looked for and not sent.
LEMMA ObservesKeeps ==
    ASSUME Inv, NEW p \in Parts, First(p), Observes(p)
    PROVE  Inv'
<1>1. wk.pc \in Writing
    BY DEF Observes, At, Writing
<1>2. CASE Seen(p) /\ PartDone(p)
    BY <1>1, <1>2, SeenDone DEF PartDone, Finishes
<1>3. CASE QueuesAmbiguous(p) /\ (Errs \/ UNCHANGED spent)
    BY <1>1, <1>3, QueuesAmbiguousKeeps, ErrsSpends, NothingSpent
<1> QED
    BY <1>2, <1>3 DEF Observes

\* What the answer of the command makes of the part.
LEMMA ConcludesGitHubKeeps ==
    ASSUME Inv, NEW p \in Parts, First(p), ConcludesGitHub(p)
    PROVE  Inv'
<1>1. wk.pc \in Writing
    BY DEF ConcludesGitHub, At, Writing
<1>2. CASE At("answered") /\ PartDone(p)
    <2>1. remote.writes[p] > 0 /\ remote.inflight = 0
        BY <1>2 DEF Inv, WorkerTells, At
    <2> QED
        BY <1>1, <1>2, <2>1, PartDoneKeeps DEF PartDone, Finishes
<1>3. CASE Seen(p) /\ PartDone(p)
    BY <1>1, <1>3, SeenDone DEF PartDone, Finishes
<1>4. CASE QueuesAmbiguous(p) /\ (Errs \/ UNCHANGED spent)
    BY <1>1, <1>4, QueuesAmbiguousKeeps, ErrsSpends, NothingSpent
<1>5. CASE wk.pc \in NeverSent /\ QueuesRetry(p)
    BY <1>5, QueuesRetryKeeps DEF NeverSent, At
<1> QED
    BY <1>2, <1>3, <1>4, <1>5 DEF ConcludesGitHub

\* What the router shows makes of the part.
LEMMA ConcludesLinearKeeps ==
    ASSUME Inv, NEW p \in Parts, First(p), ConcludesLinear(p)
    PROVE  Inv'
<1>1. wk.pc \in Writing
    BY DEF ConcludesLinear, Writing, NeverSent
<1>2. CASE Seen(p) /\ PartDone(p)
    BY <1>1, <1>2, SeenDone DEF PartDone, Finishes
<1>3. CASE QueuesAmbiguous(p) /\ (Errs \/ UNCHANGED spent)
    BY <1>1, <1>3, QueuesAmbiguousKeeps, ErrsSpends, NothingSpent
<1>4. CASE wk.pc \in NeverSent /\ QueuesRetry(p)
    BY <1>4, QueuesRetryKeeps DEF NeverSent, At
<1> QED
    BY <1>2, <1>3, <1>4 DEF ConcludesLinear

\* One turn of a loop.
LEMMA WritesKeeps == ASSUME Inv, NEW k, NEW lead, Writes(k, lead) PROVE Inv'
<1>1. PICK p : p = Cur
    OBVIOUS
<1>2. First(p) /\ p \in Parts
    BY <1>1, CurIsFirst DEF Writes, First
<1>3. CASE Observes(p)
    BY <1>2, <1>3, ObservesKeeps
<1>4. CASE MarksPart(p)
    BY <1>2, <1>4, MarksPartKeeps
<1>5. CASE ~Linear /\ At("marked") /\ Sends(p)
    BY <1>2, <1>5, SendsKeeps DEF At
<1>6. CASE Linear /\ Prompts(p)
    BY <1>2, <1>6, PromptsKeeps
<1>7. CASE ConcludesGitHub(p)
    BY <1>2, <1>7, ConcludesGitHubKeeps
<1>8. CASE ConcludesLinear(p)
    BY <1>2, <1>8, ConcludesLinearKeeps
<1> QED
    BY <1>1, <1>3, <1>4, <1>5, <1>6, <1>7, <1>8 DEF Writes

\* The job ends when every part was created before.
LEMMA EndsKeeps == ASSUME Inv, Ends PROVE Inv'
<1>1. UNCHANGED <<kind, scan, cancel, remote, yeses, spent>> /\ wk' = Off
    BY DEF Ends, Finishes, WorkerWrites
<1>2. CASE job' = job
    BY <1>1, <1>2, Gone, OffTyped, Typed
<1>3. CASE /\ WorkerMay({"routing", "running"})
           /\ job' = [job EXCEPT !.status = "completed", !.op = "created", !.owned = FALSE]
    <2>1. \A p \in Parts : job.part[p] = "created"
        BY NoCur DEF Ends
    <2>2. job.op = "planned" /\ remote.inflight = 0 /\ job.confirmed /\ job.intent = "none"
        BY <1>3, PlannedIsQuiet DEF Inv, WorkerTells, Ends, At, WorkerMay, Writing
    <2>3. job \in Jobs
        BY Typed
    <2>4. /\ job' \in Jobs /\ job'.part = job.part /\ job'.op = "created"
          /\ job'.lead = job.lead /\ job'.plan = job.plan /\ (job'.confirmed <=> job.confirmed)
          /\ job'.status = "completed" /\ ~job'.owned /\ job'.intent = "none"
        BY <1>3, <2>2, <2>3 DEF Jobs, Terminal, Ops
    <2>5. wk' \in Workers /\ wk'.pc = "off"
        BY <1>1, OffTyped
    <2>6. TypeOK'
        BY <1>1, <2>4, <2>5, Typed, TypesNext
    <2>7. (Merge' <=> Merge) /\ (Linear' <=> Linear) /\ \A q : Survivor(q)' <=> Survivor(q)
        BY <1>1, KindKept
    <2>8. \A p \in Parts : ~Unsent(p)'
        BY <2>1, <2>4, <2>5 DEF Unsent
    <2>9. ASSUME NEW p \in Parts PROVE PartTells(p)'
        <3>1. PartTells(p) /\ p # 0
            BY PartsAre DEF Inv
        <3> QED
            BY <1>1, <2>1, <2>2, <2>4, <2>7, <2>8, <3>1 DEF PartTells
    <2>10. ASSUME NEW p \in Parts, NEW q \in Parts PROVE OrderTells(p, q)'
        BY <1>1, <2>4, <2>7 DEF Inv, OrderTells
    <2>11. CountTells'
        <3>1. CountTells
            BY DEF Inv
        <3>2. Merge => remote.writes[1] <= yeses.count
            BY <2>2, <3>1, Numbers, PartsAre DEF CountTells
        <3>3. remote.writes[1] \in Nat /\ ~Unsent(1)'
            BY <2>8, Numbers, PartsAre
        <3> QED
            BY <1>1, <2>2, <2>4, <2>7, <3>1, <3>2, <3>3 DEF CountTells
    <2>12. JobTells'
        BY <2>1, <2>4, <2>7, PartsAre DEF JobTells, Terminal
    <2>13. WorkerTells'
        BY <2>5 DEF WorkerTells, Before, Writing
    <2>14. ScanTells'
        BY <1>1, <2>1, <2>4, <2>5 DEF Inv, ScanTells, Busy, Before
    <2> QED
        BY <2>6, <2>9, <2>10, <2>11, <2>12, <2>13, <2>14, InvNext DEF Ledger
<1> QED
    BY <1>2, <1>3 DEF Ends, Finishes, WorkerWrites

\* The scan found the part: it was the first, and everything else was not sent.
LEMMA FoundKeeps ==
    ASSUME Inv, scan.pc = "settle", scan.visible, StillInDoubt, ~Illegal(Found(scan.part)),
           job' = Found(scan.part), wk' = Off, scan' \in Scans, ScanTells',
           UNCHANGED <<kind, cancel, remote, yeses, spent>>
    PROVE  Inv'
<1>1. PICK p : p = scan.part
    OBVIOUS
<1>2. p \in Parts /\ p = InFlight /\ job.op # "none" /\ remote.writes[p] > 0
    BY <1>1 DEF Inv, ScanTells, Busy, StillInDoubt
<1>3. job.part[p] \in Doubt /\ (p = job.lead => Others = {})
    BY <1>2, InFlightIs, PartsAre
<1>4. First(p)
    <2>1. ASSUME NEW q \in Parts, q < p PROVE job.part[q] = "created"
        <3>1. OrderTells(q, p) /\ PartTells(p)
            BY <1>2 DEF Inv
        <3>2. ~Survivor(q) \/ job.part[q] = "created"
            BY <1>2, <1>3, <2>1, <3>1, PartsAre DEF PartTells, Survivor, Doubt
        <3> QED
            BY <1>3, <2>1, <3>1, <3>2 DEF OrderTells, Doubt
    <2> QED
        BY <1>2, <1>3, <2>1 DEF First, Doubt
<1>5. remote.inflight = 0
    <2>1. remote.inflight # p
        BY <1>1, <1>3 DEF Inv, ScanTells, Doubt
    <2> QED
        BY <1>2, <1>4, <2>1, InflightFirst
<1>6. PICK j : j = SetPart(p, "created", "planned")
    OBVIOUS
<1>7. /\ j \in Jobs /\ j.part = [job.part EXCEPT ![p] = "created"] /\ j.op = "planned"
      /\ j.part[p] = "created" /\ \A q \in Parts : q # p => j.part[q] = job.part[q]
      /\ j.lead = job.lead /\ j.plan = job.plan /\ (j.confirmed <=> job.confirmed)
      /\ j.intent = job.intent /\ j.status = job.status
    BY <1>2, <1>6, Named, SetPartFields
<1>8. PICK i : i = [j EXCEPT !.reconcile = FALSE, !.owned = FALSE]
    OBVIOUS
<1>9. /\ i \in Jobs /\ i.part = j.part /\ i.op = "planned" /\ i.lead = j.lead /\ i.plan = j.plan
      /\ (i.confirmed <=> j.confirmed) /\ i.intent = j.intent /\ i.status = j.status
      /\ ~i.owned
    BY <1>7, <1>8 DEF Jobs
<1>10. Found(p) = IF Pending(i) THEN [i EXCEPT !.status = "queued"]
                  ELSE [i EXCEPT !.status = IF @ \in Terminal THEN @ ELSE "completed",
                                 !.op = "created"]
    BY <1>6, <1>8 DEF Found
<1>11. job' = Found(p) /\ ~Illegal(Found(p))
    BY <1>1
<1>12. /\ job' \in Jobs /\ job'.part = j.part /\ job'.lead = job.lead /\ job'.plan = job.plan
       /\ (job'.confirmed <=> job.confirmed) /\ job'.intent = job.intent /\ ~job'.owned
       /\ \/ Pending(i) /\ job'.op = "planned" /\ job'.status = "queued"
          \/ /\ ~Pending(i) /\ job'.op = "created" /\ job'.status \in Terminal
    <2>1. CASE Pending(i)
        <3>1. job' = [i EXCEPT !.status = "queued"]
            BY <1>10, <1>11, <2>1
        <3> QED
            BY <1>7, <1>9, <2>1, <3>1 DEF Jobs, Active
    <2>2. CASE ~Pending(i)
        <3>1. PICK s : s = IF i.status \in Terminal THEN i.status ELSE "completed"
            OBVIOUS
        <3>2. job' = [i EXCEPT !.status = s, !.op = "created"] /\ s \in Terminal
            BY <1>10, <1>11, <2>2, <3>1 DEF Terminal
        <3>3. "created" \in Ops
            BY Named
        <3> QED
            BY ZenonT(30), <1>7, <1>9, <2>2, <3>2, <3>3 DEF Jobs
    <2> QED
        BY <2>1, <2>2
<1>13. job.intent = "none"
    <2> SUFFICES ASSUME job.intent # "none" PROVE FALSE
        OBVIOUS
    <2>1. job.status = "reconciling"
        BY DEF Inv, JobTells
    <2>2. job'.status = "reconciling"
        BY <1>11, <2>1 DEF Illegal
    <2> QED
        BY <1>12, <2>2 DEF Terminal
<1>14. wk' \in Workers /\ wk'.pc = "off"
    BY OffTyped
<1>15. TypeOK'
    BY <1>12, <1>14, Typed, TypesNext
<1>16. Ledger'
    BY <1>2, <1>4, <1>5, <1>7, <1>12, <1>14, PartCreated DEF Pointing
<1>17. ASSUME ~Pending(i), NEW q \in Parts
       PROVE  job'.part[q] = "created" \/ (Merge /\ q # 1 /\ job'.part[q] = "manual_required")
    <2>1. q = p \/ q < p => job'.part[q] = "created"
        BY <1>4, <1>7, <1>12 DEF First
    <2>2. CASE p < q /\ job.part[q] # "created" /\ q # p
        <3>1. job'.part[q] = job.part[q] /\ OrderTells(p, q)
            BY <1>2, <1>7, <1>12, <2>2 DEF Inv
        <3>2. q # job.lead => job.part[q] # "planned"
            BY <1>7, <1>9, <1>17, <2>2 DEF Pending
        <3>3. ~Merge => q # job.lead
            BY <1>7, <1>9, <1>17, <2>2, PartsAre DEF Pending
        <3>4. Merge => job.lead = 1
            BY <1>2 DEF Inv, CountTells
        <3>5. q # 1
            BY <1>2, <2>2, PartsAre
        <3>6. Survivor(p)
            BY <1>3, <2>2, <3>1, <3>2, <3>3, <3>4, <3>5 DEF OrderTells, Doubt
        <3>7. Others = {}
            BY <1>3, <3>4, <3>6 DEF Survivor
        <3>8. job.part[q] \notin Doubt /\ job.part[q] \in States
            BY <3>4, <3>5, <3>6, <3>7, Typed DEF Others, Survivor, Jobs
        <3> QED
            BY <2>2, <3>1, <3>2, <3>4, <3>5, <3>6, <3>8 DEF States, Doubt, Survivor
    <2>3. CASE p < q /\ job.part[q] = "created" /\ q # p
        BY <1>7, <1>12, <2>3
    <2>4. q = p \/ q < p \/ (p < q /\ q # p)
        BY <1>2, PartsAre
    <2> QED
        BY <2>1, <2>2, <2>3, <2>4
<1>18. JobTells'
    <2>1. Merge => job'.part[1] = "created"
        BY <1>2, <1>4, <1>7, <1>12, PartsAre DEF First
    <2>2. job'.op = "created" =>
             \A q \in Parts : job'.part[q] = "created"
                               \/ (Merge /\ q # 1 /\ job'.part[q] = "manual_required")
        BY <1>12, <1>17
    <2> QED
        BY <1>12, <1>13, <2>1, <2>2, KindKept DEF JobTells, Terminal
<1>19. WorkerTells'
    BY <1>14 DEF WorkerTells, Before, Writing
<1> QED
    BY <1>15, <1>16, <1>18, <1>19, InvNext

\* The scan did not find the part: it is handed to the user.
LEMMA ManualKeeps ==
    ASSUME Inv, scan.pc = "settle", StillInDoubt, ~Illegal(Manual(scan.part)),
           job' = Manual(scan.part), wk' = [wk EXCEPT !.clean = FALSE], scan' \in Scans, ScanTells',
           UNCHANGED <<kind, cancel, remote, yeses, spent>>
    PROVE  Inv'
<1>1. PICK p : p = scan.part
    OBVIOUS
<1>2. p \in Parts /\ p = InFlight /\ job.op # "none" /\ Busy
    BY <1>1 DEF Inv, ScanTells, Busy, StillInDoubt
<1>3. job.part[p] \in Doubt
    BY <1>2, InFlightIs, PartsAre
<1>4. PICK j : j = SetPart(p, "manual_required", "manual_required")
    OBVIOUS
<1>5. /\ j \in Jobs /\ j.part = [job.part EXCEPT ![p] = "manual_required"]
      /\ j.op = "manual_required"
      /\ j.part[p] = "manual_required" /\ \A q \in Parts : q # p => j.part[q] = job.part[q]
      /\ j.lead = job.lead /\ j.plan = job.plan /\ (j.confirmed <=> job.confirmed)
      /\ j.intent = job.intent /\ j.status = job.status
    BY <1>2, <1>4, Named, SetPartFields
<1>6. PICK s : s = IF j.status \in Terminal THEN j.status ELSE "blocked"
    OBVIOUS
<1>7. job' = [j EXCEPT !.status = s, !.reconcile = FALSE, !.owned = FALSE]
    BY <1>1, <1>4, <1>6 DEF Manual
<1>8. s \in Terminal \cup {"blocked"} /\ s \in Active \cup Terminal
    BY <1>6 DEF Active
<1>9. /\ job' \in Jobs /\ job'.part = j.part /\ job'.op = j.op /\ job'.lead = j.lead
      /\ job'.plan = j.plan /\ (job'.confirmed <=> j.confirmed) /\ job'.intent = j.intent
      /\ job'.status = s /\ ~job'.owned
    BY <1>5, <1>7, <1>8 DEF Jobs
<1>10. job.intent = "none"
    <2> SUFFICES ASSUME job.intent # "none" PROVE FALSE
        OBVIOUS
    <2>1. job.status = "reconciling"
        BY DEF Inv, JobTells
    <2>2. job'.status = "reconciling"
        BY <2>1 DEF Illegal
    <2> QED
        BY <1>8, <1>9, <2>2 DEF Terminal
<1>11. wk' \in Workers /\ wk'.pc = wk.pc
    BY Typed DEF Workers
<1>12. TypeOK'
    BY <1>9, <1>11, Typed, TypesNext
<1>13. Ledger' /\ \A q : First(q)' <=> First(q)
    <2>1. "manual_required" \in States \ {"created"}
          /\ "manual_required" \in Unsure \cup {"planned"} /\ "manual_required" \in Unsure
        BY DEF States, Unsure, Doubt
    <2>2. job.part[p] # "created" /\ job.part[p] # "planned"
        BY <1>3 DEF Doubt
    <2>3. First(p)' <=> First(p)
        BY <1>5, <1>9, <2>2 DEF First
    <2>4. Unsent(p)' => Unsent(p)
        BY <1>5, <1>9, <1>11, <2>3 DEF Unsent
    <2> QED
        BY <1>2, <1>5, <1>9, <1>11, <2>1, <2>2, <2>4, PartSet
<1>14. JobTells'
    BY <1>5, <1>8, <1>9, <1>10, KindKept DEF JobTells, Terminal
<1>15. WorkerTells'
    <2>1. wk.pc \notin Before
        BY <1>2 DEF Inv, ScanTells
    <2>2. \A q \in Parts : job'.part[q] = "planned" => job.part[q] = "planned"
        BY <1>5, <1>9
    <2>3. "manual_required" \in Unsure
        BY DEF Unsure
    <2> QED
        BY <1>5, <1>9, <1>11, <1>13, <2>1, <2>2, <2>3, KindKept
            DEF Inv, WorkerTells, Before, Writing
<1> QED
    BY <1>12, <1>13, <1>14, <1>15, InvNext

\* The scan settles a part, or leaves a job it may not touch alone.
LEMMA SettlesKeeps == ASSUME Inv, Settles PROVE Inv'
<1>1. scan' \in Scans /\ ScanTells'
    BY ScanToFields DEF Settles
<1>2. CASE UNCHANGED <<job, wk>>
    BY <1>1, <1>2, ScanMoves, Typed DEF Settles
<1>3. CASE /\ StillInDoubt /\ scan.visible /\ ~Illegal(Found(scan.part))
           /\ job' = Found(scan.part) /\ wk' = Off
    BY <1>1, <1>3, FoundKeeps DEF Settles
<1>4. CASE /\ StillInDoubt /\ ~Illegal(Manual(scan.part))
           /\ job' = Manual(scan.part) /\ wk' = [wk EXCEPT !.clean = FALSE]
    BY <1>1, <1>4, ManualKeeps DEF Settles
<1> QED
    BY <1>2, <1>3, <1>4 DEF Settles

-----------------------------------------------------------------------------

\* The invariant holds before anything was drafted.
LEMMA InitHolds == ASSUME Init PROVE Inv
<1>1. P \in Nat /\ P > 1 /\ 0 \in 0..P /\ 0 \in Plans /\ 0 \in 0..MaxPlans
    BY CompositeConstants DEF Plans
<1>2. TypeOK
    <2>1. job \in Jobs
        BY <1>1 DEF Init, Jobs, Active, Ops, States
    <2>2. remote \in Remotes /\ yeses \in Yeses
        BY <1>1 DEF Init, Remotes, Yeses
    <2>3. spent \in Spendings /\ scan \in Scans
        BY <1>1, CompositeConstants DEF Init, Spendings, Scans
    <2>4. wk \in Workers
        BY OffTyped DEF Init
    <2> QED
        BY <2>1, <2>2, <2>3, <2>4, Types DEF Init
<1>3. /\ job.op = "none" /\ job.plan = 0 /\ job.lead = 0 /\ ~job.confirmed /\ job.status = "queued"
      /\ \A p \in Parts : job.part[p] = "planned" /\ remote.writes[p] = 0
      /\ job.intent = "none" /\ remote.inflight = 0 /\ remote.holds = 0 /\ wk.pc = "off"
      /\ yeses.count = 0 /\ scan.pc = "idle"
    BY DEF Init, Off
<1>4. \A p \in Parts : PartTells(p)
    BY <1>3, PartsAre DEF PartTells
<1>5. \A p, q \in Parts : OrderTells(p, q)
    BY <1>3, PartsAre DEF OrderTells
<1>6. CountTells
    <2>1. remote.writes[1] = 0
        BY <1>3, PartsAre
    <2> QED
        BY <1>1, <1>3, <2>1 DEF CountTells
<1>7. JobTells /\ WorkerTells /\ ScanTells
    BY <1>3, PartsAre DEF JobTells, WorkerTells, ScanTells, Busy, Before, Writing
<1> QED
    BY <1>2, <1>4, <1>5, <1>6, <1>7 DEF Inv

\* Every step keeps the invariant.
LEMMA StepKeeps == ASSUME Inv, [Next]_vars PROVE Inv'
<1>1. CASE UNCHANGED vars
    BY <1>1, Gone, Typed DEF vars
<1>2. CASE Worker
    <2>1. CASE Begin \/ Leaves \/ WorkerRelease \/ TicketMissing \/ DraftFails
        BY <2>1, BeginKeeps, LeavesKeeps, WorkerReleaseKeeps, TicketMissingKeeps,
           DraftFailsKeeps
    <2>2. CASE ResolveSplitTicket \/ ResolveMergeTickets
        BY <2>2, ResolvesKeeps DEF ResolveSplitTicket, ResolveMergeTickets
    <2>3. CASE PlanGitHubSplit \/ PlanLinearSplit
        BY <2>3, PlansSplitKeeps DEF PlanGitHubSplit, PlanLinearSplit, Splits
    <2>4. CASE PlanGitHubMerge \/ PlanLinearMerge
        BY <2>4, PlansMergeKeeps DEF PlanGitHubMerge, PlanLinearMerge, Merges
    <2>5. CASE AskConfirmation \/ MarkRunning \/ Ends
        BY <2>5, AskConfirmationKeeps, MarkRunningKeeps, EndsKeeps
    <2>6. CASE \/ GitHubSplitChild \/ GitHubSplitParent \/ LinearSplitChild \/ LinearSplitParent
        BY <2>6, WritesKeeps DEF GitHubSplitChild, GitHubSplitParent, LinearSplitChild,
            LinearSplitParent
    <2>7. CASE \/ GitHubMergeSurvivor \/ GitHubMergeClosing \/ LinearMergeSurvivor
               \/ LinearMergeClosing
        BY <2>7, WritesKeeps DEF GitHubMergeSurvivor, GitHubMergeClosing, LinearMergeSurvivor,
            LinearMergeClosing
    <2>8. CASE CannotStart \/ PromptFails \/ Hears \/ LosesAnswer
        BY <2>8, CannotStartKeeps, PromptFailsKeeps, HearsKeeps, LosesAnswerKeeps
    <2> QED
        BY <1>2, <2>1, <2>2, <2>3, <2>4, <2>5, <2>6, <2>7, <2>8 DEF Worker
<1>3. CASE Scan
    BY <1>3, ScanStartKeeps, LooksKeeps, SettlesKeeps, RecoverKeeps
        DEF Scan, ReconcileSplit, ReconcileMerge
<1>4. CASE User
    BY <1>4, ConfirmsKeeps, RejectsKeeps, CancelStageKeeps
        DEF User, AnswerGitHubSplit, AnswerLinearSplit, AnswerGitHubMerge, AnswerLinearMerge
<1>5. CASE Canceller \/ Provider
    BY <1>5, CancelStopKeeps, CancelReleaseKeeps, ApplyKeeps, RefuseKeeps
        DEF Canceller, Provider
<1>6. CASE OutsideEdit \/ WorkerCrash \/ CancellerCrash
    BY <1>6, OutsideEditKeeps, WorkerCrashKeeps, CancellerCrashKeeps
<1> QED
    BY <1>1, <1>2, <1>3, <1>4, <1>5, <1>6 DEF Next

-----------------------------------------------------------------------------

\* The inductive invariant: the ledger of the parts, the confirmations and the provider, and
\* where the worker, the scan and the job stand in it, for any number of parts and drafts.
THEOREM CompositeInvariant == Spec => []Inv
    BY InitHolds, StepKeeps, PTL DEF Spec

\* Every variable keeps its type, whatever the worker, the scan and the canceller interleave.
THEOREM TypeCorrect == Spec => []TypeOK
<1>1. Inv => TypeOK
    BY DEF Inv
<1> QED
    BY <1>1, CompositeInvariant, PTL

\* No part is written twice and the parts keep their order, for any number of parts: a worker
\* or a scan that takes a split or a merge up again never repeats or skips one.
THEOREM PartsWrittenOnce == Spec => []PartsOnceInOrder
<1>1. ASSUME Inv PROVE PartsOnceInOrder
    <2>1. ASSUME NEW p \in Parts
          PROVE  remote.writes[p] + (IF remote.inflight = p THEN 1 ELSE 0)
                   <= IF Merge /\ p = 1 THEN yeses.count ELSE 1
        <3>1. CASE ~Survivor(p)
            BY <1>1, <3>1 DEF Inv, PartTells, Survivor
        <3>2. CASE Survivor(p)
            <4>1. p = 1 /\ Merge /\ remote.writes[1] \in Nat /\ yeses.count \in Nat
                BY <1>1, <3>2, Numbers DEF Survivor
            <4>2. remote.writes[1] + (IF remote.inflight = 1 THEN 1 ELSE 0)
                    + (IF job.confirmed /\ Unsent(1) THEN 1 ELSE 0) <= yeses.count
                BY <1>1, <4>1 DEF Inv, CountTells
            <4> QED
                BY <4>1, <4>2
        <3> QED
            BY <3>1, <3>2
    <2> QED
        BY <1>1, <2>1 DEF PartsOnceInOrder, Inv, OrderTells
<1> QED
    BY <1>1, CompositeInvariant, PTL

\* A part recorded as created was written, and an operation reported as created leaves no part
\* open that is not the user's: what the job tells is true of the provider.
THEOREM TruthfulParts == Spec => []ReportedTruthfully
<1>1. Inv => ReportedTruthfully
    BY DEF Inv, PartTells, JobTells, ReportedTruthfully
<1> QED
    BY <1>1, CompositeInvariant, PTL

\* Only the plan the user said yes to last leaves for the provider: a draft made again after
\* the tickets changed waits for an answer of its own.
THEOREM SendsWhatWasConfirmed == Spec => WrittenAsConfirmed
<1>1. ASSUME Inv, [Next]_vars
      PROVE  [remote'.inflight # 0 /\ remote.inflight = 0 => remote'.sent = yeses.plan]_vars
    <2> SUFFICES ASSUME Next, remote'.inflight # 0, remote.inflight = 0
                 PROVE  remote'.sent = yeses.plan
        BY <1>1 DEF vars
    <2>1. ASSUME NEW k, NEW lead, Writes(k, lead) PROVE remote'.sent = yeses.plan
        <3>1. PICK p : p = Cur
            OBVIOUS
        <3>2. First(p) /\ p \in Parts
            BY <2>1, <3>1, CurIsFirst DEF Writes, First
        <3>3. CASE Sends(p) /\ wk.pc \in {"marked", "fenced"} /\ (wk.pc = "marked" => ~Linear)
            BY <1>1, <3>2, <3>3, SendsKeeps
        <3>4. CASE UNCHANGED remote
            BY <3>4
        <3>5. CASE Observes(p) \/ ConcludesGitHub(p) \/ ConcludesLinear(p)
            BY <3>4, <3>5 DEF Observes, ConcludesGitHub, ConcludesLinear, PartDone, Finishes,
                QueuesAmbiguous, QueuesRetry
        <3>6. CASE MarksPart(p)
            BY <3>4, <3>6 DEF MarksPart
        <3>7. CASE Linear /\ Prompts(p)
            BY <3>3, <3>4, <3>7 DEF Prompts, At
        <3>8. CASE ~Linear /\ At("marked") /\ Sends(p)
            BY <3>3, <3>8 DEF At
        <3> QED
            BY <2>1, <3>1, <3>5, <3>6, <3>7, <3>8 DEF Writes
    <2>2. remote \in Remotes
        BY <1>1, Typed
    <2>3. CASE UNCHANGED remote
        BY <2>3
    <2>4. ASSUME NEW j, Drafts(j) PROVE FALSE
        <3>1. remote' = remote \/ remote' = [remote EXCEPT !.drift = FALSE]
            BY <2>4 DEF Drafts
        <3> QED
            BY <2>2, <3>1 DEF Remotes
    <2>5. CASE PlanGitHubSplit \/ PlanLinearSplit
        BY <2>3, <2>4, <2>5 DEF PlanGitHubSplit, PlanLinearSplit, PlansSplit, Resumes
    <2>6. CASE PlanGitHubMerge \/ PlanLinearMerge
        BY <2>3, <2>4, <2>6 DEF PlanGitHubMerge, PlanLinearMerge, PlansMerge, Resumes
    <2>7. CASE \/ Begin \/ Leaves \/ WorkerRelease \/ ResolveSplitTicket \/ ResolveMergeTickets
               \/ TicketMissing \/ DraftFails \/ AskConfirmation \/ MarkRunning \/ Ends
               \/ CannotStart \/ PromptFails \/ Hears \/ LosesAnswer
        BY <2>3, <2>7 DEF Begin, Leaves, WorkerRelease, ResolveSplitTicket, ResolveMergeTickets,
            Resolves, TicketMissing, DraftFails, AskConfirmation, MarkRunning, Ends, Finishes,
            CannotStart, PromptFails, Hears, LosesAnswer
    <2>8. CASE Scan \/ User \/ Canceller \/ WorkerCrash \/ CancellerCrash
        BY <2>3, <2>8 DEF Scan, ScanStart, ReconcileSplit, ReconcileMerge, Looks, Settles,
            Recover, User, AnswerGitHubSplit, AnswerLinearSplit, AnswerGitHubMerge,
            AnswerLinearMerge, Confirms, Rejects, CancelStage, Canceller, CancelStop,
            CancelRelease, WorkerCrash, CancellerCrash
    <2>9. CASE Provider \/ OutsideEdit
        <3>1. remote'.inflight = 0 \/ remote'.inflight = remote.inflight
            BY <2>2, <2>9 DEF Provider, Apply, Refuse, OutsideEdit, Remotes
        <3> QED
            BY <3>1
    <2> QED
        BY <2>1, <2>5, <2>6, <2>7, <2>8, <2>9 DEF Next, Worker, GitHubSplitChild,
            GitHubSplitParent, LinearSplitChild, LinearSplitParent, GitHubMergeSurvivor,
            GitHubMergeClosing, LinearMergeSurvivor, LinearMergeClosing
<1> QED
    BY <1>1, CompositeInvariant, PTL DEF Spec, WrittenAsConfirmed
=============================================================================
