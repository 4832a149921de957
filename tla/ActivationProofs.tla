-------------------------- MODULE ActivationProofs --------------------------
(***************************************************************************)
(* Activation for any number of services, edits, errors and crashes.       *)
(***************************************************************************)
EXTENDS Activation, WellFoundedInduction, TLAPS

Early == {"none", "offered", "accepted", "ready", "validating", "declined"}
NotRolledBack == Early \cup {"restarting", "succeeded"}
Forward == {"check", "stale", "validate", "call", "recheck", "rechecked", "begin", "loop",
            "restart", "observe", "final"}
Looping == {"loop", "restart", "observe", "final"}
Rolling == {"rb", "rbread", "rbwrite", "rbload", "rbproof", "rbloop", "rbrestart", "rbobserve", "rbend"}
Restored == {"rbloop", "rbrestart", "rbobserve", "rbend"}

\* A start that is still to come.
Owed(s) == IF svc[s].starting THEN 1 ELSE 0

\* A start answers a command or a death, and a command is given at most once each way; an
\* attempt is in the journal before the command is given.
Counted(s) ==
    /\ svc[s].gen + Owed(s) <= 1 + tries[s].go + tries[s].back + tries[s].died
    /\ tries[s].go <= 1 /\ tries[s].back <= 1
    /\ tries[s].go = 1 => rec.out[s].tried
    /\ tries[s].back = 1 => rec.roll[s].tried
    /\ rec.out[s].before <= svc[s].gen
    /\ rec.status \in Early => tries[s].go = 0
    /\ rec.status \in NotRolledBack \/ wk.pc \in Forward => tries[s].back = 0

\* A success in the journal names a process that came up with the new value, and as long as
\* nobody kills the service or takes the change back it still runs.
Renewed(o, s) ==
    /\ o.before > 0 /\ o.after > o.before /\ o.after <= svc[s].gen
    /\ svc[s].gen = o.after => svc[s].conf.val = "new"
    /\ tries[s].back = 0 /\ tries[s].died = 0 =>
         svc[s].gen = o.after /\ svc[s].up /\ ~svc[s].starting

\* An outcome in the journal stays true of its service.
OutcomeTrue(s) ==
    /\ rec.out[s].st = "succeeded" => Renewed(rec.out[s], s)
    /\ rec.roll[s].st = "succeeded" =>
         rec.restored /\ (svc[s].up => svc[s].conf.val # "new")

\* Where the worker stands agrees with the journal, whatever the daemon wrote meanwhile.
WorkerTells ==
    /\ wk.pc \in {"restart", "observe", "rbrestart", "rbobserve"} => wk.cur \in Services
    /\ wk.pc = "restart" => tries[wk.cur].go = 0 /\ rec.out[wk.cur].tried
    /\ wk.pc = "rbrestart" => tries[wk.cur].back = 0 /\ rec.roll[wk.cur].tried
    /\ wk.pc = "check" => rec.status \in {"ready", "restarting", "rolling_back", "failed"}
    /\ wk.pc \in Looping => rec.status \in {"restarting", "rolling_back", "failed"}
    /\ wk.pc \in Rolling => rec.status \in {"rolling_back", "failed"}
    /\ wk.pc \in Restored => rec.restored
    /\ wk.pc \in Forward => ~rec.restored /\ rec.status # "none"

\* The new value is written once, and what was taken back does not return; nothing is set
\* under the lock of another.
JournalTells ==
    /\ dm.pc \in {"commit", "offer"} => rec.status = "none"
    /\ dm.pc = "commit" => dm.read.val = "old" /\ conf.val # "set"
    /\ wk.pc = "rbwrite" => wk.seen.val = "new" /\ conf.val # "set"
    /\ rec.status # "none" => rec.expected.val = "new"
    /\ rec.restored => /\ rec.status \in {"rolling_back", "failed"}
                       /\ rec.back.val = "old" /\ conf.val # "new"
    /\ wk.pc \in {"rbread", "rbproof"} /\ wk.seen.val = "old" => conf.val # "new"
    /\ rec.status = "succeeded" => \A s \in Services : rec.out[s].st = "succeeded"
    /\ rec.proof = "restored" => /\ rec.status = "failed" /\ rec.restored
                                 /\ \A s \in Services : rec.roll[s].st = "succeeded"


\* The first of the services still to be restarted is one of them.
LEMMA MinIn == ASSUME NEW T, T \subseteq Services, T # {} PROVE Min(T) \in T
<1>1. T \subseteq Nat
    BY ActivationConstants DEF Services
<1>2. PICK x \in T : \A y \in T : ~(<<y, x>> \in OpToRel(<, Nat))
    BY <1>1, NatLessThanWellFounded, WFMin
<1>3. \A y \in T : x =< y
    <2> SUFFICES ASSUME NEW y \in T, y < x PROVE FALSE
        BY <1>1
    <2>1. <<y, x>> \in Nat \X Nat /\ <<y, x>>[1] = y /\ <<y, x>>[2] = x
        BY <1>1
    <2>2. <<y, x>> \in OpToRel(<, Nat)
        BY <2>1 DEF OpToRel
    <2> QED
        BY <1>2, <2>2
<1> QED
    BY <1>3 DEF Min

Recs == [status : Statuses, delivered : BOOLEAN, expected : Confs,
         out : [Services -> Outcomes], asked : BOOLEAN, validated : BOOLEAN,
         restored : BOOLEAN, back : Confs, roll : [Services -> Outcomes],
         proof : {"none", "restored", "partly"}, ack : BOOLEAN]
Daemons == [held : 0..MaxEdits, pc : {"idle", "commit", "offer"}, read : Confs, attempts : 0..2,
            launched : {"none", "ours", "refused"}, told : {"none"} \cup Final]
Workers == [pc : {"off", "start"} \cup Forward \cup Rolling, seen : Confs, cur : 0..S]
Svcs == [gen : Nat, up : BOOLEAN, conf : Confs, starting : BOOLEAN]
Triess == [go : 0..2, back : 0..2, died : Nat]
Spendings == [edits : 0..MaxEdits, errors : 0..MaxErrors, crashes : 0..MaxCrashes]

\* The type invariant but for the number of starts, by the names of its sets.
Typed == /\ setting \in Settings /\ conf \in Confs /\ rec \in Recs /\ dm \in Daemons
         /\ wk \in Workers /\ svc \in [Services -> Svcs] /\ tries \in [Services -> Triess]
         /\ spent \in Spendings

Inv == /\ Typed /\ JournalTells /\ WorkerTells
       /\ \A s \in Services : Counted(s) /\ OutcomeTrue(s)

\* A step that stays within the bounds.
Spends == spent' \in Spendings

\* The journal of the restarts and that of the rollback stay as they are.
SameOutcomes == rec'.out = rec.out /\ rec'.roll = rec.roll
SameRollback == (rec'.restored <=> rec.restored) /\ rec'.back = rec.back

USE DEF Voice, Services

\* The values the program starts with.
LEMMA StartTyped ==
    /\ Start \in Confs /\ Start.val = "old" /\ Start.rest = 0
    /\ Off \in Workers /\ Off.pc = "off"
    /\ Fresh \in Outcomes /\ Fresh.st = "pending" /\ ~Fresh.tried /\ Fresh.before = 0
<1>1. Start \in Confs /\ Start.val = "old" /\ Start.rest = 0
    BY ActivationConstants DEF Start, Confs, Foreign
<1>2. Off \in Workers /\ Off.pc = "off"
    BY <1>1, ActivationConstants DEF Off, Workers
<1>3. Fresh \in Outcomes /\ Fresh.st = "pending" /\ ~Fresh.tried /\ Fresh.before = 0
    BY DEF Fresh, Outcomes
<1> QED
    BY <1>1, <1>2, <1>3

\* A step that uses up none of the bounds.
LEMMA NothingSpent == ASSUME Inv, UNCHANGED spent PROVE Spends
    BY DEF Spends, Inv, Typed

\* A launch, a command or a start that fails.
LEMMA ErrsSpends == ASSUME Inv, Errs PROVE Spends
<1>1. spent \in Spendings /\ spent.errors + 1 \in 0..MaxErrors
    BY ActivationConstants DEF Inv, Errs, Spendings, Typed
<1> QED
    BY <1>1 DEF Spends, Errs, Spendings

\* A process that dies.
LEMMA CrashSpends == ASSUME Inv, Crashes PROVE Spends
<1>1. spent \in Spendings /\ spent.crashes + 1 \in 0..MaxCrashes
    BY ActivationConstants DEF Inv, Crashes, Spendings, Typed
<1> QED
    BY <1>1 DEF Spends, Crashes, Spendings

\* A daemon that starts holds the file as it is.
LEMMA NewDaemonTyped ==
    ASSUME NEW c \in Confs PROVE NewDaemon(c) \in Daemons /\ NewDaemon(c).pc = "idle"
<1>1. c.rest \in 0..MaxEdits
    BY DEF Confs
<1> QED
    BY <1>1, StartTyped DEF NewDaemon, Daemons

\* The daemon goes on without writing the file or the journal.
LEMMA DaemonMoves ==
    ASSUME Inv, UNCHANGED <<setting, conf, rec, wk, svc, tries>>, Spends, dm' \in Daemons,
           dm'.pc = "idle" \/ (dm'.pc = dm.pc /\ dm'.read = dm.read)
    PROVE  Inv'
<1>1. Typed'
    BY DEF Inv, Spends, Typed
<1>2. JournalTells' /\ WorkerTells'
    BY DEF Inv, JournalTells, WorkerTells, Spends
<1>3. ASSUME NEW s \in Services PROVE Counted(s)' /\ OutcomeTrue(s)'
    BY DEF Inv, Counted, Owed, OutcomeTrue, Renewed
<1> QED
    BY <1>1, <1>2, <1>3 DEF Inv

\* The worker goes on without writing the file or the journal.
LEMMA WorkerMoves ==
    ASSUME Inv, UNCHANGED <<setting, conf, rec, svc, tries>>, Spends, wk' \in Workers,
           dm' \in Daemons, dm'.pc = dm.pc, dm'.read = dm.read, WorkerTells', wk'.pc # "rbwrite",
           wk'.pc \in {"rbread", "rbproof"} /\ wk'.seen.val = "old" => conf.val # "new",
           wk'.pc \in Forward => \/ wk.pc \in Forward
                                 \/ rec.status \in NotRolledBack
    PROVE  Inv'
<1>1. Typed'
    BY DEF Inv, Spends, Typed
<1>2. JournalTells'
    BY DEF Inv, JournalTells, Spends
<1>3. ASSUME NEW s \in Services PROVE Counted(s)' /\ OutcomeTrue(s)'
    BY DEF Inv, Counted, Owed, OutcomeTrue, Renewed
<1> QED
    BY <1>1, <1>2, <1>3 DEF Inv

\* A worker that ends leaves the journal as it is.
LEMMA WorkerGone ==
    ASSUME Inv, wk' = Off, UNCHANGED <<setting, conf, rec, dm, svc, tries>>, Spends
    PROVE  Inv'
<1>1. wk' \in Workers /\ wk'.pc = "off" /\ dm \in Daemons
    BY StartTyped DEF Inv, Typed
<1>2. WorkerTells'
    BY <1>1 DEF WorkerTells, Looping, Rolling, Restored, Forward
<1> QED
    BY <1>1, <1>2, WorkerMoves DEF Forward

\* The status of the journal changes and nothing else of it that the invariant reads.
LEMMA StatusMoves ==
    ASSUME Inv, UNCHANGED <<setting, conf, wk, svc, tries>>, Spends, dm' \in Daemons,
           dm'.pc = "idle", rec' \in Recs, SameOutcomes, SameRollback,
           rec'.expected = rec.expected, rec'.proof = rec.proof, rec.status # "none",
           rec'.status # "none",
           rec'.status \in Early => rec.status \in Early,
           rec'.status \in NotRolledBack => rec.status \in NotRolledBack,
           rec.status = rec'.status \/ rec.status \notin Final,
           \/ rec'.status \in {"failed", rec.status}
           \/ rec.status \in {"offered", "accepted"} /\ rec'.status # "succeeded"
    PROVE  Inv'
<1>1. Typed'
    BY DEF Inv, Spends, Typed
<1>2. JournalTells'
    BY DEF Inv, JournalTells, SameOutcomes, SameRollback, Spends, Final
<1>3. WorkerTells'
    BY DEF Inv, WorkerTells, SameOutcomes, SameRollback, Looping, Rolling
<1>4. ASSUME NEW s \in Services PROVE Counted(s)' /\ OutcomeTrue(s)'
    BY DEF Inv, Counted, Owed, OutcomeTrue, Renewed, SameOutcomes, SameRollback
<1> QED
    BY <1>1, <1>2, <1>3, <1>4 DEF Inv

\* The rollback begins with a journal of its own, before any service was told to go back.
LEMMA BeginsRollbackKeeps ==
    ASSUME Inv, rec' = BeginsRollback, rec.status \in {"ready", "validating", "restarting"},
           UNCHANGED <<setting, conf, svc, tries>>, Spends, dm' \in Daemons, dm'.pc = "idle",
           wk' \in Workers, wk' = wk \/ wk'.pc = "rb"
    PROVE  Inv'
<1>1. rec \in Recs
    BY DEF Inv, Typed
<1>2. rec' \in Recs
    <2>1. [s \in Services |-> Fresh] \in [Services -> Outcomes]
        BY StartTyped
    <2> QED
        BY <1>1, <2>1 DEF BeginsRollback, Recs, Statuses, Executable
<1>3. /\ rec'.status = "rolling_back" /\ rec'.out = rec.out /\ SameRollback
      /\ rec'.expected = rec.expected /\ rec'.proof = rec.proof
      /\ rec'.roll = [s \in Services |-> Fresh]
    BY <1>1 DEF BeginsRollback, Recs, SameRollback
<1>4. Typed'
    BY <1>2 DEF Inv, Spends, Typed
<1>5. JournalTells'
    BY <1>3 DEF Inv, JournalTells, SameRollback, Spends
<1>6. WorkerTells'
    BY <1>3 DEF Inv, WorkerTells, SameRollback, Looping, Rolling, Restored, Forward
<1>7. ASSUME NEW s \in Services PROVE Counted(s)' /\ OutcomeTrue(s)'
    <2>1. rec'.roll[s].st = "pending" /\ tries[s].back = 0
        BY <1>3, StartTyped DEF Inv, Counted, Owed, NotRolledBack, Early
    <2> QED
        BY <1>3, <2>1 DEF Inv, Counted, Owed, OutcomeTrue, Renewed, Early, NotRolledBack
<1> QED
    BY <1>4, <1>5, <1>6, <1>7 DEF Inv

-----------------------------------------------------------------------------

\* The change is written once, before there is an activation, over the value that was shown.
LEMMA CommitKeeps == ASSUME Inv, Commit PROVE Inv'
<1>1. /\ rec.status = "none" /\ UNCHANGED <<setting, rec, wk, svc, tries, spent>>
      /\ conf \in Confs /\ dm \in Daemons /\ wk \in Workers
    BY DEF Commit, Inv, JournalTells, Typed
<1>2. wk.pc \notin Rolling /\ wk.pc \notin {"rbread", "rbproof", "rbwrite"} /\ ~rec.restored
    BY <1>1 DEF Inv, WorkerTells, JournalTells, Rolling
<1>3. /\ conf' \in Confs /\ dm' \in Daemons /\ dm'.pc \in {"commit", "offer"}
      /\ dm'.pc = "commit" => dm'.read.val = "old" /\ conf'.val # "set"
    <2>1. CASE /\ conf.val = "old" /\ dm' = [dm EXCEPT !.pc = "commit", !.read = conf]
               /\ UNCHANGED conf
        BY <1>1, <2>1 DEF Daemons
    <2>2. CASE conf' = [dm.read EXCEPT !.val = "new"] /\ dm' = [dm EXCEPT !.pc = "offer", !.read = Start]
        <3>1. dm.read \in Confs
            BY <1>1 DEF Daemons
        <3>2. conf' \in Confs
            BY <2>2, <3>1 DEF Confs
        <3> QED
            BY <1>1, <2>2, <3>2, StartTyped DEF Daemons
    <2> QED
        BY <2>1, <2>2 DEF Commit
<1>4. Typed'
    BY <1>1, <1>3 DEF Inv, Typed
<1>5. JournalTells'
    BY <1>1, <1>2, <1>3 DEF Inv, JournalTells
<1>6. WorkerTells'
    BY <1>1 DEF Inv, WorkerTells
<1>7. ASSUME NEW s \in Services PROVE Counted(s)' /\ OutcomeTrue(s)'
    BY <1>1 DEF Inv, Counted, Owed, OutcomeTrue, Renewed
<1> QED
    BY <1>4, <1>5, <1>6, <1>7 DEF Inv

\* The offer expects the configuration with the change applied.
LEMMA CreateOfferKeeps == ASSUME Inv, CreateOffer PROVE Inv'
<1> DEFINE e == [val |-> "new", rest |-> dm.held]
<1>1. /\ dm.pc = "offer" /\ rec' = [rec EXCEPT !.status = "offered", !.expected = e]
      /\ dm' = [dm EXCEPT !.pc = "idle"] /\ UNCHANGED <<setting, conf, wk, svc, tries, spent>>
    BY DEF CreateOffer
<1>2. rec \in Recs /\ dm \in Daemons
    BY DEF Inv, Typed
<1>3. e \in Confs /\ e.val = "new"
    BY <1>2 DEF Confs, Daemons
<1> HIDE DEF e
<1>4. rec' \in Recs
    BY <1>1, <1>2, <1>3 DEF Recs, Statuses
<1>5. /\ rec'.status = "offered" /\ rec'.expected = e /\ SameOutcomes /\ SameRollback
      /\ rec'.proof = rec.proof
    BY <1>1, <1>2 DEF Recs, SameOutcomes, SameRollback
<1>6. dm' \in Daemons /\ dm'.pc = "idle"
    BY <1>1, <1>2 DEF Daemons
<1>7. Typed'
    BY <1>1, <1>4, <1>6 DEF Inv, Typed
<1>8. rec.status = "none" /\ ~rec.restored
    BY <1>1 DEF Inv, JournalTells
<1>9. JournalTells'
    BY <1>1, <1>3, <1>5, <1>6, <1>8 DEF Inv, JournalTells, SameOutcomes, SameRollback
<1>10. WorkerTells'
    BY <1>1, <1>5, <1>8 DEF Inv, WorkerTells, SameOutcomes, SameRollback
<1>11. ASSUME NEW s \in Services PROVE Counted(s)' /\ OutcomeTrue(s)'
    BY <1>1, <1>5, <1>8 DEF Inv, Counted, Owed, OutcomeTrue, Renewed, SameOutcomes, SameRollback, Early, NotRolledBack
<1> QED
    BY <1>7, <1>9, <1>10, <1>11 DEF Inv

\* A new status in the journal, everything else as it was.
LEMMA StatusFields ==
    ASSUME Inv, NEW t \in Statuses, rec' = [rec EXCEPT !.status = t]
    PROVE  /\ rec' \in Recs /\ rec'.status = t /\ SameOutcomes /\ SameRollback
           /\ rec'.expected = rec.expected /\ rec'.proof = rec.proof
<1>1. rec \in Recs
    BY DEF Inv, Typed
<1>2. rec' \in Recs
    BY <1>1 DEF Recs
<1> QED
    BY <1>1, <1>2 DEF Recs, SameOutcomes, SameRollback

\* The user is asked and answers.
LEMMA OfferKeeps ==
    ASSUME Inv, DeliverOffer \/ DeliverPreRestart \/ Accept \/ Decline
    PROVE  Inv'
<1>1. dm \in Daemons /\ rec \in Recs
    BY DEF Inv, Typed
<1>2. UNCHANGED <<setting, conf, dm, wk, svc, tries, spent>> /\ rec.status \in {"offered", "accepted"}
    BY DEF DeliverOffer, DeliverPreRestart, Accept, Decline, Journal
<1>3. dm.pc = "idle"
    BY <1>1, <1>2 DEF Inv, JournalTells, Daemons
<1>4. \/ rec' = [rec EXCEPT !.delivered = TRUE]
      \/ \E t \in {"ready", "accepted", "declined"} : rec' = [rec EXCEPT !.status = t]
    BY DEF DeliverOffer, DeliverPreRestart, Accept, Decline, Journal
<1>5. CASE rec' = [rec EXCEPT !.delivered = TRUE]
    <2>1. /\ rec' \in Recs /\ rec'.status = rec.status /\ SameOutcomes /\ SameRollback
          /\ rec'.expected = rec.expected /\ rec'.proof = rec.proof
        BY <1>1, <1>5 DEF Recs, SameOutcomes, SameRollback
    <2> QED
        BY <1>1, <1>2, <1>3, <2>1, StatusMoves, NothingSpent
<1>6. ASSUME NEW t \in {"ready", "accepted", "declined"}, rec' = [rec EXCEPT !.status = t] PROVE Inv'
    BY <1>1, <1>2, <1>3, <1>6, StatusFields, StatusMoves, NothingSpent
    DEF Statuses, Executable, Final, Early, NotRolledBack
<1> QED
    BY <1>4, <1>5, <1>6

\* The result is told and acknowledged.
LEMMA ResultKeeps == ASSUME Inv, TellResult \/ Acknowledge PROVE Inv'
<1>1. dm \in Daemons /\ rec \in Recs
    BY DEF Inv, Typed
<1>2. UNCHANGED <<setting, conf, wk, svc, tries, spent>>
    BY DEF TellResult, Acknowledge
<1>3. CASE UNCHANGED rec /\ \E x \in {"none", rec.status} : dm' = [dm EXCEPT !.told = x]
                         /\ x \in {"none"} \cup Final
    <2>1. dm' \in Daemons /\ dm'.pc = dm.pc
        BY <1>1, <1>3 DEF Daemons
    <2> QED
        BY <1>2, <1>3, <2>1, DaemonMoves, NothingSpent
<1>4. CASE rec.status \in Final /\ rec' = [rec EXCEPT !.ack = TRUE] /\ UNCHANGED dm
    <2>1. /\ rec' \in Recs /\ rec'.status = rec.status /\ SameOutcomes /\ SameRollback
          /\ rec'.expected = rec.expected /\ rec'.proof = rec.proof
        BY <1>1, <1>4 DEF Recs, SameOutcomes, SameRollback
    <2>2. dm.pc = "idle" /\ rec.status # "none"
        BY <1>1, <1>4 DEF Inv, JournalTells, Daemons, Final
    <2> QED
        BY <1>1, <1>2, <1>4, <2>1, <2>2, StatusMoves, NothingSpent
<1> QED
    BY <1>3, <1>4 DEF TellResult, Acknowledge

\* What the dispatch of a worker leaves in the daemon.
LEMMA DispatchFields ==
    ASSUME Inv, NEW a \in 0..2, NEW l \in {"none", "ours", "refused"},
           dm' = [dm EXCEPT !.attempts = a, !.launched = l]
    PROVE  dm' \in Daemons /\ dm'.pc = dm.pc /\ dm'.read = dm.read
<1>1. dm \in Daemons
    BY DEF Inv, Typed
<1> QED
    BY <1>1 DEF Daemons

\* The launches are counted up to two.
LEMMA MoreAttemptsTyped == ASSUME Inv PROVE MoreAttempts \in 0..2
<1>1. dm.attempts \in 0..2
    BY DEF Inv, Daemons, Typed
<1> QED
    BY <1>1 DEF MoreAttempts

\* A worker is launched if none is there.
LEMMA DispatchKeeps == ASSUME Inv, Dispatch PROVE Inv'
<1>1. wk \in Workers /\ rec \in Recs
    BY DEF Inv, Typed
<1>2. dm' \in Daemons /\ dm'.pc = dm.pc /\ dm'.read = dm.read
    BY DispatchFields, MoreAttemptsTyped DEF Dispatch
<1>3. CASE wk.pc = "off"
    <2>1. wk' = [Off EXCEPT !.pc = "start"]
        BY <1>3 DEF Dispatch
    <2>2. wk' \in Workers /\ wk'.pc = "start"
        BY <2>1, StartTyped DEF Workers
    <2>3. WorkerTells'
        BY <2>2 DEF WorkerTells, Looping, Rolling, Restored, Forward
    <2> QED
        BY <1>2, <2>2, <2>3, WorkerMoves, NothingSpent DEF Dispatch, Forward
<1>4. CASE wk.pc # "off"
    BY <1>2, <1>4, DaemonMoves, NothingSpent DEF Dispatch
<1> QED
    BY <1>3, <1>4

\* The daemon gives the activation up, or hands a voice over to its rollback.
LEMMA GivesUpKeeps ==
    ASSUME Inv, UNCHANGED <<setting, conf, wk, svc, tries>>, Spends, dm' \in Daemons, dm'.pc = dm.pc,
           rec.status \in Executable,
           \/ rec' = [rec EXCEPT !.status = "failed"]
           \/ rec' = BeginsRollback /\ rec.status # "rolling_back"
           \/ rec' = rec
    PROVE  Inv'
<1>1. rec.status # "none" /\ rec.status \notin Final /\ wk \in Workers
    BY DEF Executable, Final, Inv, Typed
<1>2. dm'.pc = "idle"
    BY <1>1 DEF Inv, JournalTells, Daemons
<1>3. CASE rec' = [rec EXCEPT !.status = "failed"]
    <2>1. "failed" \in Statuses /\ "failed" \notin NotRolledBack /\ "failed" \notin Early
        BY DEF Statuses, Final, NotRolledBack, Early
    <2>2. /\ rec' \in Recs /\ rec'.status = "failed" /\ SameOutcomes /\ SameRollback
          /\ rec'.expected = rec.expected /\ rec'.proof = rec.proof
        BY <1>3, <2>1, StatusFields
    <2> QED
        BY <1>1, <1>2, <2>1, <2>2, StatusMoves
<1>4. CASE rec' = BeginsRollback /\ rec.status # "rolling_back"
    BY <1>1, <1>2, <1>4, BeginsRollbackKeeps DEF Executable
<1>5. CASE rec' = rec
    BY <1>2, <1>5, DaemonMoves
<1> QED
    BY <1>3, <1>4, <1>5

\* A launch that fails gives the activation up in the end.
LEMMA DispatchFailsKeeps == ASSUME Inv, DispatchFails PROVE Inv'
<1>1. dm.launched \in {"none", "ours", "refused"} /\ dm \in Daemons
    BY DEF Inv, Daemons, Typed
<1>2. dm' = [dm EXCEPT !.attempts = MoreAttempts]
    BY DEF DispatchFails
<1>3. dm' \in Daemons /\ dm'.pc = dm.pc
    BY <1>1, <1>2, MoreAttemptsTyped DEF Daemons
<1>4. Spends
    BY ErrsSpends DEF DispatchFails
<1>5. \/ rec' = [rec EXCEPT !.status = "failed"]
      \/ rec' = BeginsRollback /\ rec.status # "rolling_back"
      \/ rec' = rec
    BY DEF DispatchFails
<1> QED
    BY <1>3, <1>4, <1>5, GivesUpKeeps DEF DispatchFails

\* So does a second worker that ended without a result.
LEMMA PollWorkerKeeps == ASSUME Inv, PollWorker PROVE Inv'
<1>1. dm \in Daemons
    BY DEF Inv, Typed
<1>2. dm' \in Daemons /\ dm'.pc = dm.pc
    BY <1>1 DEF PollWorker, Daemons
<1>3. UNCHANGED <<setting, conf, wk, svc, tries, spent>>
    BY DEF PollWorker
<1>4. CASE rec.status \notin Executable
    BY <1>2, <1>3, <1>4, DaemonMoves, NothingSpent DEF PollWorker
<1>5. CASE rec.status \in Executable
    <2>1. \/ rec' = [rec EXCEPT !.status = "failed"]
          \/ rec' = BeginsRollback /\ rec.status # "rolling_back"
          \/ rec' = rec
        BY DEF PollWorker
    <2> QED
        BY <1>2, <1>3, <1>5, <2>1, GivesUpKeeps, NothingSpent
<1> QED
    BY <1>4, <1>5

\* The invariant survives every step of the daemon.
LEMMA DaemonKeeps == ASSUME Inv, Daemon PROVE Inv'
    BY CreateOfferKeeps, OfferKeeps, ResultKeeps, DispatchKeeps, DispatchFailsKeeps,
       PollWorkerKeeps DEF Daemon

-----------------------------------------------------------------------------

\* The place the worker goes to is all that changes, or the file it has read too.
LEMMA GoFields ==
    ASSUME Inv, NEW l \in {"off", "start"} \cup Forward \cup Rolling
    PROVE  /\ Go(l) \in Workers /\ Go(l).pc = l /\ Go(l).cur = wk.cur
           /\ Reads(l) \in Workers /\ Reads(l).pc = l /\ Reads(l).seen = conf
<1>1. wk \in Workers /\ conf \in Confs
    BY DEF Inv, Typed
<1> QED
    BY <1>1, StartTyped DEF Go, Reads, Workers

\* The worker turns to a service.
LEMMA CurFields ==
    ASSUME Inv, NEW l \in {"off", "start"} \cup Forward \cup Rolling, NEW s \in Services
    PROVE  /\ [Go(l) EXCEPT !.cur = s] \in Workers /\ [Go(l) EXCEPT !.cur = s].pc = l
           /\ [Go(l) EXCEPT !.cur = s].cur = s
<1>1. Go(l) \in Workers /\ Go(l).pc = l
    BY GoFields
<1>2. s \in 0..S
    BY ActivationConstants
<1> QED
    BY <1>1, <1>2 DEF Workers

\* A worker in the forward part goes to another place of it.
LEMMA ForwardKeeps ==
    ASSUME Inv, NEW l \in {"stale", "validate", "call", "recheck", "rechecked", "begin"},
           wk' \in {Go(l), Reads(l)}, rec' = rec, wk.pc \in Forward,
           UNCHANGED <<setting, conf, dm, svc, tries, spent>>
    PROVE  Inv'
<1>1. l \in Forward /\ l \notin Looping /\ l \notin Rolling /\ l \notin Restored
    BY DEF Forward, Looping, Rolling, Restored
<1>2. wk' \in Workers /\ wk'.pc = l /\ dm \in Daemons
    BY <1>1, GoFields DEF Inv, Typed
<1>3. WorkerTells'
    BY <1>1, <1>2 DEF Inv, WorkerTells
<1> QED
    BY <1>1, <1>2, <1>3, WorkerMoves, NothingSpent DEF Rolling

\* The worker's way into the rollback.
LEMMA RollsBackKeeps ==
    ASSUME Inv, RollsBack, UNCHANGED <<setting, conf, dm, svc, tries, spent>>
    PROVE  Inv'
<1>1. dm \in Daemons
    BY DEF Inv, Typed
<1>2. CASE rec.status \in {"ready", "validating", "restarting"}
    <2>1. rec' = BeginsRollback /\ wk' = Go("rb")
        BY <1>2 DEF RollsBack, Updates
    <2>2. wk' \in Workers /\ wk'.pc = "rb"
        BY <2>1, GoFields DEF Rolling
    <2>3. dm.pc = "idle"
        BY <1>1, <1>2 DEF Inv, JournalTells, Daemons
    <2> QED
        BY <1>1, <1>2, <2>1, <2>2, <2>3, BeginsRollbackKeeps, NothingSpent
<1>3. CASE rec.status \notin {"ready", "validating", "restarting"}
    BY <1>3, WorkerGone, NothingSpent DEF RollsBack, Updates
<1> QED
    BY <1>2, <1>3

\* The worker writes its result and is gone.
LEMMA FinishKeeps ==
    ASSUME Inv, NEW t \in {"failed", "partial", "succeeded"},
           NEW p \in {"none", "restored", "partly"}, Finish(t, p), wk.pc \in Forward \cup Rolling,
           UNCHANGED <<setting, conf, dm, svc, tries>>, Spends,
           t # "failed" => wk.pc \in Forward,
           t = "succeeded" => \A s \in Services : rec.out[s].st = "succeeded",
           p = "restored" => /\ t = "failed" /\ rec.restored
                             /\ \A s \in Services : rec.roll[s].st = "succeeded"
    PROVE  Inv'
<1>1. rec \in Recs /\ dm \in Daemons
    BY DEF Inv, Typed
<1>2. rec' = [rec EXCEPT !.status = t, !.proof = p] /\ wk' = Off
    BY DEF Finish
<1>3. wk' \in Workers /\ wk'.pc = "off"
    BY <1>2, StartTyped
<1>4. rec' \in Recs
    BY <1>1, <1>2 DEF Recs, Statuses, Final
<1>5. /\ rec'.status = t /\ rec'.proof = p /\ SameOutcomes /\ SameRollback
      /\ rec'.expected = rec.expected
    BY <1>1, <1>2 DEF Recs, SameOutcomes, SameRollback
<1>6. Typed'
    BY <1>3, <1>4 DEF Inv, Spends, Typed
<1>7. rec.status # "none" /\ (wk.pc \in Forward => ~rec.restored)
    BY DEF Inv, WorkerTells
<1>8. JournalTells'
    BY <1>3, <1>5, <1>7 DEF Inv, JournalTells, SameOutcomes, SameRollback, Spends
<1>9. WorkerTells'
    BY <1>3 DEF WorkerTells, Looping, Rolling, Restored, Forward
<1>10. ASSUME NEW s \in Services PROVE Counted(s)' /\ OutcomeTrue(s)'
    <2>1. "off" \notin Forward /\ t \notin Early /\ (t \in NotRolledBack => t = "succeeded")
        BY DEF Forward, Early, NotRolledBack
    <2> QED
        BY <1>3, <1>5, <2>1 DEF Inv, Counted, Owed, OutcomeTrue, Renewed, SameOutcomes, SameRollback
<1> QED
    BY <1>6, <1>8, <1>9, <1>10 DEF Inv

\* A worker takes up the activation where the journal has it.
LEMMA WorkerStartKeeps == ASSUME Inv, WorkerStart PROVE Inv'
<1>1. /\ wk.pc = "start" /\ UNCHANGED <<setting, conf, dm, svc, tries, spent>> /\ dm \in Daemons
    BY DEF WorkerStart, Steps, Inv, Typed
<1>2. CASE rec.status = "rolling_back"
    <2>1. rec' = rec /\ wk' = Go("rb")
        BY <1>2 DEF WorkerStart
    <2>2. wk' \in Workers /\ wk'.pc = "rb"
        BY <2>1, GoFields DEF Rolling
    <2>3. WorkerTells'
        BY <1>2, <2>1, <2>2 DEF WorkerTells, Looping, Restored, Forward
    <2> QED
        BY <1>1, <2>1, <2>2, <2>3, WorkerMoves, NothingSpent DEF Forward
<1>3. CASE rec.status = "validating"
    BY <1>1, <1>3, RollsBackKeeps DEF WorkerStart
<1>4. CASE rec.status \in {"ready", "restarting"}
    <2>1. rec' = rec /\ wk' = Reads("check")
        BY <1>4 DEF WorkerStart
    <2>2. wk' \in Workers /\ wk'.pc = "check"
        BY <2>1, GoFields DEF Forward
    <2>3. ~rec.restored /\ rec.status \in NotRolledBack
        BY <1>4 DEF Inv, JournalTells, NotRolledBack, Early
    <2>4. WorkerTells'
        BY <1>4, <2>1, <2>2, <2>3 DEF WorkerTells, Looping, Rolling, Restored
    <2> QED
        BY <1>1, <2>1, <2>2, <2>3, <2>4, WorkerMoves, NothingSpent
<1>5. CASE rec.status \notin {"rolling_back", "validating", "ready", "restarting"}
    BY <1>1, <1>5, WorkerGone, NothingSpent DEF WorkerStart
<1> QED
    BY <1>2, <1>3, <1>4, <1>5

\* The restarts begin where the journal says so.
LEMMA ToLoopKeeps ==
    ASSUME Inv, rec' = rec, wk' = Go("loop"), wk.pc \in Forward,
           rec.status \in {"restarting", "rolling_back", "failed"},
           UNCHANGED <<setting, conf, dm, svc, tries, spent>>
    PROVE  Inv'
<1>1. wk' \in Workers /\ wk'.pc = "loop" /\ dm \in Daemons
    BY GoFields DEF Inv, Forward, Typed
<1>2. WorkerTells'
    BY <1>1 DEF Inv, WorkerTells, Rolling, Restored
<1> QED
    BY <1>1, <1>2, WorkerMoves, NothingSpent

\* A journal update of the forward part that sets the status and fields of no consequence.
LEMMA ForwardUpdates ==
    ASSUME Inv, NEW t \in {"ready", "validating", "restarting"}, rec' \in Recs, rec'.status = t,
           SameOutcomes, SameRollback, rec'.proof = rec.proof, rec'.expected.val = "new",
           wk.pc \in Forward \ Looping, wk.pc # "check" \/ t = "restarting",
           rec.status \in {"ready", "validating"},
           NEW l \in {"stale", "call", "recheck", "begin"}, wk' = Go(l),
           UNCHANGED <<setting, conf, dm, svc, tries, spent>>
    PROVE  Inv'
<1>1. l \in Forward /\ l \notin Looping /\ l \notin Rolling /\ l \notin Restored
      /\ rec.status \in Early /\ t # "none"
    BY DEF Forward, Looping, Rolling, Restored, Early
<1>2. wk' \in Workers /\ wk'.pc = l /\ dm \in Daemons
    BY <1>1, GoFields DEF Inv, Typed
<1>3. Typed'
    BY <1>2 DEF Inv, Typed
<1>4. ~rec.restored
    BY DEF Inv, WorkerTells
<1>5. JournalTells'
    BY <1>1, <1>2, <1>4 DEF Inv, JournalTells, SameOutcomes, SameRollback
<1>6. WorkerTells'
    BY <1>1, <1>2, <1>4 DEF Inv, WorkerTells, SameRollback
<1>7. ASSUME NEW s \in Services PROVE Counted(s)' /\ OutcomeTrue(s)'
    BY <1>1, <1>2 DEF Inv, Counted, Owed, OutcomeTrue, Renewed, SameOutcomes, SameRollback
<1> QED
    BY <1>3, <1>5, <1>6, <1>7 DEF Inv

\* The file is compared with what the offer expected.
LEMMA CheckConfigKeeps == ASSUME Inv, CheckConfig PROVE Inv'
<1>1. /\ wk.pc = "check" /\ UNCHANGED <<setting, conf, dm, svc, tries, spent>> /\ rec \in Recs
      /\ wk.pc \in Forward \ Looping
    BY DEF CheckConfig, Steps, Inv, Forward, Looping, Typed
<1>2. rec.status \in {"ready", "restarting", "rolling_back", "failed"} /\ rec.expected.val = "new"
    BY <1>1 DEF Inv, WorkerTells, JournalTells
<1>3. CASE RollsBack
    BY <1>1, <1>3, RollsBackKeeps
<1>4. CASE rec.status = "ready" /\ Updates({"ready"}, [rec EXCEPT !.status = "restarting"], Go("stale"))
    <2>1. rec' = [rec EXCEPT !.status = "restarting"] /\ wk' = Go("stale")
        BY <1>4 DEF Updates
    <2>2. /\ rec' \in Recs /\ rec'.status = "restarting" /\ SameOutcomes /\ SameRollback
          /\ rec'.expected = rec.expected /\ rec'.proof = rec.proof
        BY <2>1, StatusFields DEF Statuses, Executable
    <2> QED
        BY <1>1, <1>2, <1>4, <2>1, <2>2, ForwardUpdates
<1>5. CASE Finish("failed", "none")
    BY <1>1, <1>2, <1>5, FinishKeeps, NothingSpent
<1>6. CASE rec' = rec /\ rec.status # "ready" /\ wk' = Go("loop")
    BY <1>1, <1>2, <1>6, ToLoopKeeps
<1>7. CASE rec' = rec /\ \E l \in {"begin", "recheck", "validate"} : wk' = Go(l)
    BY <1>1, <1>7, ForwardKeeps
<1> QED
    BY <1>3, <1>4, <1>5, <1>6, <1>7 DEF CheckConfig

\* A file that changed fails the activation.
LEMMA StaleConfigKeeps == ASSUME Inv, StaleConfig PROVE Inv'
<1>1. wk.pc = "stale" /\ UNCHANGED <<setting, conf, dm, svc, tries, spent>> /\ wk.pc \in Forward
    BY DEF StaleConfig, Steps, Forward
<1> QED
    BY <1>1, FinishKeeps, NothingSpent DEF StaleConfig

\* The validation is in the journal before the provider is asked, and its result after.
LEMMA ValidationKeeps == ASSUME Inv, BeginVoiceValidation \/ ValidateVoice PROVE Inv'
<1>1. rec \in Recs /\ UNCHANGED <<setting, conf, dm, svc, tries, spent>>
    BY DEF BeginVoiceValidation, ValidateVoice, Steps, Inv, Typed
<1>2. wk.pc \in {"validate", "call"} /\ wk.pc \in Forward \ Looping
    BY DEF BeginVoiceValidation, ValidateVoice, Steps, Forward, Looping
<1>3. CASE RollsBack
    BY <1>1, <1>3, RollsBackKeeps
<1>4. CASE rec' = rec /\ wk' = Off
    BY <1>1, <1>4, WorkerGone, NothingSpent
<1>5. CASE /\ rec.status = "ready"
           /\ rec' = [rec EXCEPT !.status = "validating", !.asked = TRUE] /\ wk' = Go("call")
    <2>1. rec' \in Recs
        BY <1>1, <1>5 DEF Recs, Statuses, Executable
    <2>2. /\ rec'.status = "validating" /\ SameOutcomes /\ SameRollback
          /\ rec'.expected = rec.expected /\ rec'.proof = rec.proof
        BY <1>1, <1>5 DEF Recs, SameOutcomes, SameRollback
    <2>3. rec.expected.val = "new"
        BY <1>5 DEF Inv, JournalTells
    <2> QED
        BY <1>1, <1>2, <1>5, <2>1, <2>2, <2>3, ForwardUpdates
<1>6. CASE /\ rec.status = "validating"
           /\ rec' = [rec EXCEPT !.status = "ready", !.validated = TRUE] /\ wk' = Go("recheck")
    <2>1. rec' \in Recs
        BY <1>1, <1>6 DEF Recs, Statuses, Executable
    <2>2. /\ rec'.status = "ready" /\ SameOutcomes /\ SameRollback
          /\ rec'.expected = rec.expected /\ rec'.proof = rec.proof
        BY <1>1, <1>6 DEF Recs, SameOutcomes, SameRollback
    <2>3. rec.expected.val = "new"
        BY <1>6 DEF Inv, JournalTells
    <2> QED
        BY <1>1, <1>2, <1>6, <2>1, <2>2, <2>3, ForwardUpdates
<1> QED
    BY <1>3, <1>4, <1>5, <1>6 DEF BeginVoiceValidation, ValidateVoice, Updates

\* Edits of other settings become part of what is expected, another voice never does.
LEMMA RecheckVoiceKeeps == ASSUME Inv, RecheckVoice PROVE Inv'
<1>1. /\ rec \in Recs /\ wk \in Workers /\ UNCHANGED <<setting, conf, dm, svc, tries, spent>>
      /\ wk.pc \in {"recheck", "rechecked"} /\ wk.pc \in Forward \ Looping
    BY DEF RecheckVoice, Steps, Inv, Forward, Looping, Typed
<1>2. CASE rec' = rec /\ wk' = Reads("rechecked")
    BY <1>1, <1>2, ForwardKeeps
<1>3. CASE RollsBack
    BY <1>1, <1>3, RollsBackKeeps
<1>4. CASE rec' = rec /\ wk' = Off
    BY <1>1, <1>4, WorkerGone, NothingSpent
<1>5. CASE /\ wk.seen.val = "new" /\ rec.status = "ready"
           /\ rec' = [rec EXCEPT !.expected = wk.seen] /\ wk' = Go("begin")
    <2>1. rec' \in Recs
        BY <1>1, <1>5 DEF Recs, Workers
    <2>2. /\ rec'.status = "ready" /\ SameOutcomes /\ SameRollback
          /\ rec'.expected = wk.seen /\ rec'.proof = rec.proof
        BY <1>1, <1>5 DEF Recs, SameOutcomes, SameRollback
    <2> QED
        BY <1>1, <1>5, <2>1, <2>2, ForwardUpdates
<1>6. CASE rec' = rec /\ wk' = Go("begin")
    BY <1>1, <1>6, ForwardKeeps
<1> QED
    BY <1>2, <1>3, <1>4, <1>5, <1>6 DEF RecheckVoice, Updates

\* The journal of the restarts begins empty, before any service was told to restart.
LEMMA BeginRestartKeeps == ASSUME Inv, BeginRestart PROVE Inv'
<1> DEFINE o == [s \in Services |-> [Fresh EXCEPT !.before = svc[s].gen,
                                       !.st = IF svc[s].up THEN "pending" ELSE "failed"]]
<1>1. /\ rec \in Recs /\ dm \in Daemons /\ UNCHANGED <<setting, conf, dm, svc, tries, spent>>
      /\ wk.pc = "begin" /\ wk.pc \in Forward /\ svc \in [Services -> Svcs]
    BY DEF BeginRestart, Steps, Inv, Forward, Typed
<1>2. CASE rec.status # "ready"
    BY <1>1, <1>2, WorkerGone, NothingSpent DEF BeginRestart, Updates
<1>3. CASE rec.status = "ready"
    <2>1. rec' = [rec EXCEPT !.status = "restarting", !.out = o] /\ wk' = Go("loop")
        BY <1>3 DEF BeginRestart, Updates
    <2>2. ASSUME NEW s \in Services
          PROVE  o[s] \in Outcomes /\ o[s].before = svc[s].gen /\ o[s].st \in {"pending", "failed"}
        <3>1. svc[s].gen \in Nat
            BY <1>1 DEF Svcs
        <3> QED
            BY <3>1, StartTyped DEF Outcomes
    <2>3. o \in [Services -> Outcomes]
        BY <2>2
    <2> HIDE DEF o
    <2>4. rec' \in Recs
        BY <1>1, <2>1, <2>3 DEF Recs, Statuses, Executable
    <2>5. /\ rec'.status = "restarting" /\ rec'.out = o /\ rec'.roll = rec.roll /\ SameRollback
          /\ rec'.expected = rec.expected /\ rec'.proof = rec.proof
        BY <1>1, <2>1 DEF Recs, SameRollback
    <2>6. wk' \in Workers /\ wk'.pc = "loop"
        BY <2>1, GoFields DEF Forward
    <2>7. Typed'
        BY <1>1, <2>4, <2>6 DEF Inv, Typed
    <2>8. ~rec.restored
        BY <1>1 DEF Inv, WorkerTells
    <2>9. JournalTells'
        BY <1>1, <1>3, <2>5, <2>6, <2>8 DEF Inv, JournalTells, SameRollback
    <2>10. WorkerTells'
        BY <2>5, <2>6, <2>8 DEF WorkerTells, SameRollback, Rolling, Restored
    <2>11. ASSUME NEW s \in Services PROVE Counted(s)' /\ OutcomeTrue(s)'
        <3>1. o[s].before = svc[s].gen /\ o[s].st # "succeeded" /\ svc[s].gen \in Nat
            BY <1>1, <2>2 DEF Svcs
        <3>2. Counted(s) /\ OutcomeTrue(s) /\ rec.status \in Early /\ rec.status \in NotRolledBack
            BY <1>3 DEF Inv, Early, NotRolledBack
        <3>3. Counted(s)'
            BY <1>1, <2>5, <2>6, <3>1, <3>2 DEF Counted, Owed, Early
        <3>4. OutcomeTrue(s)'
            BY <1>1, <2>5, <2>6, <3>1, <3>2 DEF OutcomeTrue, Renewed, SameRollback
        <3> QED
            BY <3>3, <3>4
    <2> QED
        BY <2>7, <2>9, <2>10, <2>11 DEF Inv
<1> QED
    BY <1>2, <1>3

\* What the outcomes of a service become.
LEMMA OutcomeFields ==
    ASSUME Inv, NEW o \in Outcomes, NEW ok \in BOOLEAN, NEW b \in Nat, NEW s \in Services
    PROVE  /\ Tried(o) \in Outcomes /\ Tried(o).tried /\ Tried(o).st = o.st
           /\ Tried(o).before = o.before
           /\ [Tried(o) EXCEPT !.before = b] \in Outcomes /\ [Tried(o) EXCEPT !.before = b].tried
           /\ [Tried(o) EXCEPT !.before = b].st = o.st
           /\ Observed(o, s, ok) \in Outcomes /\ (Observed(o, s, ok).tried <=> o.tried)
           /\ Observed(o, s, ok).before = o.before /\ Observed(o, s, ok).after = svc[s].gen
           /\ Observed(o, s, ok).st = IF ok THEN "succeeded" ELSE "failed"
<1>1. /\ Tried(o) \in Outcomes /\ Tried(o).tried /\ Tried(o).st = o.st
      /\ Tried(o).before = o.before
    BY DEF Tried, Outcomes
<1>2. /\ [Tried(o) EXCEPT !.before = b] \in Outcomes /\ [Tried(o) EXCEPT !.before = b].tried
      /\ [Tried(o) EXCEPT !.before = b].st = o.st
    BY <1>1 DEF Outcomes
<1>3. svc[s].gen \in Nat
    BY DEF Inv, Typed, Svcs
<1>4. /\ Observed(o, s, ok) \in Outcomes /\ (Observed(o, s, ok).tried <=> o.tried)
      /\ Observed(o, s, ok).before = o.before /\ Observed(o, s, ok).after = svc[s].gen
      /\ Observed(o, s, ok).st = IF ok THEN "succeeded" ELSE "failed"
    BY <1>3 DEF Observed, Outcomes
<1> QED
    BY <1>1, <1>2, <1>4

\* One outcome of the restarts is written, and the worker stays in its loop.
LEMMA OutWritten ==
    ASSUME Inv, NEW s \in Services, NEW o \in Outcomes, rec' = [rec EXCEPT !.out[s] = o],
           rec.status = "restarting", UNCHANGED <<setting, conf, dm, svc, tries, spent>>,
           wk.pc \in Forward, wk' \in Workers, wk'.pc \in {"loop", "restart"},
           rec.out[s].tried => o.tried, o.before = rec.out[s].before,
           wk'.pc = "restart" => wk'.cur = s /\ ~rec.out[s].tried /\ o.tried,
           o.st = "succeeded" => Renewed(o, s)
    PROVE  Inv'
<1>1. rec \in Recs /\ dm \in Daemons /\ tries \in [Services -> Triess]
    BY DEF Inv, Typed
<1>2. rec' \in Recs
    BY <1>1 DEF Recs
<1>3. /\ rec'.status = rec.status /\ rec'.roll = rec.roll /\ SameRollback
      /\ rec'.expected = rec.expected /\ rec'.proof = rec.proof
      /\ rec'.out[s] = o /\ \A r \in Services \ {s} : rec'.out[r] = rec.out[r]
    BY <1>1 DEF Recs, SameRollback
<1>4. Typed'
    BY <1>1, <1>2 DEF Inv, Typed
<1>5. JournalTells'
    BY <1>3 DEF Inv, JournalTells, SameRollback
<1>6. Counted(s) /\ tries[s].go \in 0..2
    BY <1>1 DEF Inv, Triess
<1>7. WorkerTells'
    <2>1. ~rec.restored
        BY DEF Inv, WorkerTells
    <2>2. wk'.pc = "restart" => tries[s].go = 0
        BY <1>6 DEF Counted, Owed
    <2> QED
        BY <1>3, <2>1, <2>2 DEF WorkerTells, SameRollback, Rolling, Restored
<1>8. ASSUME NEW r \in Services PROVE Counted(r)' /\ OutcomeTrue(r)'
    <2>1. Counted(r) /\ OutcomeTrue(r)
        BY DEF Inv
    <2>2. CASE r = s
        BY <1>3, <2>1, <2>2 DEF Counted, Owed, OutcomeTrue, Renewed, SameRollback
    <2>3. CASE r # s
        BY <1>3, <2>1, <2>3 DEF Counted, Owed, OutcomeTrue, Renewed, SameRollback
    <2> QED
        BY <2>2, <2>3
<1> QED
    BY <1>4, <1>5, <1>7, <1>8 DEF Inv

\* The attempt is in the journal before the command is given.
LEMMA RestartLoopKeeps == ASSUME Inv, RestartLoop PROVE Inv'
<1>1. /\ rec \in Recs /\ dm \in Daemons /\ UNCHANGED <<setting, conf, dm, svc, tries, spent>>
      /\ wk.pc = "loop" /\ wk.pc \in Forward /\ wk.pc \in Looping
    BY DEF RestartLoop, Steps, Inv, Forward, Looping, Typed
<1>2. rec.status \in {"restarting", "rolling_back", "failed"} /\ ~rec.restored
    BY <1>1 DEF Inv, WorkerTells
<1>3. CASE Pending(rec.out) = {}
    <2>1. rec' = rec /\ wk' = Reads("final")
        BY <1>3 DEF RestartLoop
    <2>2. wk' \in Workers /\ wk'.pc = "final"
        BY <2>1, GoFields DEF Forward
    <2>3. WorkerTells'
        BY <1>2, <2>1, <2>2 DEF WorkerTells, Rolling, Restored
    <2> QED
        BY <1>1, <2>1, <2>2, <2>3, WorkerMoves, NothingSpent
<1>4. CASE Pending(rec.out) # {}
    <2> DEFINE s == Min(Pending(rec.out))
    <2>1. s \in Services /\ rec.out[s] \in Outcomes
        BY <1>1, <1>4, MinIn DEF Pending, Recs
    <2>2. \/ rec.out[s].tried /\ rec' = rec /\ wk' = [Go("observe") EXCEPT !.cur = s]
          \/ /\ ~rec.out[s].tried
             /\ Updates({"restarting"}, [rec EXCEPT !.out[s] = Tried(@)],
                        [Go("restart") EXCEPT !.cur = s])
        BY <1>4 DEF RestartLoop
    <2> HIDE DEF s
    <2>3. CASE rec' = rec /\ wk' = [Go("observe") EXCEPT !.cur = s]
        <3>1. wk' \in Workers /\ wk'.pc = "observe" /\ wk'.cur = s
            BY <2>1, <2>3, CurFields DEF Forward
        <3>2. WorkerTells'
            BY <1>2, <2>1, <2>3, <3>1 DEF WorkerTells, Rolling, Restored
        <3> QED
            BY <1>1, <2>3, <3>1, <3>2, WorkerMoves, NothingSpent
    <2>4. CASE /\ ~rec.out[s].tried /\ rec.status = "restarting"
               /\ rec' = [rec EXCEPT !.out[s] = Tried(@)]
               /\ wk' = [Go("restart") EXCEPT !.cur = s]
        <3>1. wk' \in Workers /\ wk'.pc = "restart" /\ wk'.cur = s
            BY <2>1, <2>4, CurFields DEF Forward
        <3> DEFINE o == Tried(rec.out[s])
        <3>2. o \in Outcomes /\ o.tried /\ o.before = rec.out[s].before /\ o.st = rec.out[s].st
            BY <2>1, OutcomeFields
        <3>3. o.st # "succeeded"
            BY <1>4, <3>2, MinIn DEF Pending, s
        <3>4. rec' = [rec EXCEPT !.out[s] = o]
            BY <2>4
        <3> HIDE DEF o
        <3> QED
            BY <1>1, <2>1, <2>4, <3>1, <3>2, <3>3, <3>4, OutWritten
    <2>5. CASE rec' = rec /\ wk' = Off
        BY <1>1, <2>5, WorkerGone, NothingSpent
    <2> QED
        BY <2>2, <2>3, <2>4, <2>5 DEF Updates
<1> QED
    BY <1>3, <1>4

\* A command is given: the service is told to restart once more than before, and may come
\* up later as another process.
LEMMA CommandKeeps ==
    ASSUME Inv, NEW s, s = wk.cur, NEW t \in Triess, tries' = [tries EXCEPT ![s] = t],
           \/ /\ wk.pc = "restart" /\ wk' = Go("observe")
              /\ t.go = tries[s].go + 1 /\ t.back = tries[s].back /\ t.died = tries[s].died
           \/ /\ wk.pc = "rbrestart" /\ wk' = Go("rbobserve")
              /\ t.back = tries[s].back + 1 /\ t.go = tries[s].go /\ t.died = tries[s].died,
           \/ svc' = [svc EXCEPT ![s].starting = @ \/ svc[s].up]
           \/ UNCHANGED svc,
           Spends, UNCHANGED <<setting, conf, rec, dm>>
    PROVE  Inv'
<1>1. /\ rec \in Recs /\ dm \in Daemons /\ svc \in [Services -> Svcs] /\ tries \in [Services -> Triess]
      /\ wk \in Workers
    BY DEF Inv, Typed
<1>2. s \in Services
    BY DEF Inv, WorkerTells
<1>3. /\ wk' \in Workers /\ wk'.cur = s
      /\ \/ wk.pc = "restart" /\ wk'.pc = "observe"
         \/ wk.pc = "rbrestart" /\ wk'.pc = "rbobserve"
    BY GoFields DEF Forward, Rolling
<1>4. tries' \in [Services -> Triess] /\ tries'[s] = t /\ \A r \in Services \ {s} : tries'[r] = tries[r]
    BY <1>1, <1>2
<1>5. svc' \in [Services -> Svcs]
    <2>1. svc[s] \in Svcs /\ svc[s].up \in BOOLEAN /\ svc[s].starting \in BOOLEAN
        BY <1>1, <1>2 DEF Svcs
    <2>2. [svc[s] EXCEPT !.starting = @ \/ svc[s].up] \in Svcs
        BY <2>1 DEF Svcs
    <2> QED
        BY <1>1, <1>2, <2>2
<1>6. /\ svc'[s].gen = svc[s].gen /\ (svc'[s].up <=> svc[s].up) /\ svc'[s].conf = svc[s].conf
      /\ \A r \in Services \ {s} : svc'[r] = svc[r]
    <2>1. svc[s] \in Svcs
        BY <1>1, <1>2
    <2>2. CASE svc' = [svc EXCEPT ![s].starting = @ \/ svc[s].up]
        <3>1. svc'[s] = [svc[s] EXCEPT !.starting = @ \/ svc[s].up]
            BY <1>1, <1>2, <2>2
        <3> QED
            BY <1>1, <1>2, <2>1, <2>2, <3>1 DEF Svcs
    <2>3. CASE UNCHANGED svc
        BY <2>3
    <2> QED
        BY <2>2, <2>3
<1>7. Typed'
    BY <1>1, <1>3, <1>4, <1>5 DEF Inv, Spends, Typed
<1>8. JournalTells'
    BY <1>3 DEF Inv, JournalTells, Spends
<1>9. WorkerTells'
    BY <1>2, <1>3 DEF Inv, WorkerTells, Looping, Rolling, Restored, Forward
<1>10. ASSUME NEW r \in Services PROVE Counted(r)' /\ OutcomeTrue(r)'
    <2>1. Counted(r) /\ OutcomeTrue(r)
        BY DEF Inv
    <2>2. CASE r # s
        <3>1. wk'.pc \in Forward => wk.pc \in Forward
            BY <1>3 DEF Forward
        <3> QED
            BY <1>3, <1>4, <1>6, <2>1, <2>2, <3>1 DEF Counted, Owed, OutcomeTrue, Renewed
    <2>3. CASE r = s
        <3>1. /\ tries[s].go \in 0..2 /\ tries[s].back \in 0..2 /\ svc[s].gen \in Nat
              /\ tries[s].died \in Nat /\ rec.out[s].before \in Nat /\ rec.out[s].after \in Nat
              /\ svc[s].starting \in BOOLEAN /\ svc'[s].starting \in BOOLEAN
            BY <1>1, <1>2, <1>5 DEF Triess, Svcs, Recs, Outcomes
        <3>0. Owed(s) \in {0, 1} /\ Owed(s)' \in {0, 1}
            BY DEF Owed
        <3>2. CASE wk.pc = "restart"
            <4>1. /\ wk'.pc = "observe" /\ t.go = 1 /\ tries[s].go = 0
                  /\ t.back = tries[s].back /\ t.died = tries[s].died
                  /\ rec.out[s].tried /\ rec.status \notin Early
                BY <1>3, <3>2 DEF Inv, WorkerTells, Looping, Early
            <4>2. tries[s].back = 0
                BY <2>1, <2>3, <3>2 DEF Counted, Owed, Forward
            <4>3. Counted(s)'
                BY <1>4, <1>6, <2>1, <2>3, <3>0, <3>1, <4>1, <4>2, SMTT(30) DEF Counted
            <4>4. rec.out[s].st = "succeeded" => tries[s].died # 0
                BY <2>1, <2>3, <3>1, <4>1, <4>2 DEF Counted, Owed, OutcomeTrue, Renewed
            <4>5. OutcomeTrue(s)'
                BY <1>4, <1>6, <2>1, <2>3, <4>1, <4>4 DEF OutcomeTrue, Renewed
            <4> QED
                BY <2>3, <4>3, <4>5
        <3>3. CASE wk.pc = "rbrestart"
            <4>1. /\ wk'.pc = "rbobserve" /\ t.back = 1 /\ tries[s].back = 0
                  /\ t.go = tries[s].go /\ t.died = tries[s].died /\ rec.roll[s].tried
                  /\ rec.status \in {"rolling_back", "failed"}
                BY <1>3, <3>3 DEF Inv, WorkerTells, Rolling
            <4>2. rec.status \notin NotRolledBack /\ wk'.pc \notin Forward
                BY <4>1 DEF NotRolledBack, Early, Forward
            <4>3. Counted(s)'
                BY <1>4, <1>6, <2>1, <2>3, <3>0, <3>1, <4>1, <4>2, SMTT(30) DEF Counted
            <4>4. OutcomeTrue(s)'
                BY <1>4, <1>6, <2>1, <2>3, <4>1 DEF OutcomeTrue, Renewed
            <4> QED
                BY <2>3, <4>3, <4>4
        <3> QED
            BY <1>3, <3>2, <3>3
    <2> QED
        BY <2>2, <2>3
<1> QED
    BY <1>7, <1>8, <1>9, <1>10 DEF Inv

\* try_restart, to activate the change.
LEMMA RestartServiceKeeps == ASSUME Inv, RestartService PROVE Inv'
<1>1. PICK s : s = wk.cur
    OBVIOUS
<1>0. PICK t : t = [tries[s] EXCEPT !.go = @ + 1]
    OBVIOUS
<1>2. /\ wk.pc = "restart" /\ tries' = [tries EXCEPT ![s] = t] /\ wk' = Go("observe")
      /\ \/ svc' = [svc EXCEPT ![s].starting = @ \/ svc[s].up] /\ UNCHANGED spent
         \/ Errs /\ UNCHANGED svc
      /\ UNCHANGED <<setting, conf, rec, dm>>
    BY <1>0, <1>1 DEF RestartService, Restarts
<1>3. s \in Services /\ tries[s].go = 0
    BY <1>1, <1>2 DEF Inv, WorkerTells
<1>4. tries[s] \in Triess
    BY <1>3 DEF Inv, Typed
<1>5. t \in Triess /\ t.go = tries[s].go + 1 /\ t.back = tries[s].back /\ t.died = tries[s].died
    BY <1>0, <1>3, <1>4 DEF Triess
<1>6. Spends
    BY <1>2, NothingSpent, ErrsSpends
<1> QED
    BY <1>1, <1>2, <1>5, <1>6, CommandKeeps

\* The observation tells a new process that has the change from the one before.
LEMMA ObserveRestartKeeps == ASSUME Inv, ObserveRestart PROVE Inv'
<1>1. /\ rec \in Recs /\ dm \in Daemons /\ UNCHANGED <<setting, conf, dm, svc, tries, spent>>
      /\ wk.pc = "observe" /\ wk.pc \in Forward
    BY DEF ObserveRestart, Steps, Inv, Forward, Typed
<1>2. CASE rec.status # "restarting"
    BY <1>1, <1>2, WorkerGone, NothingSpent DEF ObserveRestart, Updates
<1>3. CASE rec.status = "restarting"
    <2>1. PICK s : s = wk.cur
        OBVIOUS
    <2>2. s \in Services
        BY <1>1, <2>1 DEF Inv, WorkerTells
    <2>3. rec.out[s] \in Outcomes /\ svc[s] \in Svcs /\ tries[s] \in Triess
        BY <1>1, <2>2 DEF Inv, Recs, Typed
    <2> DEFINE ok == Restarted(rec.out[s], s) /\ Matches(svc[s].conf)
               o == Observed(rec.out[s], s, ok)
    <2>4. rec' = [rec EXCEPT !.out[s] = o] /\ wk' = Go("loop")
        BY <1>3, <2>1 DEF ObserveRestart, Updates
    <2>5. ok \in BOOLEAN
        BY DEF Restarted, Matches
    <2> HIDE DEF ok
    <2>6. /\ o \in Outcomes /\ (rec.out[s].tried <=> o.tried) /\ o.before = rec.out[s].before
          /\ o.after = svc[s].gen /\ (o.st = "succeeded" => ok)
        <3>1. PICK p : p = rec.out[s]
            OBVIOUS
        <3>2. 0 \in Nat /\ p \in Outcomes
            BY <2>3, <3>1
        <3>3. /\ Observed(p, s, ok) \in Outcomes /\ (Observed(p, s, ok).tried <=> p.tried)
              /\ Observed(p, s, ok).before = p.before /\ Observed(p, s, ok).after = svc[s].gen
              /\ Observed(p, s, ok).st = IF ok THEN "succeeded" ELSE "failed"
            <4>1. PICK q \in BOOLEAN : q = ok
                BY <2>5
            <4>2. svc[s].gen \in Nat
                BY <2>3 DEF Svcs
            <4> QED
                BY <3>2, <4>1, <4>2 DEF Observed, Outcomes
        <3> QED
            BY <3>1, <3>3
    <2>7. ok => Renewed(o, s)
        <3>1. Counted(s) /\ rec.expected.val = "new"
            BY <1>3, <2>2 DEF Inv, JournalTells
        <3>2. /\ rec.out[s].before \in Nat /\ svc[s].gen \in Nat /\ svc[s].starting \in BOOLEAN
              /\ tries[s].go \in 0..2 /\ tries[s].back = 0 /\ tries[s].died \in Nat
            BY <1>1, <2>3, <3>1 DEF Outcomes, Svcs, Triess, Counted, Owed
        <3> HIDE DEF o
        <3> QED
            BY <2>6, <3>1, <3>2 DEF ok, Restarted, Matches, Counted, Owed, Renewed
    <2> HIDE DEF o
    <2>8. wk' \in Workers /\ wk'.pc = "loop"
        BY <2>4, GoFields DEF Forward
    <2> QED
        BY <1>1, <1>3, <2>2, <2>4, <2>6, <2>7, <2>8, OutWritten
<1> QED
    BY <1>2, <1>3

\* A success is reported when every outcome is one.
LEMMA FinishActivationKeeps == ASSUME Inv, FinishActivation PROVE Inv'
<1>1. wk.pc = "final" /\ UNCHANGED <<setting, conf, dm, svc, tries, spent>>
    BY DEF FinishActivation, Steps
<1>2. CASE RollsBack
    BY <1>1, <1>2, RollsBackKeeps
<1>3. CASE Finish("succeeded", "none") /\ Succeeded = Services
    <2>1. \A s \in Services : rec.out[s].st = "succeeded"
        BY <1>3 DEF Succeeded
    <2> QED
        BY <1>1, <1>3, <2>1, FinishKeeps, NothingSpent DEF Forward
<1>4. ASSUME NEW t \in {"failed", "partial"}, Finish(t, "none") PROVE Inv'
    BY <1>1, <1>4, FinishKeeps, NothingSpent DEF Forward
<1> QED
    BY <1>2, <1>3, <1>4 DEF FinishActivation

-----------------------------------------------------------------------------

\* The rollback goes on after the file was restored, or reads it.
LEMMA RollbackStartKeeps == ASSUME Inv, RollbackStart PROVE Inv'
<1>1. /\ dm \in Daemons /\ UNCHANGED <<setting, conf, dm, svc, tries, spent>> /\ rec' = rec
      /\ wk.pc = "rb" /\ wk.pc \in Rolling
    BY DEF RollbackStart, Steps, Inv, Rolling, Typed
<1>2. CASE rec.restored
    <2>1. wk' = Go("rbloop")
        BY <1>2 DEF RollbackStart
    <2>2. wk' \in Workers /\ wk'.pc = "rbloop"
        BY <2>1, GoFields DEF Rolling
    <2>3. WorkerTells'
        BY <1>1, <1>2, <2>2 DEF Inv, WorkerTells, Looping, Forward
    <2> QED
        BY <1>1, <2>2, <2>3, WorkerMoves, NothingSpent DEF Forward
<1>3. CASE ~rec.restored
    <2>1. wk' = Reads("rbread")
        BY <1>3 DEF RollbackStart
    <2>2. wk' \in Workers /\ wk'.pc = "rbread" /\ wk'.seen = conf
        BY <2>1, GoFields DEF Rolling
    <2>3. WorkerTells'
        BY <1>1, <2>2 DEF Inv, WorkerTells, Looping, Restored, Forward
    <2> QED
        BY <1>1, <2>2, <2>3, WorkerMoves, NothingSpent DEF Forward
<1> QED
    BY <1>2, <1>3

\* The file no longer has the new voice, and the journal says so.
LEMMA MarksRestoredKeeps ==
    ASSUME Inv, MarksRestored, wk.pc \in {"rbread", "rbproof"}, wk.seen.val = "old",
           UNCHANGED <<setting, conf, dm, svc, tries, spent>>
    PROVE  Inv'
<1>1. rec \in Recs /\ dm \in Daemons /\ wk.seen \in Confs
    BY DEF Inv, Workers, Typed
<1>2. CASE rec.status # "rolling_back"
    BY <1>2, WorkerGone, NothingSpent DEF MarksRestored, Updates
<1>3. CASE rec.status = "rolling_back"
    <2>1. rec' = [rec EXCEPT !.restored = TRUE, !.back = wk.seen] /\ wk' = Go("rbloop")
        BY <1>3 DEF MarksRestored, Updates
    <2>2. rec' \in Recs
        BY <1>1, <2>1 DEF Recs
    <2>3. /\ rec'.status = "rolling_back" /\ SameOutcomes /\ rec'.restored /\ rec'.back = wk.seen
          /\ rec'.expected = rec.expected /\ rec'.proof = rec.proof
        BY <1>1, <1>3, <2>1 DEF Recs, SameOutcomes
    <2>4. wk' \in Workers /\ wk'.pc = "rbloop"
        BY <2>1, GoFields DEF Rolling
    <2>5. Typed'
        BY <1>1, <2>2, <2>4 DEF Inv, Typed
    <2>6. JournalTells'
        BY <1>3, <2>3, <2>4 DEF Inv, JournalTells
    <2>7. WorkerTells'
        BY <2>3, <2>4 DEF WorkerTells, Looping, Forward
    <2>8. ASSUME NEW s \in Services PROVE Counted(s)' /\ OutcomeTrue(s)'
        <3>1. Counted(s) /\ OutcomeTrue(s)
            BY DEF Inv
        <3>2. "rbloop" \notin Forward
            BY DEF Forward
        <3> QED
            BY <1>3, <2>3, <2>4, <3>1, <3>2 DEF Counted, Owed, OutcomeTrue, Renewed, SameOutcomes
    <2> QED
        BY <2>5, <2>6, <2>7, <2>8 DEF Inv
<1> QED
    BY <1>2, <1>3

\* The voice is taken back only while it is the one this activation wrote.
LEMMA RestoreVoiceKeeps == ASSUME Inv, RestoreVoice PROVE Inv'
<1>1. /\ rec \in Recs /\ dm \in Daemons /\ conf \in Confs /\ wk.seen \in Confs
      /\ wk.pc \in {"rbread", "rbwrite", "rbload", "rbproof"}
      /\ wk.pc \in Rolling /\ UNCHANGED <<setting, dm, svc, tries>>
    BY DEF RestoreVoice, Steps, Inv, Rolling, Typed, Workers
<1>2. CASE /\ MarksRestored /\ wk.pc \in {"rbread", "rbproof"} /\ wk.seen.val = "old"
           /\ UNCHANGED <<conf, spent>>
    BY <1>1, <1>2, MarksRestoredKeeps
<1>3. CASE Finish("failed", "none") /\ UNCHANGED conf /\ (UNCHANGED spent \/ Errs)
    <2>1. Spends
        BY <1>3, NothingSpent, ErrsSpends
    <2> QED
        BY <1>1, <1>3, <2>1, FinishKeeps
<1>4. CASE /\ wk.pc = "rbwrite" /\ conf' = [wk.seen EXCEPT !.val = "old"] /\ wk' = Go("rbload")
           /\ UNCHANGED <<rec, spent>>
    <2>1. conf' \in Confs /\ conf'.val = "old"
        BY <1>1, <1>4 DEF Confs
    <2>2. wk' \in Workers /\ wk'.pc = "rbload"
        BY <1>4, GoFields DEF Rolling
    <2>3. Typed'
        BY <1>1, <1>4, <2>1, <2>2 DEF Inv, Typed
    <2>4. JournalTells'
        BY <1>1, <1>4, <2>1, <2>2 DEF Inv, JournalTells
    <2>5. WorkerTells'
        BY <1>1, <1>4, <2>2 DEF Inv, WorkerTells, Looping, Restored, Forward
    <2>6. ASSUME NEW s \in Services PROVE Counted(s)' /\ OutcomeTrue(s)'
        BY <1>1, <1>4, <2>2 DEF Inv, Counted, Owed, OutcomeTrue, Renewed, Forward
    <2> QED
        BY <2>3, <2>4, <2>5, <2>6 DEF Inv
<1>5. CASE /\ wk.pc = "rbload" /\ rec' = rec /\ wk' = Reads("rbproof")
           /\ UNCHANGED <<conf, spent>>
    <2>1. wk' \in Workers /\ wk'.pc = "rbproof" /\ wk'.seen = conf
        BY <1>5, GoFields DEF Rolling
    <2>2. WorkerTells'
        BY <1>1, <1>5, <2>1 DEF Inv, WorkerTells, Looping, Restored, Forward
    <2> QED
        BY <1>1, <1>5, <2>1, <2>2, WorkerMoves, NothingSpent DEF Forward
<1>6. CASE /\ wk.pc = "rbread" /\ rec' = rec /\ wk' = Reads("rbwrite") /\ conf.val = "new"
           /\ UNCHANGED <<conf, spent>>
    <2>1. wk' \in Workers /\ wk'.pc = "rbwrite" /\ wk'.seen = conf
        BY <1>6, GoFields DEF Rolling
    <2>2. Typed'
        BY <1>1, <1>6, <2>1 DEF Inv, Typed
    <2>3. JournalTells'
        BY <1>1, <1>6, <2>1 DEF Inv, JournalTells
    <2>4. WorkerTells'
        BY <1>1, <1>6, <2>1 DEF Inv, WorkerTells, Looping, Restored, Forward
    <2>5. ASSUME NEW s \in Services PROVE Counted(s)' /\ OutcomeTrue(s)'
        BY <1>1, <1>6, <2>1 DEF Inv, Counted, Owed, OutcomeTrue, Renewed, Forward
    <2> QED
        BY <2>2, <2>3, <2>4, <2>5 DEF Inv
<1> QED
    BY <1>2, <1>3, <1>4, <1>5, <1>6 DEF RestoreVoice, Steps, OwnVoice

\* One outcome of the rollback is written, and the worker stays in its loop.
LEMMA RollWritten ==
    ASSUME Inv, NEW s \in Services, NEW o \in Outcomes, rec' = [rec EXCEPT !.roll[s] = o],
           rec.status = "rolling_back", UNCHANGED <<setting, conf, dm, svc, tries, spent>>,
           wk.pc \in Restored, wk' \in Workers, wk'.pc \in {"rbloop", "rbrestart"},
           rec.roll[s].tried => o.tried,
           wk'.pc = "rbrestart" => wk'.cur = s /\ ~rec.roll[s].tried /\ o.tried,
           o.st = "succeeded" => (svc[s].up => svc[s].conf.val # "new")
    PROVE  Inv'
<1>1. rec \in Recs /\ dm \in Daemons /\ tries \in [Services -> Triess]
    BY DEF Inv, Typed
<1>2. rec' \in Recs
    BY <1>1 DEF Recs
<1>3. /\ rec'.status = rec.status /\ rec'.out = rec.out /\ SameRollback
      /\ rec'.expected = rec.expected /\ rec'.proof = rec.proof
      /\ rec'.roll[s] = o /\ \A r \in Services \ {s} : rec'.roll[r] = rec.roll[r]
    BY <1>1 DEF Recs, SameRollback
<1>4. Typed'
    BY <1>1, <1>2 DEF Inv, Typed
<1>5. JournalTells'
    BY <1>3 DEF Inv, JournalTells, SameRollback
<1>6. Counted(s) /\ tries[s].back \in 0..2 /\ rec.restored
    BY <1>1 DEF Inv, Triess, WorkerTells
<1>7. WorkerTells'
    <2>1. wk'.pc = "rbrestart" => tries[s].back = 0
        BY <1>6 DEF Counted, Owed
    <2> QED
        BY <1>3, <1>6, <2>1 DEF WorkerTells, SameRollback, Looping, Forward
<1>8. ASSUME NEW r \in Services PROVE Counted(r)' /\ OutcomeTrue(r)'
    <2>1. Counted(r) /\ OutcomeTrue(r) /\ wk'.pc \notin Forward
        BY DEF Inv, Forward
    <2>2. CASE r = s
        BY <1>3, <1>6, <2>1, <2>2 DEF Counted, Owed, OutcomeTrue, Renewed, SameRollback
    <2>3. CASE r # s
        BY <1>3, <2>1, <2>3 DEF Counted, Owed, OutcomeTrue, Renewed, SameRollback
    <2> QED
        BY <2>2, <2>3
<1> QED
    BY <1>4, <1>5, <1>7, <1>8 DEF Inv

\* A service that already runs with the restored file is left alone.
LEMMA RollbackLoopKeeps == ASSUME Inv, RollbackLoop PROVE Inv'
<1>1. /\ rec \in Recs /\ dm \in Daemons /\ UNCHANGED <<setting, conf, dm, svc, tries, spent>>
      /\ wk.pc = "rbloop" /\ wk.pc \in Rolling /\ wk.pc \in Restored
    BY DEF RollbackLoop, Steps, Inv, Rolling, Restored, Typed
<1>2. rec.status \in {"rolling_back", "failed"} /\ rec.restored /\ rec.back.val = "old"
    BY <1>1 DEF Inv, WorkerTells, JournalTells
<1>3. CASE Pending(rec.roll) = {}
    <2>1. rec' = rec /\ wk' = Reads("rbend")
        BY <1>3 DEF RollbackLoop
    <2>2. wk' \in Workers /\ wk'.pc = "rbend"
        BY <2>1, GoFields DEF Rolling
    <2>3. WorkerTells'
        BY <1>2, <2>1, <2>2 DEF WorkerTells, Looping, Forward
    <2> QED
        BY <1>1, <2>1, <2>2, <2>3, WorkerMoves, NothingSpent DEF Forward
<1>4. CASE Pending(rec.roll) # {}
    <2>1. PICK s : s = Min(Pending(rec.roll))
        OBVIOUS
    <2>2. s \in Pending(rec.roll)
        BY <1>4, <2>1, MinIn DEF Pending
    <2>3. s \in Services /\ rec.roll[s] \in Outcomes /\ rec.roll[s].st = "pending" /\ svc[s] \in Svcs
        BY <1>1, <2>2 DEF Pending, Recs, Inv, Typed
    <2>4. svc[s].gen \in Nat /\ svc[s].up \in BOOLEAN
        BY <2>3 DEF Svcs
    <2> DEFINE o == [Tried(rec.roll[s]) EXCEPT !.before = svc[s].gen]
               q == Observed(rec.roll[s], s, svc[s].up)
    <2>5. /\ o \in Outcomes /\ o.tried /\ o.st # "succeeded"
          /\ q \in Outcomes /\ (q.tried <=> rec.roll[s].tried)
          /\ (q.st = "succeeded" => svc[s].up)
        BY <2>3, <2>4, OutcomeFields
    <2>6. \/ rec.roll[s].tried /\ rec' = rec /\ wk' = [Go("rbobserve") EXCEPT !.cur = s]
          \/ /\ ~rec.roll[s].tried
             /\ Updates({"rolling_back"}, [rec EXCEPT !.roll[s] = o],
                        [Go("rbrestart") EXCEPT !.cur = s])
          \/ /\ ~(svc[s].up /\ svc[s].conf # rec.back)
             /\ Updates({"rolling_back"}, [rec EXCEPT !.roll[s] = q], Go("rbloop"))
        BY <1>4, <2>1 DEF RollbackLoop
    <2> HIDE DEF o, q
    <2>7. CASE rec' = rec /\ wk' = [Go("rbobserve") EXCEPT !.cur = s]
        <3>1. wk' \in Workers /\ wk'.pc = "rbobserve" /\ wk'.cur = s
            BY <2>3, <2>7, CurFields DEF Rolling
        <3>2. WorkerTells'
            BY <1>2, <2>3, <2>7, <3>1 DEF WorkerTells, Looping, Forward
        <3> QED
            BY <1>1, <2>7, <3>1, <3>2, WorkerMoves, NothingSpent DEF Forward
    <2>8. CASE /\ ~rec.roll[s].tried /\ rec.status = "rolling_back"
               /\ rec' = [rec EXCEPT !.roll[s] = o] /\ wk' = [Go("rbrestart") EXCEPT !.cur = s]
        <3>1. wk' \in Workers /\ wk'.pc = "rbrestart" /\ wk'.cur = s
            BY <2>3, <2>8, CurFields DEF Rolling
        <3> QED
            BY <1>1, <2>3, <2>5, <2>8, <3>1, RollWritten
    <2>9. CASE /\ ~(svc[s].up /\ svc[s].conf # rec.back) /\ rec.status = "rolling_back"
               /\ rec' = [rec EXCEPT !.roll[s] = q] /\ wk' = Go("rbloop")
        <3>1. wk' \in Workers /\ wk'.pc = "rbloop"
            BY <2>9, GoFields DEF Rolling
        <3> QED
            BY <1>1, <1>2, <2>3, <2>5, <2>9, <3>1, RollWritten
    <2>10. CASE rec' = rec /\ wk' = Off
        BY <1>1, <2>10, WorkerGone, NothingSpent
    <2> QED
        BY <2>6, <2>7, <2>8, <2>9, <2>10 DEF Updates
<1> QED
    BY <1>3, <1>4

\* try_restart, to take the change back.
LEMMA RollbackRestartKeeps == ASSUME Inv, RollbackRestart PROVE Inv'
<1>1. PICK s : s = wk.cur
    OBVIOUS
<1>2. PICK t : t = [tries[s] EXCEPT !.back = @ + 1]
    OBVIOUS
<1>3. /\ wk.pc = "rbrestart" /\ tries' = [tries EXCEPT ![s] = t] /\ wk' = Go("rbobserve")
      /\ \/ svc' = [svc EXCEPT ![s].starting = @ \/ svc[s].up] /\ UNCHANGED spent
         \/ Errs /\ UNCHANGED svc
      /\ UNCHANGED <<setting, conf, rec, dm>>
    BY <1>1, <1>2 DEF RollbackRestart, Restarts
<1>4. s \in Services /\ tries[s].back = 0
    BY <1>1, <1>3 DEF Inv, WorkerTells
<1>5. tries[s] \in Triess
    BY <1>4 DEF Inv, Typed
<1>6. t \in Triess /\ t.back = tries[s].back + 1 /\ t.go = tries[s].go /\ t.died = tries[s].died
    BY <1>2, <1>4, <1>5 DEF Triess
<1>7. Spends
    BY <1>3, NothingSpent, ErrsSpends
<1> QED
    BY <1>1, <1>3, <1>6, <1>7, CommandKeeps

\* A rollback is observed like an activation.
LEMMA RollbackObserveKeeps == ASSUME Inv, RollbackObserve PROVE Inv'
<1>1. /\ rec \in Recs /\ dm \in Daemons /\ UNCHANGED <<setting, conf, dm, svc, tries, spent>>
      /\ wk.pc = "rbobserve" /\ wk.pc \in Restored
    BY DEF RollbackObserve, Steps, Inv, Restored, Typed
<1>2. CASE rec.status # "rolling_back"
    BY <1>1, <1>2, WorkerGone, NothingSpent DEF RollbackObserve, Updates
<1>3. CASE rec.status = "rolling_back"
    <2>1. PICK s : s = wk.cur
        OBVIOUS
    <2>2. s \in Services
        BY <1>1, <2>1 DEF Inv, WorkerTells
    <2>3. rec.roll[s] \in Outcomes
        BY <1>1, <2>2 DEF Recs
    <2> DEFINE ok == Restarted(rec.roll[s], s) /\ svc[s].conf = rec.back
               o == Observed(rec.roll[s], s, ok)
    <2>4. rec' = [rec EXCEPT !.roll[s] = o] /\ wk' = Go("rbloop")
        BY <1>3, <2>1 DEF RollbackObserve, Updates
    <2>5. ok \in BOOLEAN
        BY DEF Restarted
    <2>6. ok => svc[s].conf.val # "new"
        BY <1>1 DEF Inv, WorkerTells, JournalTells
    <2> HIDE DEF ok
    <2>7. o \in Outcomes /\ (rec.roll[s].tried <=> o.tried) /\ (o.st = "succeeded" => ok)
        BY <2>2, <2>3, <2>5, OutcomeFields
    <2> HIDE DEF o
    <2>8. wk' \in Workers /\ wk'.pc = "rbloop"
        BY <2>4, GoFields DEF Rolling
    <2> QED
        BY <1>1, <1>3, <2>2, <2>4, <2>6, <2>7, <2>8, RollWritten
<1> QED
    BY <1>2, <1>3

\* A complete rollback is reported when every outcome is one.
LEMMA RollbackEndKeeps == ASSUME Inv, RollbackEnd PROVE Inv'
<1>1. /\ wk.pc = "rbend" /\ UNCHANGED <<setting, conf, dm, svc, tries, spent>> /\ wk.pc \in Rolling
      /\ rec.restored
    BY DEF RollbackEnd, Steps, Rolling, Restored, Inv, WorkerTells
<1>2. ASSUME NEW p \in {"none", "partly"}, Finish("failed", p) PROVE Inv'
    BY <1>1, <1>2, FinishKeeps, NothingSpent
<1>3. CASE Finish("failed", "restored") /\ \A s \in Services : rec.roll[s].st = "succeeded"
    BY <1>1, <1>3, FinishKeeps, NothingSpent
<1> QED
    BY <1>2, <1>3 DEF RollbackEnd

\* The invariant survives every step of the worker.
LEMMA WorkerKeeps == ASSUME Inv, Worker PROVE Inv'
    BY WorkerStartKeeps, CheckConfigKeeps, StaleConfigKeeps, ValidationKeeps, RecheckVoiceKeeps,
       BeginRestartKeeps, RestartLoopKeeps, RestartServiceKeeps, ObserveRestartKeeps,
       FinishActivationKeeps, RollbackStartKeeps, RestoreVoiceKeeps, RollbackLoopKeeps,
       RollbackRestartKeeps, RollbackObserveKeeps, RollbackEndKeeps DEF Worker

-----------------------------------------------------------------------------

\* The daemon that comes up knows of the result only if it is acknowledged.
LEMMA RestartedDaemon ==
    ASSUME Inv PROVE FreshDaemon \in Daemons /\ FreshDaemon.pc = "idle"
<1>1. NewDaemon(conf) \in Daemons /\ NewDaemon(conf).pc = "idle" /\ dm \in Daemons
    BY NewDaemonTyped DEF Inv, Typed
<1> QED
    BY <1>1 DEF Daemons, FreshDaemon

\* One service changes, and the daemon with it if the service is the daemon.
LEMMA ServiceMoves ==
    ASSUME Inv, NEW s \in Services, NEW n \in Svcs, svc' = [svc EXCEPT ![s] = n], Spends,
           dm' \in {dm, FreshDaemon}, UNCHANGED <<setting, conf, rec, wk>>,
           tries' \in [Services -> Triess], \A r \in Services \ {s} : tries'[r] = tries[r],
           tries'[s].go = tries[s].go, tries'[s].back = tries[s].back,
           Counted(s)', OutcomeTrue(s)'
    PROVE  Inv'
<1>1. /\ dm' \in Daemons /\ (dm'.pc = "idle" \/ dm' = dm) /\ svc \in [Services -> Svcs]
    BY RestartedDaemon DEF Inv, Typed
<1>2. svc' \in [Services -> Svcs] /\ \A r \in Services \ {s} : svc'[r] = svc[r]
    BY <1>1
<1>3. Typed'
    BY <1>1, <1>2 DEF Inv, Spends, Typed
<1>4. JournalTells'
    BY <1>1 DEF Inv, JournalTells
<1>5. WorkerTells'
    <2>1. \A r \in Services : tries'[r].go = tries[r].go /\ tries'[r].back = tries[r].back
        OBVIOUS
    <2> QED
        BY <2>1 DEF Inv, WorkerTells
<1>6. ASSUME NEW r \in Services \ {s} PROVE Counted(r)' /\ OutcomeTrue(r)'
    BY <1>2, <1>6 DEF Inv, Counted, Owed, OutcomeTrue, Renewed
<1> QED
    BY <1>3, <1>4, <1>5, <1>6 DEF Inv

\* What is known of a service and its counters.
LEMMA ServiceTyped ==
    ASSUME Inv, NEW s \in Services
    PROVE  /\ Counted(s) /\ OutcomeTrue(s) /\ svc \in [Services -> Svcs] /\ svc[s] \in Svcs
           /\ tries \in [Services -> Triess] /\ tries[s] \in Triess
           /\ svc[s].gen \in Nat /\ svc[s].starting \in BOOLEAN /\ svc[s].up \in BOOLEAN
           /\ tries[s].go \in 0..2 /\ tries[s].back \in 0..2 /\ tries[s].died \in Nat
           /\ rec.out[s].before \in Nat /\ rec.out[s].after \in Nat /\ conf \in Confs
           /\ (rec.restored => conf.val # "new") /\ Owed(s) \in {0, 1}
    BY DEF Inv, Typed, Svcs, Triess, Recs, Outcomes, JournalTells, Owed

\* A service comes up with the file as it is, or stays down.
LEMMA ServiceStartsKeeps ==
    ASSUME Inv, NEW s \in Services, ServiceStarts(s)
    PROVE  Inv'
<1>1. /\ svc[s].starting /\ dm' \in {dm, FreshDaemon} /\ UNCHANGED <<setting, conf, rec, wk, tries>>
      /\ Spends
    BY NothingSpent, ErrsSpends DEF ServiceStarts
<1>2. PICK n : /\ svc' = [svc EXCEPT ![s] = n]
               /\ \/ n = [gen |-> svc[s].gen + 1, up |-> TRUE, conf |-> conf, starting |-> FALSE]
                  \/ n = [svc[s] EXCEPT !.starting = FALSE, !.up = FALSE]
    <2>1. CASE svc' = [svc EXCEPT ![s] = [gen |-> @.gen + 1, up |-> TRUE, conf |-> conf,
                                          starting |-> FALSE]]
        BY <2>1
    <2>2. CASE svc' = [svc EXCEPT ![s].starting = FALSE, ![s].up = FALSE]
        <3>1. svc' = [svc EXCEPT ![s] = [svc[s] EXCEPT !.starting = FALSE, !.up = FALSE]]
            BY <2>2, ServiceTyped
        <3> QED
            BY <3>1
    <2> QED
        BY <2>1, <2>2 DEF ServiceStarts
<1>3. /\ n \in Svcs /\ ~n.starting
      /\ \/ n.gen = svc[s].gen + 1 /\ n.conf = conf
         \/ n.gen = svc[s].gen /\ ~n.up /\ n.conf = svc[s].conf
    <2>1. CASE n = [gen |-> svc[s].gen + 1, up |-> TRUE, conf |-> conf, starting |-> FALSE]
        BY <2>1, ServiceTyped DEF Svcs
    <2>2. CASE n = [svc[s] EXCEPT !.starting = FALSE, !.up = FALSE]
        BY <2>2, ServiceTyped DEF Svcs
    <2> QED
        BY <1>2, <2>1, <2>2
<1>4. svc'[s] = n
    BY <1>2, ServiceTyped
<1>5. Counted(s)'
    <2>1. /\ svc[s].gen \in Nat /\ tries[s].go \in 0..2 /\ tries[s].back \in 0..2
          /\ tries[s].died \in Nat /\ rec.out[s].before \in Nat /\ Counted(s)
        BY ServiceTyped
    <2>2. Owed(s) = 1 /\ Owed(s)' = 0
        BY <1>1, <1>3, <1>4 DEF Owed
    <2> QED
        BY <1>1, <1>3, <1>4, <2>1, <2>2 DEF Counted
<1>6. OutcomeTrue(s)'
    BY <1>1, <1>3, <1>4, ServiceTyped DEF OutcomeTrue, Renewed
<1> QED
    BY <1>1, <1>2, <1>3, <1>5, <1>6, ServiceTyped, ServiceMoves

\* A service that dies is started again with the file as it is by then.
LEMMA DiesKeeps ==
    ASSUME Inv, NEW s \in Services, Dies(s), svc[s].up, Spends, dm' \in {dm, FreshDaemon},
           UNCHANGED <<setting, conf, rec, wk>>
    PROVE  Inv'
<1>1. PICK n : n = [svc[s] EXCEPT !.up = FALSE, !.starting = TRUE]
    OBVIOUS
<1>2. PICK t : t = [tries[s] EXCEPT !.died = @ + 1]
    OBVIOUS
<1>3. /\ n \in Svcs /\ ~n.up /\ n.starting /\ n.gen = svc[s].gen /\ n.conf = svc[s].conf
      /\ svc' = [svc EXCEPT ![s] = n] /\ svc'[s] = n
    BY <1>1, ServiceTyped DEF Svcs, Dies
<1>4. t \in Triess /\ t.go = tries[s].go /\ t.back = tries[s].back /\ t.died = tries[s].died + 1
    BY <1>2, ServiceTyped DEF Triess
<1>5. /\ tries' \in [Services -> Triess] /\ tries'[s] = t
      /\ \A r \in Services \ {s} : tries'[r] = tries[r]
    BY <1>2, <1>4, ServiceTyped DEF Dies
<1>6. Counted(s)'
    <2>1. /\ svc[s].gen \in Nat /\ tries[s].go \in 0..2 /\ tries[s].back \in 0..2
          /\ tries[s].died \in Nat /\ Owed(s) \in {0, 1} /\ Counted(s)
        BY ServiceTyped
    <2>2. Owed(s)' = 1
        BY <1>3 DEF Owed
    <2>3. svc[s].gen + 1 <= 1 + tries[s].go + tries[s].back + (tries[s].died + 1)
        BY <2>1 DEF Counted
    <2>4. svc'[s].gen = svc[s].gen /\ rec' = rec /\ wk' = wk
        BY <1>3
    <2> QED
        BY <1>4, <1>5, <2>1, <2>2, <2>3, <2>4 DEF Counted
<1>7. OutcomeTrue(s)'
    BY <1>3, <1>4, <1>5, ServiceTyped DEF OutcomeTrue, Renewed
<1> QED
    BY <1>3, <1>4, <1>5, <1>6, <1>7, ServiceMoves

\* Whatever others do to the file, the new value does not come from them, and a value set
\* under the lock does not come while the lock is held.
LEMMA OutsideEditKeeps == ASSUME Inv, OutsideEdit PROVE Inv'
<1>1. /\ conf \in Confs /\ spent \in Spendings /\ spent.edits < MaxEdits
      /\ spent' = [spent EXCEPT !.edits = @ + 1]
      /\ UNCHANGED <<setting, rec, dm, wk, svc, tries>>
    BY DEF Inv, OutsideEdit, Typed
<1>2. spent.edits + 1 \in 0..MaxEdits
    BY <1>1, ActivationConstants DEF Spendings
<1>3. spent' \in Spendings
    BY <1>1, <1>2 DEF Spendings
<1>4. ASSUME NEW v \in {conf.val, "set", "third"}
      PROVE  Edits(v) \in Confs /\ Edits(v).val = v
    BY <1>1, <1>2 DEF Edits, Confs, Foreign
<1>5. /\ conf' \in Confs /\ conf'.val \in {conf.val, "set", "third"}
      /\ conf'.val = "set" => conf.val = "set" \/ ~Locked
    BY <1>4 DEF OutsideEdit
<1>6. Typed'
    BY <1>1, <1>3, <1>5 DEF Inv, Typed
<1>7. JournalTells'
    BY <1>1, <1>5 DEF Inv, JournalTells, Locked
<1>8. WorkerTells'
    BY <1>1 DEF Inv, WorkerTells
<1>9. ASSUME NEW s \in Services PROVE Counted(s)' /\ OutcomeTrue(s)'
    BY <1>1 DEF Inv, Counted, Owed, OutcomeTrue, Renewed
<1> QED
    BY <1>6, <1>7, <1>8, <1>9 DEF Inv

\* The daemon, the worker and any service may die at any time.
LEMMA CrashKeeps ==
    ASSUME Inv, DaemonCrash \/ WorkerCrash \/ \E s \in Services : ServiceCrash(s)
    PROVE  Inv'
<1>1. CASE DaemonCrash
    <2>1. Spends /\ dm' = FreshDaemon /\ UNCHANGED <<setting, conf, rec, wk>>
        BY <1>1, CrashSpends DEF DaemonCrash
    <2>2. CASE Wake = 0
        BY <1>1, <2>1, <2>2, RestartedDaemon, DaemonMoves DEF DaemonCrash
    <2>3. CASE Wake # 0
        <3>1. Wake \in Services /\ Dies(Wake) /\ svc[Wake].up
            BY <1>1, <2>3, ActivationConstants DEF DaemonCrash, DaemonUp
        <3> QED
            BY <2>1, <3>1, DiesKeeps
    <2> QED
        BY <2>2, <2>3
<1>2. CASE WorkerCrash
    BY <1>2, CrashSpends, WorkerGone DEF WorkerCrash
<1>3. ASSUME NEW s \in Services, ServiceCrash(s) PROVE Inv'
    BY <1>3, CrashSpends, DiesKeeps DEF ServiceCrash
<1> QED
    BY <1>1, <1>2, <1>3

-----------------------------------------------------------------------------

\* The invariant holds before the change.
LEMMA InitInv == ASSUME Init PROVE Inv
<1> DEFINE fresh == [s \in Services |-> Fresh]
           zero == [go |-> 0, back |-> 0, died |-> 0]
<1>1. fresh \in [Services -> Outcomes] /\ \A s \in Services : fresh[s] = Fresh
    BY StartTyped
<1>2. zero \in Triess /\ zero.go = 0 /\ zero.back = 0 /\ zero.died = 0
    BY DEF Triess
<1>3. rec = [status |-> "none", delivered |-> FALSE, expected |-> Start,
             out |-> fresh, asked |-> FALSE, validated |-> FALSE,
             restored |-> FALSE, back |-> Start, roll |-> fresh,
             proof |-> "none", ack |-> FALSE]
    BY DEF Init
<1>4. tries = [s \in Services |-> zero]
    BY DEF Init
<1> HIDE DEF fresh, zero
<1>5. rec \in Recs
    BY <1>1, <1>3, StartTyped DEF Recs, Statuses
<1>6. rec.status = "none" /\ ~rec.restored /\ rec.out = fresh /\ rec.roll = fresh /\ rec.proof = "none"
    BY <1>3
<1>7. tries \in [Services -> Triess] /\ \A s \in Services : tries[s].go = 0 /\ tries[s].back = 0 /\ tries[s].died = 0
    BY <1>2, <1>4
<1>8. dm \in Daemons /\ dm.pc = "idle"
    <2>1. dm = NewDaemon(Start)
        BY DEF Init
    <2> QED
        BY <2>1, StartTyped, NewDaemonTyped
<1>9. spent \in Spendings
    BY ActivationConstants DEF Init, Spendings
<1>10. ASSUME NEW s \in Services
       PROVE  svc[s] \in Svcs /\ svc[s].gen = 1 /\ ~svc[s].starting
    <2>1. PICK u \in BOOLEAN : svc[s] = [gen |-> 1, up |-> u, conf |-> Start, starting |-> FALSE]
        BY DEF Init
    <2> QED
        BY <2>1, StartTyped DEF Svcs
<1>11. svc \in [Services -> Svcs]
    BY <1>10 DEF Init
<1>12. Typed
    BY <1>5, <1>7, <1>8, <1>9, <1>11, StartTyped DEF Init, Typed
<1>13. JournalTells
    BY <1>6, <1>8, <1>9, StartTyped DEF Init, JournalTells
<1>14. WorkerTells
    BY StartTyped DEF Init, WorkerTells, Looping, Rolling, Restored, Forward
<1>15. ASSUME NEW s \in Services PROVE Counted(s) /\ OutcomeTrue(s)
    BY <1>1, <1>6, <1>7, <1>10, StartTyped DEF Counted, Owed, OutcomeTrue, Renewed
<1> QED
    BY <1>12, <1>13, <1>14, <1>15 DEF Inv

\* Every step preserves the invariant.
LEMMA NextInv == ASSUME Inv, [Next]_vars PROVE Inv'
<1>1. CASE UNCHANGED vars
    <2>1. UNCHANGED <<setting, conf, rec, dm, wk, svc, tries, spent>> /\ dm \in Daemons
        BY <1>1 DEF vars, Inv, Typed
    <2> QED
        BY <2>1, DaemonMoves, NothingSpent
<1>2. CASE Next
    BY <1>2, CommitKeeps, OfferKeeps, DaemonKeeps, WorkerKeeps, ServiceStartsKeeps,
       OutsideEditKeeps, CrashKeeps DEF Next, Answer
<1> QED
    BY <1>1, <1>2

\* Every reachable state satisfies the inductive invariant: the journal, the worker, the
\* commands given and the services agree, whoever dies in between.
THEOREM ActivationInvariant == Spec => []Inv
<1>1. Init => Inv
    BY InitInv
<1>2. Inv /\ [Next]_vars => Inv'
    BY NextInv
<1> QED
    BY <1>1, <1>2, PTL DEF Spec

\* Every variable keeps its type; in particular a service that does not die comes up at most
\* twice more.
THEOREM TypeCorrect == Spec => []TypeOK
<1>1. {"off", "start"} \cup Forward \cup Rolling =
        {"off", "start", "check", "stale", "validate", "call", "recheck", "rechecked", "begin",
         "loop", "restart", "observe", "final", "rb", "rbread", "rbwrite", "rbload", "rbproof",
         "rbloop", "rbrestart", "rbobserve", "rbend"}
    BY DEF Forward, Rolling
<1>2. Inv => TypeOK
    <2> SUFFICES ASSUME Inv PROVE TypeOK
        OBVIOUS
    <2>1. ASSUME NEW s \in Services PROVE svc[s].gen <= 3 + tries[s].died
        <3>1. /\ svc[s].gen + Owed(s) <= 1 + tries[s].go + tries[s].back + tries[s].died
              /\ tries[s].go <= 1 /\ tries[s].back <= 1
            BY ServiceTyped DEF Counted, Owed
        <3>2. /\ svc[s].gen \in Nat /\ Owed(s) \in {0, 1} /\ tries[s].go \in 0..2
              /\ tries[s].back \in 0..2 /\ tries[s].died \in Nat
            BY ServiceTyped
        <3> QED
            BY <3>1, <3>2
    <2> QED
        BY <1>1, <2>1 DEF TypeOK, Inv, Typed, Recs, Daemons, Workers, Svcs, Triess, Spendings
<1> QED
    BY <1>2, ActivationInvariant, PTL

\* No restart is repeated: a service is told to restart at most once to activate the change
\* and at most once to take it back.
THEOREM NeverRestartedTwice == Spec => []RestartedAtMostOnce
<1>1. Inv => RestartedAtMostOnce
    BY DEF Inv, Counted, Owed, RestartedAtMostOnce
<1> QED
    BY <1>1, ActivationInvariant, PTL

\* A reported success has every service up as another process than before with the new value,
\* unless it has died by itself since; a reported complete rollback has none of them on the
\* value that was taken back.
THEOREM TruthfulResult == Spec => []ReportedIsReal
<1>1. Inv => ReportedIsReal
    <2> SUFFICES ASSUME Inv PROVE ReportedIsReal
        OBVIOUS
    <2>1. ASSUME rec.status = "succeeded", NEW s \in Services
          PROVE  /\ rec.out[s].after > rec.out[s].before
                 /\ svc[s].gen = rec.out[s].after => svc[s].conf.val = "new"
                 /\ (svc[s].gen = rec.out[s].after /\ svc[s].up) \/ tries[s].died > 0
        <3>1. rec.out[s].st = "succeeded"
            BY <2>1 DEF Inv, JournalTells
        <3> QED
            BY <2>1, <3>1, ServiceTyped DEF Counted, Owed, OutcomeTrue, Renewed, NotRolledBack
    <2>2. ASSUME rec.proof = "restored", NEW s \in Services, svc[s].up
          PROVE  svc[s].conf.val # "new"
        BY <2>2 DEF Inv, JournalTells, OutcomeTrue
    <2> QED
        BY <2>1, <2>2 DEF ReportedIsReal
<1> QED
    BY <1>1, ActivationInvariant, PTL

\* What another command set under the file's lock is never overwritten by the activation or
\* its rollback, nor what an editor saved, unless it did so between their load and their write.
THEOREM OthersValueKept == Spec => ForeignValueKept
<1> DEFINE Kept ==
      /\ conf.val = "set" => conf'.val \in Foreign
      /\ conf.val = "third" /\ conf'.val \notin Foreign =>
           \/ wk.pc = "rbwrite" /\ wk.seen.val = "new"
           \/ dm.pc = "commit" /\ dm.read.val = "old"
<1>1. ASSUME Inv, [Next]_vars PROVE Kept
    <2>1. ASSUME UNCHANGED conf PROVE Kept
        BY <2>1 DEF Foreign
    <2>2. CASE UNCHANGED vars
        BY <2>1, <2>2 DEF vars
    <2>3. CASE OutsideEdit
        <3>1. conf \in Confs
            BY <1>1 DEF Inv, Typed
        <3>2. \A v \in {conf.val, "set", "third"} : Edits(v).val = v
            BY <3>1 DEF Edits, Confs
        <3>3. conf'.val \in {conf.val, "set", "third"}
            BY <2>3, <3>2 DEF OutsideEdit
        <3> QED
            BY <3>3 DEF Foreign
    <2>4. CASE Answer
        <3>1. CASE Commit
            BY <1>1, <2>1, <3>1 DEF Inv, JournalTells, Commit
        <3>2. CASE Accept \/ Decline
            BY <2>1, <3>2 DEF Accept, Decline, Journal
        <3> QED
            BY <2>4, <3>1, <3>2 DEF Answer
    <2>5. CASE Daemon
        BY <2>1, <2>5 DEF Daemon, CreateOffer, DeliverOffer, DeliverPreRestart, TellResult,
           Acknowledge, Dispatch, DispatchFails, PollWorker, Journal
    <2>6. CASE Worker
        <3>1. CASE RestoreVoice
            BY <1>1, <2>1, <3>1 DEF RestoreVoice, Inv, JournalTells, Steps
        <3>2. CASE Worker /\ ~RestoreVoice
            BY <2>1, <3>2 DEF Worker, WorkerStart, CheckConfig, StaleConfig, BeginVoiceValidation,
               ValidateVoice, RecheckVoice, BeginRestart, RestartLoop, RestartService,
               ObserveRestart, FinishActivation, RollbackStart, RollbackLoop, RollbackRestart,
               RollbackObserve, RollbackEnd, Steps, Restarts
        <3> QED
            BY <2>6, <3>1, <3>2
    <2>7. CASE \/ \E s \in Services : ServiceStarts(s) \/ ServiceCrash(s)
               \/ DaemonCrash \/ WorkerCrash
        BY <2>1, <2>7 DEF ServiceStarts, ServiceCrash, DaemonCrash, WorkerCrash
    <2> QED
        BY <1>1, <2>2, <2>3, <2>4, <2>5, <2>6, <2>7 DEF Next
<1>2. Inv /\ [Next]_vars => [Kept]_vars
    BY <1>1
<1> QED
    BY <1>2, ActivationInvariant, PTL DEF Spec, ForeignValueKept
=============================================================================
