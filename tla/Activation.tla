----------------------------- MODULE Activation -----------------------------
(***************************************************************************)
(* Activating a confirmed configuration change: config_activation.py, the  *)
(* part of wake/daemon.py that offers, delivers and dispatches it, and     *)
(* commit_config_change of config_management.py.                           *)
(*                                                                         *)
(* A change the user confirmed is written to the configuration file and an *)
(* activation is offered.  Accepted, it is carried out by a worker process *)
(* of its own, because the services to restart may include the daemon that *)
(* launched it: the worker restarts each service once, observes that a new *)
(* process came up with the expected configuration, and records the        *)
(* outcome in a journal.  A voice is first tried out with the provider,    *)
(* and rolled back when anything goes wrong.                               *)
(*                                                                         *)
(* The journal is rewritten atomically.  The configuration file is loaded, *)
(* compared and rewritten as a whole under an advisory lock, which other   *)
(* commands that set a value take, and editors and reset_config do not.    *)
(* Any service may die at any moment; systemd starts it again with the     *)
(* file as it is then.  A configuration is the value of the changed        *)
(* setting and a version of everything else, and stands for its digest.    *)
(***************************************************************************)
EXTENDS Naturals, FiniteSets, FiniteSetsExt

CONSTANTS
    Settings,    \* a subset of {"voice", "other"}: the kind of setting changed
    S,           \* the number of services to restart, restarted in this order
    Wake,        \* the daemon's own service among them, or 0
    MaxEdits,    \* bound on edits of the configuration file by others
    MaxErrors,   \* bound on launches, commands and starts that fail
    MaxCrashes,  \* bound on processes that die
    MaxTroubles  \* bound on all of these together

ASSUME ActivationConstants ==
    /\ Settings \subseteq {"voice", "other"}
    /\ S \in Nat \ {0} /\ Wake \in 0..S
    /\ MaxEdits \in Nat /\ MaxErrors \in Nat /\ MaxCrashes \in Nat /\ MaxTroubles \in Nat

VARIABLES
    setting,  \* what is changed
    conf,     \* the configuration file
    rec,      \* the activation journal
    dm,       \* the daemon
    wk,       \* the worker process
    svc,      \* the services
    tries,    \* how often each service was told to restart, to activate and to roll back,
              \* and how often it died by itself
    spent     \* how much of each bound is used up

vars == <<setting, conf, rec, dm, wk, svc, tries, spent>>

Services == 1..S
Foreign == {"set", "third"}
Confs == [val : {"old", "new"} \cup Foreign, rest : 0..MaxEdits]
Final == {"succeeded", "partial", "failed", "declined"}
Executable == {"ready", "validating", "restarting", "rolling_back"}
Statuses == {"none", "offered", "accepted"} \cup Executable \cup Final
Outcomes == [st : {"pending", "succeeded", "failed"}, tried : BOOLEAN, before : Nat,
             after : Nat]
Start == [val |-> "old", rest |-> 0]
Fresh == [st |-> "pending", tried |-> FALSE, before |-> 0, after |-> 0]
Voice == setting = "voice"

TypeOK ==
    /\ setting \in Settings
    /\ conf \in Confs
    /\ rec \in [status : Statuses, delivered : BOOLEAN, expected : Confs,
                out : [Services -> Outcomes], asked : BOOLEAN, validated : BOOLEAN,
                restored : BOOLEAN, back : Confs, roll : [Services -> Outcomes],
                proof : {"none", "restored", "partly"}, ack : BOOLEAN]
    /\ dm \in [held : 0..MaxEdits, pc : {"idle", "commit", "offer"}, read : Confs,
               attempts : 0..2, launched : {"none", "ours", "refused"}, told : {"none"} \cup Final]
    /\ wk \in [pc : {"off", "start", "check", "stale", "validate", "call", "recheck",
                     "rechecked", "begin", "loop", "restart", "observe", "final", "rb",
                     "rbread", "rbwrite", "rbload", "rbproof", "rbloop", "rbrestart",
                     "rbobserve", "rbend"}, seen : Confs, cur : 0..S]
    /\ svc \in [Services -> [gen : Nat, up : BOOLEAN, conf : Confs, starting : BOOLEAN]]
    /\ tries \in [Services -> [go : 0..2, back : 0..2, died : Nat]]
    /\ \A s \in Services : svc[s].gen <= 3 + tries[s].died
    /\ spent \in [edits : 0..MaxEdits, errors : 0..MaxErrors, crashes : 0..MaxCrashes]

Off == [pc |-> "off", seen |-> Start, cur |-> 0]
NewDaemon(c) == [held |-> c.rest, pc |-> "idle", read |-> Start, attempts |-> 0, launched |-> "none",
                 told |-> "none"]

Init ==
    /\ setting \in Settings
    /\ conf = Start
    /\ rec = [status |-> "none", delivered |-> FALSE, expected |-> Start,
              out |-> [s \in Services |-> Fresh], asked |-> FALSE, validated |-> FALSE,
              restored |-> FALSE, back |-> Start, roll |-> [s \in Services |-> Fresh],
              proof |-> "none", ack |-> FALSE]
    /\ dm = NewDaemon(Start)
    /\ wk = Off
    /\ svc \in [Services -> {[gen |-> 1, up |-> u, conf |-> Start, starting |-> FALSE] :
                               u \in BOOLEAN}]
    /\ Wake # 0 => svc[Wake].up
    /\ tries = [s \in Services |-> [go |-> 0, back |-> 0, died |-> 0]]
    /\ spent = [edits |-> 0, errors |-> 0, crashes |-> 0]

Troubles == spent.edits + spent.errors + spent.crashes
Errs == /\ spent.errors < MaxErrors /\ Troubles < MaxTroubles
        /\ spent' = [spent EXCEPT !.errors = @ + 1]
Crashes == /\ spent.crashes < MaxCrashes /\ Troubles < MaxTroubles
           /\ spent' = [spent EXCEPT !.crashes = @ + 1]

(***************************************************************************)
(* The daemon: writing the change, offering and delivering its activation. *)
(***************************************************************************)

\* The daemon may be one of the services
DaemonUp == Wake = 0 \/ svc[Wake].up

\* commit_pending_change: under the file's lock the file is loaded, and written when the
\* value is still the one shown
Commit ==
    \/ /\ dm.pc = "idle" /\ rec.status = "none" /\ conf.val = "old"
       /\ dm' = [dm EXCEPT !.pc = "commit", !.read = conf]
       /\ UNCHANGED <<setting, conf, rec, wk, svc, tries, spent>>
    \/ /\ dm.pc = "commit"
       /\ conf' = [dm.read EXCEPT !.val = "new"]
       /\ dm' = [dm EXCEPT !.pc = "offer", !.read = Start]
       /\ UNCHANGED <<setting, rec, wk, svc, tries, spent>>

\* create_offer: the expected configuration is the daemon's own with the change applied
CreateOffer ==
    /\ dm.pc = "offer"
    /\ rec' = [rec EXCEPT !.status = "offered", !.expected = [val |-> "new", rest |-> dm.held]]
    /\ dm' = [dm EXCEPT !.pc = "idle"]
    /\ UNCHANGED <<setting, conf, wk, svc, tries, spent>>

Journal(old, j) == /\ rec.status = old
                   /\ rec' = j
                   /\ UNCHANGED <<setting, conf, dm, wk, svc, tries, spent>>

\* A message that was played to its end is marked in the journal
DeliverOffer == /\ ~rec.delivered
                /\ Journal("offered", [rec EXCEPT !.delivered = TRUE])
DeliverPreRestart == Journal("accepted", [rec EXCEPT !.status = "ready"])

\* _resolve_activation_confirmation: a separate, explicit answer
Accept == rec.delivered /\ Journal("offered", [rec EXCEPT !.status = "accepted"])
Decline == rec.delivered /\ Journal("offered", [rec EXCEPT !.status = "declined"])

\* The result as the journal has it is played, and acknowledged after
TellResult == /\ rec.status \in Final /\ ~rec.ack /\ dm.told = "none"
              /\ dm' = [dm EXCEPT !.told = rec.status]
              /\ UNCHANGED <<setting, conf, rec, wk, svc, tries, spent>>

Acknowledge == /\ dm.told # "none" /\ ~rec.ack
               /\ IF rec.status \in Final
                  THEN rec' = [rec EXCEPT !.ack = TRUE] /\ UNCHANGED dm
                  ELSE dm' = [dm EXCEPT !.told = "none"] /\ UNCHANGED rec
               /\ UNCHANGED <<setting, conf, wk, svc, tries, spent>>

(***************************************************************************)
(* The daemon: dispatching the worker.                                     *)
(***************************************************************************)

BeginsRollback == [rec EXCEPT !.status = "rolling_back",
                              !.roll = [s \in Services |-> Fresh]]

MoreAttempts == IF dm.attempts < 2 THEN dm.attempts + 1 ELSE 2

\* launch_activation_worker: the scope is named after the activation, so a second worker
\* beside the first ends at once
Dispatch ==
    /\ rec.status \in Executable /\ dm.launched = "none"
    /\ dm' = [dm EXCEPT !.attempts = MoreAttempts,
                        !.launched = IF wk.pc = "off" THEN "ours" ELSE "refused"]
    /\ wk' = IF wk.pc = "off" THEN [Off EXCEPT !.pc = "start"] ELSE wk
    /\ UNCHANGED <<setting, conf, rec, svc, tries, spent>>

DispatchFails ==
    /\ rec.status \in Executable /\ dm.launched = "none"
    /\ Errs
    /\ dm' = [dm EXCEPT !.attempts = MoreAttempts]
    /\ rec' = IF ~Voice THEN [rec EXCEPT !.status = "failed"]
              ELSE IF \/ rec.status = "restarting"
                      \/ rec.status \in {"ready", "validating"} /\ MoreAttempts = 2
              THEN BeginsRollback
              ELSE rec
    /\ UNCHANGED <<setting, conf, wk, svc, tries>>

\* Mutant: the handle of a worker that ended is never dropped.
KeepsHandle ==
    /\ dm.launched = "refused"
    /\ dm' = [dm EXCEPT !.launched = "none"]
    /\ UNCHANGED <<setting, conf, rec, wk, svc, tries, spent>>

\* _recover_config_activation: a worker that ended without a result is launched again, once
PollWorker ==
    /\ dm.launched = "refused" \/ (dm.launched = "ours" /\ wk.pc = "off")
    /\ dm' = [dm EXCEPT !.launched = "none"]
    /\ rec' = IF rec.status \notin Executable \/ dm.attempts < 2 THEN rec
              ELSE IF ~Voice THEN [rec EXCEPT !.status = "failed"]
              ELSE IF rec.status # "rolling_back" THEN BeginsRollback
              ELSE rec
    /\ UNCHANGED <<setting, conf, wk, svc, tries, spent>>

(***************************************************************************)
(* The worker: _execute_activation.                                        *)
(***************************************************************************)

Go(l) == [wk EXCEPT !.pc = l, !.seen = Start]
Reads(l) == [wk EXCEPT !.pc = l, !.seen = conf]

\* A transition of the journal from a status it is not in raises, and the worker ends
Updates(from, j, w) == IF rec.status \in from THEN rec' = j /\ wk' = w
                                              ELSE rec' = rec /\ wk' = Off

RollsBack == Updates({"ready", "validating", "restarting"}, BeginsRollback, Go("rb"))

\* finish asks for no status
Finish(status, p) == /\ rec' = [rec EXCEPT !.status = status, !.proof = p]
                     /\ wk' = Off

Steps(l) == wk.pc = l /\ UNCHANGED <<setting, conf, dm, svc, tries, spent>>

\* An attempted validation whose result is not in the journal is not repeated
WorkerStart ==
    /\ Steps("start")
    /\ CASE rec.status = "rolling_back" -> rec' = rec /\ wk' = Go("rb")
         [] rec.status = "validating" -> RollsBack
         [] rec.status \in {"ready", "restarting"} -> rec' = rec /\ wk' = Reads("check")
         [] OTHER -> rec' = rec /\ wk' = Off

CheckConfig ==
    /\ Steps("check")
    /\ IF wk.seen # rec.expected /\ Voice /\ wk.seen.val # "new" THEN RollsBack
       ELSE IF wk.seen # rec.expected /\ ~Voice
       THEN IF rec.status = "ready"
            THEN Updates({"ready"}, [rec EXCEPT !.status = "restarting"], Go("stale"))
            ELSE Finish("failed", "none")
       ELSE /\ rec' = rec
            /\ wk' = Go(IF rec.status # "ready" THEN "loop"
                        ELSE IF ~Voice THEN "begin"
                        ELSE IF rec.validated THEN "recheck" ELSE "validate")

StaleConfig == Steps("stale") /\ Finish("failed", "none")

\* begin_voice_validation is in the journal before the provider is asked
BeginVoiceValidation ==
    /\ Steps("validate")
    /\ IF rec.asked THEN rec' = rec /\ wk' = Off
       ELSE Updates({"ready"}, [rec EXCEPT !.status = "validating", !.asked = TRUE],
                    Go("call"))

ValidateVoice ==
    /\ Steps("call")
    /\ \/ Updates({"validating"}, [rec EXCEPT !.status = "ready", !.validated = TRUE],
                  Go("recheck"))
       \/ RollsBack

\* The file is read again: a voice that was replaced is not activated, and other edits
\* become part of what is expected
RecheckVoice ==
    \/ Steps("recheck") /\ rec' = rec /\ wk' = Reads("rechecked")
    \/ /\ Steps("rechecked")
       /\ IF wk.seen.val # "new" THEN RollsBack
          ELSE IF wk.seen # rec.expected
          THEN Updates({"ready"}, [rec EXCEPT !.expected = wk.seen], Go("begin"))
          ELSE rec' = rec /\ wk' = Go("begin")

\* begin_restart: a service that is not running is never started
BeginRestart ==
    /\ Steps("begin")
    /\ Updates({"ready"},
               [rec EXCEPT !.status = "restarting",
                           !.out = [s \in Services |->
                                      [Fresh EXCEPT !.before = svc[s].gen,
                                                    !.st = IF svc[s].up THEN "pending"
                                                                        ELSE "failed"]]],
               Go("loop"))

Pending(outs) == {s \in Services : outs[s].st = "pending"}

\* Mutant: the attempt is recorded only with its outcome.
NotYetTried(o) == o

\* The attempt is in the journal before the command is given
Tried(o) == [o EXCEPT !.tried = TRUE]

RestartLoop ==
    /\ Steps("loop")
    /\ IF Pending(rec.out) = {} THEN rec' = rec /\ wk' = Reads("final")
       ELSE LET s == Min(Pending(rec.out)) IN
            IF rec.out[s].tried THEN rec' = rec /\ wk' = [Go("observe") EXCEPT !.cur = s]
            ELSE Updates({"restarting"}, [rec EXCEPT !.out[s] = Tried(@)],
                         [Go("restart") EXCEPT !.cur = s])

\* try_restart: the command takes effect later, or not at all
Restarts(l, next, field) ==
    /\ wk.pc = l
    /\ tries' = [tries EXCEPT ![wk.cur] = field]
    /\ wk' = Go(next)
    /\ \/ /\ svc' = [svc EXCEPT ![wk.cur].starting = @ \/ svc[wk.cur].up]
          /\ UNCHANGED spent
       \/ Errs /\ UNCHANGED svc
    /\ UNCHANGED <<setting, conf, rec, dm>>

RestartService == Restarts("restart", "observe",
                           [tries[wk.cur] EXCEPT !.go = @ + 1])

\* _observe_restart: another process than before
Restarted(o, s) == svc[s].up /\ o.before # 0 /\ svc[s].gen # o.before

Matches(c) == c = rec.expected \/ (Voice /\ c.val = "new")

\* Mutant: a command that was given counts as carried out.
GivenIsDone(o, s, ok) == [o EXCEPT !.st = "succeeded", !.after = svc[s].gen]

\* The process that was looked at is in the journal with the outcome
Observed(o, s, ok) == [o EXCEPT !.st = IF ok THEN "succeeded" ELSE "failed",
                                !.after = svc[s].gen]

ObserveRestart ==
    LET s == wk.cur IN
    /\ Steps("observe")
    /\ Updates({"restarting"},
               [rec EXCEPT !.out[s] = Observed(@, s, Restarted(@, s) /\ Matches(svc[s].conf))],
               Go("loop"))

Succeeded == {s \in Services : rec.out[s].st = "succeeded"}

\* The result, by the outcomes and by the file as it was read last
FinishActivation ==
    /\ Steps("final")
    /\ IF Voice /\ (wk.seen.val # "new" \/ Succeeded # Services) THEN RollsBack
       ELSE Finish(CASE Voice -> "succeeded"
                     [] ~Voice /\ wk.seen = rec.expected /\ Succeeded = Services -> "succeeded"
                     [] OTHER -> IF Succeeded = {} THEN "failed" ELSE "partial",
                   "none")

(***************************************************************************)
(* The worker: _execute_voice_rollback.                                    *)
(***************************************************************************)

RollbackStart ==
    /\ Steps("rb")
    /\ rec' = rec
    /\ wk' = IF rec.restored THEN Go("rbloop") ELSE Reads("rbread")

MarksRestored == Updates({"rolling_back"}, [rec EXCEPT !.restored = TRUE, !.back = wk.seen],
                         Go("rbloop"))

\* Mutant: a voice the user chose since is overwritten too.
AnyVoice(v) == v # "old"

\* Only the voice this activation wrote is taken back
OwnVoice(v) == v = "new"

\* _restore_previous_voice: under the file's lock the file is loaded once more, and written
\* if the voice is still the new one
RestoreVoice ==
    \/ /\ Steps("rbread")
       /\ IF wk.seen.val = "old" THEN MarksRestored
          ELSE IF OwnVoice(wk.seen.val) /\ OwnVoice(conf.val)
          THEN rec' = rec /\ wk' = Reads("rbwrite")
          ELSE Finish("failed", "none")
    \/ /\ wk.pc = "rbwrite"
       /\ \/ /\ conf' = [wk.seen EXCEPT !.val = "old"]
             /\ wk' = Go("rbload")
             /\ UNCHANGED <<rec, spent>>
          \/ /\ Errs
             /\ Finish("failed", "none")
             /\ UNCHANGED conf
       /\ UNCHANGED <<setting, dm, svc, tries>>
    \/ Steps("rbload") /\ rec' = rec /\ wk' = Reads("rbproof")
    \/ /\ Steps("rbproof")
       /\ IF wk.seen.val = "old" THEN MarksRestored ELSE Finish("failed", "none")

RollbackLoop ==
    /\ Steps("rbloop")
    /\ IF Pending(rec.roll) = {} THEN rec' = rec /\ wk' = Reads("rbend")
       ELSE LET s == Min(Pending(rec.roll)) IN
            IF rec.roll[s].tried THEN rec' = rec /\ wk' = [Go("rbobserve") EXCEPT !.cur = s]
            ELSE IF svc[s].up /\ svc[s].conf # rec.back
            THEN Updates({"rolling_back"},
                         [rec EXCEPT !.roll[s] = [Tried(@) EXCEPT !.before = svc[s].gen]],
                         [Go("rbrestart") EXCEPT !.cur = s])
            ELSE Updates({"rolling_back"},
                         [rec EXCEPT !.roll[s] = Observed(@, s, svc[s].up)], Go("rbloop"))

RollbackRestart == Restarts("rbrestart", "rbobserve",
                            [tries[wk.cur] EXCEPT !.back = @ + 1])

RollbackObserve ==
    LET s == wk.cur IN
    /\ Steps("rbobserve")
    /\ Updates({"rolling_back"},
               [rec EXCEPT !.roll[s] = Observed(@, s, Restarted(@, s) /\ svc[s].conf = rec.back)],
               Go("rbloop"))

RollbackEnd ==
    /\ Steps("rbend")
    /\ Finish("failed", IF wk.seen # rec.back THEN "none"
                        ELSE IF \A s \in Services : rec.roll[s].st = "succeeded"
                        THEN "restored" ELSE "partly")

(***************************************************************************)
(* Services, editors and crashes.                                          *)
(***************************************************************************)

\* The daemon's memory is gone with its process
FreshDaemon == [NewDaemon(conf) EXCEPT !.told = IF rec.ack THEN dm.told ELSE @]

\* A service comes up as a new process with the file as it is then, or does not come up.
\* The daemon is one of them
ServiceStarts(s) ==
    /\ svc[s].starting
    /\ \/ /\ svc' = [svc EXCEPT ![s] = [gen |-> @.gen + 1, up |-> TRUE, conf |-> conf,
                                        starting |-> FALSE]]
          /\ UNCHANGED spent
       \/ /\ s # Wake /\ Errs
          /\ svc' = [svc EXCEPT ![s].starting = FALSE, ![s].up = FALSE]
    /\ dm' = IF s = Wake THEN FreshDaemon ELSE dm
    /\ UNCHANGED <<setting, conf, rec, wk, tries>>

\* Restart=on-failure: a service that dies is started again
Dies(s) == /\ svc' = [svc EXCEPT ![s].up = FALSE, ![s].starting = TRUE]
           /\ tries' = [tries EXCEPT ![s].died = @ + 1]

ServiceCrash(s) ==
    /\ s # Wake /\ svc[s].up
    /\ Crashes
    /\ Dies(s)
    /\ UNCHANGED <<setting, conf, rec, dm, wk>>

DaemonCrash ==
    /\ DaemonUp
    /\ Crashes
    /\ dm' = FreshDaemon
    /\ IF Wake = 0 THEN UNCHANGED <<svc, tries>> ELSE Dies(Wake)
    /\ UNCHANGED <<setting, conf, rec, wk>>

Locked == dm.pc = "commit" \/ wk.pc = "rbwrite"

\* An editor and reset_config write the file at any moment; commit_config_change only under
\* its lock
Edits(v) == [conf EXCEPT !.val = v, !.rest = IF v = conf.val THEN spent.edits + 1 ELSE @]

OutsideEdit ==
    /\ spent.edits < MaxEdits /\ Troubles < MaxTroubles
    /\ spent' = [spent EXCEPT !.edits = @ + 1]
    /\ \/ conf' \in {Edits(conf.val), Edits("third")}
       \/ ~Locked /\ conf' \in {Edits(conf.val), Edits("set")}
    /\ UNCHANGED <<setting, rec, dm, wk, svc, tries>>

WorkerCrash ==
    /\ wk.pc # "off"
    /\ Crashes
    /\ wk' = Off
    /\ UNCHANGED <<setting, conf, rec, dm, svc, tries>>

(***************************************************************************)
(* The specification.                                                      *)
(***************************************************************************)

Answer == DaemonUp /\ (Commit \/ Accept \/ Decline)

Daemon == /\ DaemonUp
          /\ \/ CreateOffer \/ DeliverOffer \/ DeliverPreRestart \/ TellResult
             \/ Acknowledge \/ Dispatch \/ DispatchFails \/ PollWorker

Worker == \/ WorkerStart \/ CheckConfig \/ StaleConfig \/ BeginVoiceValidation
          \/ ValidateVoice \/ RecheckVoice \/ BeginRestart \/ RestartLoop \/ RestartService
          \/ ObserveRestart \/ FinishActivation \/ RollbackStart \/ RestoreVoice
          \/ RollbackLoop \/ RollbackRestart \/ RollbackObserve \/ RollbackEnd

Next == \/ Answer \/ Daemon \/ Worker
        \/ (\E s \in Services : ServiceStarts(s) \/ ServiceCrash(s))
        \/ OutsideEdit \/ DaemonCrash \/ WorkerCrash

Spec == Init /\ [][Next]_vars

\* The daemon's loop goes round, a worker that lives makes progress, and services that are
\* to start come up or fail.
FairSpec == /\ Spec
            /\ WF_vars(Daemon) /\ WF_vars(Worker)
            /\ WF_vars(\E s \in Services : ServiceStarts(s))

(***************************************************************************)
(* Properties.                                                             *)
(***************************************************************************)

\* No restart is repeated blindly: whoever dies, a service is told to restart at most once
\* to activate the change and at most once to take it back.
RestartedAtMostOnce == \A s \in Services : tries[s].go <= 1 /\ tries[s].back <= 1

\* What is reported is so.  After a success every service has come up as another process
\* than before, that process has the new value, and it still runs unless the service has
\* died by itself: then systemd starts it with the file as it is by that time, and nobody
\* looks again.  After a complete rollback no service runs with the voice that was taken
\* back, not even one that died, or whose restart was given up and came late.
ReportedIsReal ==
    /\ rec.status = "succeeded" => \A s \in Services :
         LET after == rec.out[s].after IN
         /\ after > rec.out[s].before
         /\ svc[s].gen = after => svc[s].conf.val = "new"
         /\ (svc[s].gen = after /\ svc[s].up) \/ tries[s].died > 0
    /\ rec.proof = "restored" => \A s \in Services : svc[s].up => svc[s].conf.val # "new"

\* The daemon and the worker write the file only to put in or to take back their own value.
\* What another command set under the file's lock survives.  What an editor put there
\* without it survives too, unless it was saved between their load and their write.
ForeignValueKept ==
    [][/\ conf.val = "set" => conf'.val \in Foreign
       /\ conf.val = "third" /\ conf'.val \notin Foreign =>
            \/ wk.pc = "rbwrite" /\ wk.seen.val = "new"
            \/ dm.pc = "commit" /\ dm.read.val = "old"]_vars

\* An accepted activation comes to an end the user is told of, however many restarts of the
\* daemon it takes.
ActivationConcludes == rec.status = "accepted" ~> rec.ack
=============================================================================
