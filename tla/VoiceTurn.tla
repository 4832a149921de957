------------------------------ MODULE VoiceTurn ------------------------------
(***************************************************************************)
(* From a recording to a voice turn that runs at most once                 *)
(* (stt/server.py, stt/client.py, and the retained-delivery half of        *)
(* wake/daemon.py).                                                        *)
(*                                                                         *)
(* A finished recording is a generation file.  The speech-to-text server   *)
(* claims it by renaming it, transcribes it, and gives it up only when the *)
(* client has acknowledged the transcript: dictated audio is then deleted, *)
(* the audio of a voice turn is moved to a retained delivery, a directory  *)
(* whose delivery.json says whether the turn may still be run (pending),   *)
(* may have run (ambiguous) or needs no run any more (terminal).  The wake *)
(* daemon fences the delivery as ambiguous before it acts, and releases it *)
(* at the end of the turn.                                                 *)
(*                                                                         *)
(* Every rename, link, unlink and metadata replacement is a step of its    *)
(* own; the server and the daemon may crash between any two.  Delivery     *)
(* requests run in threads of the server without a lock, and outlive a     *)
(* client that gave up on them.                                            *)
(***************************************************************************)
EXTENDS Naturals, FiniteSets

CONSTANTS
    Voice,        \* utterances recorded by the wake daemon
    Dictated,     \* utterances recorded by the dictation commands
    None,         \* no utterance
    MaxRetained,  \* MAX_RETAINED_DELIVERIES
    MaxRecorded,  \* bound on the utterances recorded
    MaxFaults     \* bound on crashes, timeouts, lost answers and failing file operations

ASSUME VoiceConstants ==
    /\ Voice \cap Dictated = {}
    /\ None \notin Voice \cup Dictated
    /\ IsFiniteSet(Voice) /\ MaxRetained \in Nat /\ MaxRecorded \in Nat /\ MaxFaults \in Nat

Utterances == Voice \cup Dictated

VARIABLES
    recorded,  \* utterances that were recorded
    file,      \* the directories that hold a link to an utterance's audio
    meta,      \* the state in its delivery.json
    stamp,     \* the order of created_at in the delivery.json files
    hnd,       \* the server thread that handles its transcription
    conn,      \* the connection between that thread and the client
    up,        \* the server accepts connections; else it recovers stranded audio
    slot,      \* the utterance whose handler holds LOCK
    ops,       \* delivery requests under way in the server
    client,    \* where the client's transcription request stands
    daemon,    \* the wake daemon
    litter,    \* the deliveries that hold a replacement of delivery.json nobody removes
    fate,      \* what its user has of an utterance
    acted,     \* how often its side effect was performed
    faults

audio == <<file, meta, stamp, litter>>
thread == <<hnd, conn, slot>>
ghost == <<fate, acted>>
vars == <<recorded, audio, thread, up, ops, client, daemon, ghost, faults>>

Places == {"generation", "processing", "hidden", "retained", "released", "delivered",
           "quarantine"}
States == {"pending", "ambiguous", "terminal"}
Fates == {"open",         \* nothing yet
          "harmless",     \* the daemon found a turn without side effect, and has yet to answer
          "unanswered",   \* it died before it answered such a turn
          "settled"}      \* the text, the answer or the news of a failure
HandlerPcs == {"none", "claiming", "transcribing", "answered", "storing", "moved",
               "restoring", "linked", "committed"}
Ends == {"open", "gone", "busy", "error", "closed"}
Conns == [resp : BOOLEAN, ack : BOOLEAN,
          legacy : BOOLEAN,                         \* the path-only protocol
          retain : BOOLEAN,                         \* the acknowledgement asks for retention
          end : Ends]
ClientPcs == {"idle", "request", "waiting", "acked", "got", "lost", "failed"}
Phases == {"none", "handoff", "lost", "fence", "harmless", "final", "cleanup", "reap"}
DaemonPcs == {"loop", "transcribing", "calling", "turn", "declined", "fenced", "acted",
              "concluding", "interrupted"}
Seens == {"unread", "loaded", "written", "renamed"}
OpNames == States \cup {"release"}
Ops == [u : Voice, op : OpNames, seen : Seens, late : BOOLEAN]
Daemons == [pc : DaemonPcs, u : Voice \cup {None}, phase : Phases,
            amb : BOOLEAN, term : BOOLEAN,          \* delivery_ambiguous, delivery_terminal
            preserve : BOOLEAN, failed : BOOLEAN,   \* preserve_delivery, turn_failed
            fresh : BOOLEAN,                        \* not a turn of the recovery batch
            paused : BOOLEAN,                       \* retained_recovery_required
            batch : SUBSET [u : Voice, state : States]]

Fault == faults < MaxFaults /\ faults' = faults + 1
Move(u, a, b) == file' = [file EXCEPT ![u] = (@ \ {a}) \cup {b}]
Retained(u) == "retained" \in file[u]

(***************************************************************************)
(* The server: handle_connection, one thread per transcription.            *)
(***************************************************************************)

HandlerTo(u, pc) == hnd' = [hnd EXCEPT ![u] = pc]
Outcome(u) == IF conn[u].legacy /\ conn[u].resp THEN "closed" ELSE "error"
EndAs(u, e) == IF conn[u].end = "gone" THEN conn ELSE [conn EXCEPT ![u].end = e]

\* The thread ends: it answers or closes, and lets go of LOCK if it has it.
Close(u, e) == /\ HandlerTo(u, "none") /\ conn' = EndAs(u, e)
               /\ slot' = IF slot = u THEN None ELSE slot

NotServer == <<recorded, ops, client, daemon, up>>

\* One transcription at a time; a second request is refused without touching its audio.
Claim(u) ==
    /\ up /\ hnd[u] = "claiming"
    /\ IF slot # None THEN Close(u, "busy") /\ UNCHANGED file
       ELSE IF "generation" \in file[u]
       THEN /\ slot' = u /\ HandlerTo(u, "transcribing") /\ UNCHANGED conn
            /\ Move(u, "generation", "processing")
       ELSE Close(u, "error") /\ UNCHANGED file
    /\ UNCHANGED <<meta, stamp, litter, NotServer, ghost, faults>>

\* The transcript is sent; if the client has gone, or speaks the old protocol and cannot
\* acknowledge, the audio is restored.
Transcribed(u) ==
    /\ hnd[u] = "transcribing"
    /\ IF conn[u].end = "gone" THEN HandlerTo(u, "restoring") /\ UNCHANGED conn
       ELSE /\ HandlerTo(u, IF conn[u].legacy THEN "restoring" ELSE "answered")
            /\ conn' = [conn EXCEPT ![u].resp = TRUE]
    /\ UNCHANGED <<slot, audio, NotServer, ghost, faults>>

TranscriptionFails(u) ==
    /\ hnd[u] = "transcribing" /\ Fault
    /\ HandlerTo(u, "restoring")
    /\ UNCHANGED <<conn, slot, audio, NotServer, ghost>>

\* The acknowledgement says what becomes of the audio; the commit of a dictation is a
\* rename, its deletion comes after.
AckRead(u) ==
    /\ hnd[u] = "answered" /\ conn[u].ack
    /\ IF conn[u].retain THEN HandlerTo(u, "storing") /\ UNCHANGED file
       ELSE HandlerTo(u, "committed") /\ Move(u, "processing", "delivered")
    /\ UNCHANGED <<meta, stamp, litter, conn, slot, NotServer, ghost, faults>>

\* _commit_claim could not rename: the audio is restored and the client told.
CommitFails(u) ==
    /\ hnd[u] = "answered" /\ conn[u].ack /\ ~conn[u].retain /\ Fault
    /\ HandlerTo(u, "restoring")
    /\ UNCHANGED <<conn, slot, audio, NotServer, ghost>>

\* READ_TIMEOUT_SECONDS run out, or the client closed, before the acknowledgement.
AckTimeout(u) ==
    /\ hnd[u] = "answered" /\ ~conn[u].ack
    /\ \/ conn[u].end = "gone" /\ UNCHANGED faults
       \/ conn[u].end # "gone" /\ Fault
    /\ HandlerTo(u, "restoring")
    /\ UNCHANGED <<conn, slot, audio, NotServer, ghost>>

DeleteDelivered(u) ==
    /\ hnd[u] = "committed" /\ file' = [file EXCEPT ![u] = @ \ {"delivered"}]
    /\ Close(u, "closed")
    /\ UNCHANGED <<meta, stamp, litter, NotServer, ghost, faults>>

(***************************************************************************)
(* _write_retained_claim: metadata and audio go to a hidden directory,     *)
(* which is then renamed to the delivery's name.                           *)
(***************************************************************************)

Kept == {u \in Voice : file[u] \cap {"hidden", "retained", "released"} # {}}

\* Mutant: the metadata is written after the audio is moved.
StoreAudioBare(u) ==
    /\ hnd[u] = "storing" /\ Cardinality(Kept) < MaxRetained
    /\ Move(u, "processing", "hidden") /\ HandlerTo(u, "moved")
    /\ UNCHANGED <<meta, stamp, litter, conn, slot, NotServer, ghost, faults>>

StoreAudio(u) ==
    /\ hnd[u] = "storing" /\ Cardinality(Kept) < MaxRetained
    /\ meta' = [meta EXCEPT ![u] = "ambiguous"]
    /\ stamp' = [stamp EXCEPT ![u] = 1 + Cardinality({v \in Voice : stamp[v] # 0})]
    /\ Move(u, "processing", "hidden") /\ HandlerTo(u, "moved")
    /\ UNCHANGED <<litter, conn, slot, NotServer, ghost, faults>>

\* A recover request that found the complete hidden directory may have published it.
PublishRetained(u) ==
    /\ hnd[u] = "moved"
    /\ IF "hidden" \in file[u] THEN Move(u, "hidden", "retained") ELSE UNCHANGED file
    /\ Close(u, "closed")
    /\ UNCHANGED <<meta, stamp, litter, NotServer, ghost, faults>>

\* Retention is full, or a file operation failed and the audio was moved back.
RetentionFails(u) ==
    /\ \/ /\ hnd[u] = "storing" /\ UNCHANGED file
          /\ IF Cardinality(Kept) >= MaxRetained THEN UNCHANGED faults ELSE Fault
          /\ UNCHANGED <<meta, stamp>>
       \/ /\ hnd[u] = "moved" /\ "hidden" \in file[u] /\ Fault
          /\ Move(u, "hidden", "processing")
          /\ meta' = [meta EXCEPT ![u] = "none"] /\ stamp' = [stamp EXCEPT ![u] = 0]
    /\ HandlerTo(u, "restoring")
    /\ UNCHANGED <<litter, conn, slot, NotServer, ghost>>

\* The audio could not be moved back either: the hidden delivery is left for recovery.
RollbackFails(u) ==
    /\ hnd[u] = "moved" /\ "hidden" \in file[u] /\ Fault
    /\ Close(u, "error")
    /\ UNCHANGED <<audio, NotServer, ghost>>

(***************************************************************************)
(* _restore_claim_locked: a hard link to the generation, then the claim    *)
(* goes.  A claim that cannot be restored is quarantined.                  *)
(***************************************************************************)

Link(u) == file' = [file EXCEPT ![u] = @ \cup {"generation"}]
Unlink(u) == file' = [file EXCEPT ![u] = @ \ {"processing"}]

RestoreLink(u) ==
    /\ hnd[u] = "restoring" /\ Link(u) /\ HandlerTo(u, "linked")
    /\ UNCHANGED <<meta, stamp, litter, conn, slot, NotServer, ghost, faults>>

RestoreUnlink(u) ==
    /\ hnd[u] = "linked" /\ Unlink(u)
    /\ Close(u, Outcome(u))
    /\ UNCHANGED <<meta, stamp, litter, NotServer, ghost, faults>>

RestoreQuarantines(u) ==
    /\ hnd[u] = "restoring" /\ Fault
    /\ Move(u, "processing", "quarantine") /\ Close(u, Outcome(u))
    /\ UNCHANGED <<meta, stamp, litter, NotServer, ghost>>

\* The recording lock could not be taken: the claim stays until the server starts again.
RestoreFails(u) ==
    /\ hnd[u] = "restoring" /\ Fault
    /\ Close(u, Outcome(u))
    /\ UNCHANGED <<audio, NotServer, ghost>>

\* recover_stranded_audio, before the model is loaded and the socket bound.  A claim
\* that already has its link back is only unlinked.
RecoverStranded(u) ==
    /\ ~up
    /\ \/ "processing" \in file[u] /\ "generation" \notin file[u] /\ Link(u)
       \/ "processing" \in file[u] /\ "generation" \in file[u] /\ Unlink(u)
       \/ "delivered" \in file[u] /\ file' = [file EXCEPT ![u] = @ \ {"delivered"}]
    /\ UNCHANGED <<meta, stamp, litter, thread, NotServer, ghost, faults>>

ServerReady ==
    /\ ~up /\ \A u \in Utterances : file[u] \cap {"processing", "delivered"} = {}
    /\ up' = TRUE
    /\ UNCHANGED <<recorded, audio, thread, ops, client, daemon, ghost, faults>>

\* The deliveries in which a thread has written its replacement of delivery.json.
Replacing == {u \in Voice : Retained(u) /\ \E o \in ops : o.u = u /\ o.seen = "written"}

\* Every thread dies; the sockets close.  A waiting delivery request gets no answer, and
\* a replacement that was written stays in its delivery.
ServerCrash ==
    /\ Fault /\ up' = FALSE /\ ops' = {} /\ slot' = None
    /\ hnd' = [u \in Utterances |-> "none"]
    /\ conn' = [u \in Utterances |-> IF conn[u].end = "open" THEN [conn[u] EXCEPT !.end = "closed"]
                                     ELSE conn[u]]
    /\ litter' = litter \cup Replacing
    /\ UNCHANGED <<recorded, file, meta, stamp, client, daemon, ghost>>

(***************************************************************************)
(* The client: transcribe and transcribe_retained around _v2_request.      *)
(***************************************************************************)

NotClient == <<audio, up, slot, ops, daemon>>
ClientTo(u, pc) == client' = [client EXCEPT ![u] = pc]
Connection(legacy, retain) ==
    [resp |-> FALSE, ack |-> FALSE, legacy |-> legacy, retain |-> retain, end |-> "open"]

\* A dictation is recorded, or the user retries a generation that an error left behind
\* (transcribe --generation), after the server's thread for the old request has ended.
Dictate(u) ==
    /\ \/ /\ u \in Dictated \ recorded /\ Cardinality(recorded) < MaxRecorded
          /\ recorded' = recorded \cup {u}
          /\ file' = [file EXCEPT ![u] = {"generation"}]
       \/ /\ client[u] = "failed" /\ daemon.u # u /\ hnd[u] = "none" /\ "generation" \in file[u]
          /\ UNCHANGED <<recorded, file>>
    /\ conn' = [conn EXCEPT ![u] = Connection(FALSE, FALSE)] /\ ClientTo(u, "request")
    /\ UNCHANGED <<meta, stamp, litter, hnd, slot, up, ops, daemon, ghost, faults>>

\* While the server still works for an earlier connection it answers server_busy.
Request(u) ==
    /\ client[u] = "request"
    /\ IF up THEN /\ hnd[u] = "none" /\ HandlerTo(u, "claiming") /\ ClientTo(u, "waiting")
                  /\ conn' = [conn EXCEPT ![u] = Connection(@.legacy, @.retain)]
       ELSE ClientTo(u, "failed") /\ UNCHANGED <<hnd, conn>>
    /\ UNCHANGED <<recorded, NotClient, ghost, faults>>

\* The transcript is acknowledged as soon as it is parsed.
ReadTranscript(u) ==
    /\ client[u] = "waiting" /\ conn[u].resp /\ ~conn[u].legacy /\ conn[u].end = "open"
    /\ conn' = [conn EXCEPT ![u].ack = TRUE] /\ ClientTo(u, "acked")
    /\ fate' = IF conn[u].retain THEN fate ELSE [fate EXCEPT ![u] = "settled"]
    /\ UNCHANGED <<recorded, hnd, NotClient, acted, faults>>

\* server_busy is retried until the deadline.  A server that closes without an answer is
\* taken for an old one by transcribe.
TryAgain(u) ==
    /\ client[u] = "waiting"
    /\ \/ conn[u].end = "busy" /\ UNCHANGED conn
       \/ /\ conn[u].end = "closed" /\ conn[u] = [Connection(FALSE, FALSE) EXCEPT !.end = "closed"]
          /\ conn' = [conn EXCEPT ![u].legacy = TRUE]
    /\ ClientTo(u, "request")
    /\ UNCHANGED <<recorded, hnd, NotClient, ghost, faults>>

\* An acknowledged transcript is good when the server closes without a word; a legacy
\* answer is all that came before the close.
ReadEnd(u) ==
    /\ \/ client[u] = "acked" /\ conn[u].end = "closed"
       \/ client[u] = "waiting" /\ conn[u].end = "closed" /\ conn[u].legacy /\ conn[u].resp
    /\ ClientTo(u, "got")
    /\ fate' = IF conn[u].retain THEN fate ELSE [fate EXCEPT ![u] = "settled"]
    /\ UNCHANGED <<recorded, hnd, conn, NotClient, acted, faults>>

ReadError(u) ==
    /\ \/ client[u] = "acked" /\ conn[u].end = "error"
       \/ /\ client[u] = "waiting" /\ conn[u].end \in {"error", "closed"}
          /\ conn[u].end = "closed" => \/ conn[u].resp # conn[u].legacy
                                       \/ conn[u].retain
    /\ ClientTo(u, "failed") /\ fate' = [fate EXCEPT ![u] = "open"]
    /\ UNCHANGED <<recorded, hnd, conn, NotClient, acted, faults>>

\* A timeout or a reset.  After the acknowledgement the transcript is used all the same,
\* except that a turn's retention is then uncertain.
ClientTimeout(u) ==
    /\ client[u] \in {"request", "waiting", "acked"} /\ Fault
    /\ conn' = [conn EXCEPT ![u].end = "gone"]
    /\ ClientTo(u, IF client[u] # "acked" THEN "failed"
                   ELSE IF conn[u].retain THEN "lost" ELSE "got")
    /\ UNCHANGED <<recorded, hnd, NotClient, ghost>>

(***************************************************************************)
(* The wake daemon: process_utterance and the recovery of retained         *)
(* deliveries, on one thread.                                              *)
(***************************************************************************)

NotDaemon == <<up, stamp, litter, hnd, slot>>
Idle == [pc |-> "loop", u |-> None, phase |-> "none", amb |-> FALSE, term |-> FALSE,
         preserve |-> FALSE, failed |-> FALSE, fresh |-> FALSE, paused |-> TRUE, batch |-> {}]

\* run records only while no retained delivery needs reconciliation; the speech that
\* interrupted a turn's answer is recorded without asking.
Record(u) ==
    /\ u \in Voice \ recorded /\ Cardinality(recorded) < MaxRecorded
    /\ \/ daemon.pc = "loop" /\ ~daemon.paused /\ daemon.batch = {}
       \/ daemon.pc = "interrupted"
    /\ recorded' = recorded \cup {u} /\ file' = [file EXCEPT ![u] = {"generation"}]
    /\ conn' = [conn EXCEPT ![u] = Connection(FALSE, TRUE)] /\ ClientTo(u, "request")
    /\ daemon' = [Idle EXCEPT !.pc = "transcribing", !.u = u, !.fresh = TRUE,
                              !.paused = daemon.paused]
    /\ UNCHANGED <<NotDaemon, meta, ops, ghost, faults>>

NothingMoreSaid ==
    /\ daemon.pc = "interrupted" /\ daemon' = [Idle EXCEPT !.paused = daemon.paused]
    /\ UNCHANGED <<recorded, NotDaemon, file, meta, conn, client, ops, ghost, faults>>

\* A delivery request of the daemon; it waits for the answer.
Send(u, op) == ops' = ops \cup {[u |-> u, op |-> op, seen |-> "unread", late |-> FALSE]}
Call(op, phase) == /\ Send(daemon.u, op)
                   /\ daemon' = [daemon EXCEPT !.pc = "calling", !.phase = phase]

\* The turn is over: back to the loop or to the rest of the recovery batch, which stops
\* when recovery is required again; or on to what interrupted the answer.
Over(d) == {[Idle EXCEPT !.paused = d.paused, !.batch = IF d.paused THEN {} ELSE d.batch]}
           \cup IF d.fresh /\ ~d.failed THEN {[Idle EXCEPT !.pc = "interrupted", !.paused = d.paused]}
                ELSE {}

TurnFailed(d) == [d EXCEPT !.pc = "concluding", !.failed = TRUE]
\* Mutant: an uncertain handoff does not ask for recovery.
EvidenceUnpaused(d) == [TurnFailed(d) EXCEPT !.preserve = TRUE]
Evidence(d) == [TurnFailed(d) EXCEPT !.preserve = TRUE, !.paused = TRUE]

Transcript ==
    /\ daemon.pc = "transcribing"
    /\ \/ client[daemon.u] = "got" /\ Call("pending", "handoff")
       \/ client[daemon.u] = "lost" /\ Call("ambiguous", "lost")
       \/ /\ client[daemon.u] = "failed" /\ UNCHANGED ops
          /\ daemon' = [Idle EXCEPT !.paused = daemon.paused]
    /\ UNCHANGED <<recorded, NotDaemon, file, meta, conn, client, ghost, faults>>

\* A turn without side effect, a confirmation that came too late to change anything, or
\* an effect that is done and needs no fence any more.  The answer comes after it.
TerminalizeNonSideEffect ==
    /\ daemon.pc \in {"turn", "declined", "fenced", "acted"}
    /\ Call("terminal", "harmless")
    /\ fate' = [fate EXCEPT ![daemon.u] = IF @ = "open" THEN "harmless" ELSE @]
    /\ UNCHANGED <<recorded, NotDaemon, file, meta, conn, client, acted, faults>>

\* Mutant: the side effect does not wait for the fence.
FenceSkipped ==
    /\ daemon.pc = "turn" /\ daemon' = [daemon EXCEPT !.pc = "fenced", !.paused = TRUE]
    /\ UNCHANGED <<recorded, NotDaemon, file, meta, conn, client, ops, ghost, faults>>

FenceSideEffect ==
    /\ daemon.pc = "turn" /\ Call("ambiguous", "fence")
    /\ UNCHANGED <<recorded, NotDaemon, file, meta, conn, client, ghost, faults>>

Act ==
    /\ daemon.pc = "fenced"
    /\ acted' = [acted EXCEPT ![daemon.u] = @ + 1]
    /\ daemon' = [daemon EXCEPT !.pc = "acted"]
    /\ UNCHANGED <<recorded, NotDaemon, file, meta, conn, client, ops, fate, faults>>

\* The turn is done, or raises.
TurnEnds ==
    /\ \/ daemon.pc = "acted" /\ daemon' = [daemon EXCEPT !.pc = "concluding"]
       \/ daemon.pc \in {"turn", "fenced", "acted"} /\ daemon' = TurnFailed(daemon)
    /\ UNCHANGED <<recorded, NotDaemon, file, meta, conn, client, ops, ghost, faults>>

\* Mutant: the delivery is released before the answer is given.
ConcludeUntold ==
    /\ daemon.pc = "concluding"
    /\ IF daemon.failed /\ (daemon.amb \/ daemon.preserve)
       THEN daemon' \in Over(daemon) /\ UNCHANGED ops
       ELSE IF daemon.term THEN Call("release", "cleanup") ELSE Call("terminal", "final")
    /\ UNCHANGED <<recorded, NotDaemon, file, meta, conn, client, ghost, faults>>

\* The end of process_utterance: the answer is spoken, or the user told of the failure;
\* then the finally clause.  A failed turn that is fenced, or whose fence is in doubt, keeps its
\* evidence; any other is made terminal and released.
Conclude ==
    /\ daemon.pc = "concluding"
    /\ IF daemon.failed /\ (daemon.amb \/ daemon.preserve)
       THEN daemon' \in Over(daemon) /\ UNCHANGED ops
       ELSE IF daemon.term THEN Call("release", "cleanup") ELSE Call("terminal", "final")
    /\ fate' = [fate EXCEPT ![daemon.u] = "settled"]
    /\ UNCHANGED <<recorded, NotDaemon, file, meta, conn, client, acted, faults>>

\* The confirmation of a configuration change reports a failed fence and goes on without
\* the change; any other turn fails.
Unfenced(d) == {TurnFailed(d), [d EXCEPT !.pc = "declined"]}

\* What the daemon makes of an answer, or of its absence.
After(ok) ==
    CASE daemon.phase = "handoff" -> {IF ok THEN [daemon EXCEPT !.pc = "turn"] ELSE Evidence(daemon)}
      [] daemon.phase = "lost" -> {Evidence(daemon)}
      [] daemon.phase = "fence" ->
           LET d == [daemon EXCEPT !.preserve = TRUE, !.paused = TRUE]
           IN IF ok THEN {[d EXCEPT !.pc = "fenced", !.amb = TRUE]}
              ELSE Unfenced(d)
      [] daemon.phase = "harmless" ->
           IF ok THEN LET d == [daemon EXCEPT !.term = TRUE, !.preserve = FALSE]
                      IN {[d EXCEPT !.pc = "concluding"], TurnFailed(d)}
           ELSE {Evidence(daemon)}
      [] daemon.phase = "final" ->
           IF ok THEN {[daemon EXCEPT !.term = TRUE, !.pc = "concluding"]}
           ELSE Over([daemon EXCEPT !.paused = TRUE])
      [] daemon.phase = "cleanup" -> Over([daemon EXCEPT !.paused = ~ok])
      [] daemon.phase = "reap" -> {[Idle EXCEPT !.paused = ~ok, !.batch = IF ok THEN daemon.batch ELSE {}]}

\* No answer: the server is down, or it takes longer than REQUEST_DEADLINE_SECONDS and
\* goes on with the request all the same.
CallFails ==
    /\ daemon.pc = "calling"
    /\ LET mine == {o \in ops : ~o.late}
       IN \/ mine = {} /\ UNCHANGED <<ops, faults>>
          \/ ~up /\ mine # {} /\ ops' = ops \ mine /\ UNCHANGED faults
          \/ /\ up /\ mine # {} /\ Fault
             /\ ops' = (ops \ mine) \cup {[o EXCEPT !.late = TRUE] : o \in mine}
    /\ daemon' \in After(FALSE)
    /\ UNCHANGED <<recorded, NotDaemon, file, meta, conn, client, ghost>>

Oldest == {b \in daemon.batch : \A c \in daemon.batch : stamp[b.u] <= stamp[c.u]}
Recovering(b) == [Idle EXCEPT !.u = b.u, !.paused = FALSE, !.batch = daemon.batch \ {b}]

\* _recover_retained_utterances: oldest first; an ambiguous delivery stops it.
NextRetained ==
    /\ daemon.pc = "loop"
    /\ \E b \in Oldest :
          \/ /\ b.state = "terminal" /\ Send(b.u, "release")
             /\ daemon' = [Recovering(b) EXCEPT !.pc = "calling", !.phase = "reap"]
          \/ b.state = "ambiguous" /\ daemon' = Idle /\ UNCHANGED ops
          \/ /\ b.state = "pending" /\ UNCHANGED ops
             /\ daemon' = [Recovering(b) EXCEPT !.pc = "turn"]
    /\ UNCHANGED <<recorded, NotDaemon, file, meta, conn, client, ghost, faults>>

\* _recover_retained_deliveries in the server: hidden deliveries that are complete are
\* published, released ones removed, and the rest reported.  A released one with a file
\* that does not belong there fails the request: it and those after it are left.
Published(left) ==
    [u \in Utterances |->
        IF "hidden" \in file[u] THEN (file[u] \ {"hidden"}) \cup {"retained"}
        ELSE IF u \in left THEN file[u] ELSE file[u] \ {"released"}]
Released == {u \in Voice : "released" \in file[u]}
Reported == {[u |-> u, state |-> meta[u]] :
               u \in {v \in Voice : file[v] \cap {"hidden", "retained"} # {}}}

\* The answer may be lost or an error, and the flag is then set again.
RetryRetainedRecovery ==
    /\ daemon.pc = "loop" /\ daemon.paused /\ up
    /\ IF Released \cap litter = {}
       THEN /\ file' = Published({})
            /\ \/ daemon' = [Idle EXCEPT !.paused = FALSE, !.batch = Reported] /\ UNCHANGED faults
               \/ Fault /\ UNCHANGED daemon
       ELSE /\ \E left \in SUBSET Released : Released \cap litter \subseteq left /\ file' = Published(left)
            /\ UNCHANGED <<daemon, faults>>
    /\ UNCHANGED <<recorded, NotDaemon, meta, conn, client, ops, ghost>>

\* The daemon dies.  Its transcription request hangs up, its delivery request goes on.
DaemonCrash ==
    /\ Fault /\ daemon' = Idle
    /\ ops' = {[o EXCEPT !.late = TRUE] : o \in ops}
    /\ IF daemon.pc = "transcribing"
       THEN /\ ClientTo(daemon.u, "failed")
            /\ conn' = [conn EXCEPT ![daemon.u].end = "gone"]
       ELSE UNCHANGED <<client, conn>>
    /\ fate' = [u \in Utterances |-> IF u = daemon.u /\ fate[u] = "harmless" THEN "unanswered"
                                     ELSE fate[u]]
    /\ UNCHANGED <<recorded, NotDaemon, file, meta, acted>>

(***************************************************************************)
(* The server: _update_retained_state and _release_retained_delivery, each *)
(* in the thread of its connection and without a lock.                     *)
(***************************************************************************)

NotOps == <<recorded, up, stamp, hnd, slot, conn, client, ghost>>
Finish(o, ok) == /\ ops' = ops \ {o}
                 /\ IF o.late THEN UNCHANGED daemon ELSE daemon' \in After(ok)
GoesOn(o, seen) == ops' = (ops \ {o}) \cup {[o EXCEPT !.seen = seen]} /\ UNCHANGED daemon

\* A release takes the replacements that threads have written along.
LoadDelivery(o) ==
    /\ up /\ o.seen = "unread"
    /\ IF Retained(o.u) /\ o.op # "release" /\ meta[o.u] # "terminal"
       THEN GoesOn(o, "loaded") /\ UNCHANGED <<file, meta, litter>>
       ELSE IF Retained(o.u) /\ o.op = "release"
       THEN /\ Move(o.u, "retained", "released") /\ meta' = [meta EXCEPT ![o.u] = "none"]
            /\ litter' = litter \cup (Replacing \cap {o.u})
            /\ GoesOn(o, "renamed")
       ELSE Finish(o, Retained(o.u) /\ o.op = "terminal") /\ UNCHANGED <<file, meta, litter>>
    /\ UNCHANGED <<NotOps, faults>>

WriteReplacement(o) ==
    /\ up /\ o.seen = "loaded"
    /\ IF Retained(o.u) THEN GoesOn(o, "written") ELSE Finish(o, FALSE)
    /\ UNCHANGED <<file, meta, litter, NotOps, faults>>

WriteState(o) ==
    /\ up /\ o.seen = "written"
    /\ meta' = IF Retained(o.u) THEN [meta EXCEPT ![o.u] = o.op] ELSE meta
    /\ Finish(o, Retained(o.u)) /\ UNCHANGED <<file, litter, NotOps, faults>>

\* Nothing is removed of, or not all of, a delivery with a file that does not belong there.
RemoveReleased(o) ==
    /\ up /\ o.seen = "renamed" /\ Finish(o, "released" \in file[o.u] /\ o.u \notin litter)
    /\ file' = IF o.u \in litter THEN file ELSE [file EXCEPT ![o.u] = @ \ {"released"}]
    /\ UNCHANGED <<meta, litter, NotOps, faults>>

\* A file operation fails before the replacement or the rename.
OperationFails(o) ==
    /\ up /\ Fault /\ Finish(o, FALSE)
    /\ UNCHANGED <<file, meta, litter, NotOps>>

(***************************************************************************)

Init ==
    /\ recorded = {} /\ file = [u \in Utterances |-> {}]
    /\ meta = [u \in Utterances |-> "none"] /\ stamp = [u \in Utterances |-> 0]
    /\ hnd = [u \in Utterances |-> "none"]
    /\ conn = [u \in Utterances |-> Connection(FALSE, u \in Voice)]
    /\ up = TRUE /\ slot = None /\ ops = {}
    /\ client = [u \in Utterances |-> "idle"] /\ daemon = Idle
    /\ litter = {} /\ fate = [u \in Utterances |-> "open"] /\ acted = [u \in Utterances |-> 0] /\ faults = 0

Handler(u) ==
    \/ Claim(u) \/ Transcribed(u) \/ AckRead(u) \/ DeleteDelivered(u) \/ StoreAudio(u)
    \/ PublishRetained(u) \/ RestoreLink(u) \/ RestoreUnlink(u) \/ AckTimeout(u)
    \/ RetentionFails(u)
Client(u) == Request(u) \/ ReadTranscript(u) \/ TryAgain(u) \/ ReadEnd(u) \/ ReadError(u)
Operation(o) == LoadDelivery(o) \/ WriteReplacement(o) \/ WriteState(o) \/ RemoveReleased(o)
Turn == TerminalizeNonSideEffect \/ FenceSideEffect \/ Act \/ TurnEnds
Daemon == Transcript \/ Turn \/ Conclude \/ CallFails \/ NextRetained \/ RetryRetainedRecovery
          \/ NothingMoreSaid
Recover == (\E u \in Utterances : RecoverStranded(u)) \/ ServerReady

Next ==
    \/ \E u \in Utterances : Handler(u) \/ TranscriptionFails(u) \/ CommitFails(u)
                             \/ RestoreQuarantines(u) \/ RestoreFails(u) \/ RollbackFails(u)
    \/ \E u \in Utterances : Dictate(u) \/ Client(u) \/ ClientTimeout(u)
    \/ \E u \in Voice : Record(u)
    \/ \E o \in ops : Operation(o) \/ OperationFails(o)
    \/ Daemon \/ Recover \/ ServerCrash \/ DaemonCrash

Spec == Init /\ [][Next]_vars

\* systemd starts a server that died; threads run, the daemon's loop goes round, and a
\* client reads what was sent.  Nothing makes a user speak or retry.
Fairness ==
    /\ \A u \in Utterances : WF_vars(Handler(u)) /\ WF_vars(Client(u))
    /\ WF_vars(\E o \in ops : Operation(o)) /\ WF_vars(Daemon) /\ WF_vars(Recover)

FairSpec == Spec /\ Fairness

(***************************************************************************)
(* Properties.                                                             *)
(***************************************************************************)

\* The shape of every variable; every delivery that recovery reports has a state.
TypeOK ==
    /\ recorded \subseteq Utterances /\ litter \subseteq Voice /\ fate \in [Utterances -> Fates]
    /\ file \in [Utterances -> SUBSET Places]
    /\ meta \in [Utterances -> States \cup {"none"}] /\ stamp \in [Utterances -> Nat]
    /\ hnd \in [Utterances -> HandlerPcs] /\ conn \in [Utterances -> Conns]
    /\ up \in BOOLEAN /\ slot \in Utterances \cup {None} /\ ops \subseteq Ops
    /\ client \in [Utterances -> ClientPcs] /\ daemon \in Daemons
    /\ acted \in [Utterances -> Nat] /\ faults \in 0..MaxFaults

\* The daemon never performs the side effect of one utterance twice, whatever crashes,
\* timeouts and replays of its retained delivery happen (fence_side_effect).
ActedAtMostOnce == \A u \in Voice : acted[u] <= 1

\* Audio is given up only for an utterance whose text, answer or failure its user has: not
\* by a crash between a rename and the next, nor by a client that hangs up.  The exception
\* is a turn without side effect, which the daemon calls terminal before it answers: when
\* it dies in between, recovery releases the delivery of a question nobody answered.
AudioNeverLost ==
    \A u \in recorded : file[u] \subseteq {"delivered", "released"} =>
        fate[u] \in {"settled", "unanswered"}

\* The replay fence: an utterance that was acted on is never on disk, nor on its way to
\* disk, as one that may be run, and the daemon has it in no batch to run.
ReplayFence ==
    \A u \in Voice : acted[u] > 0 =>
        /\ meta[u] # "pending" /\ [u |-> u, state |-> "pending"] \notin daemon.batch
        /\ \A o \in ops : o.u = u => o.op # "pending"
        /\ daemon.u = u => daemon.pc \notin {"transcribing", "turn", "fenced"}

\* The places of an utterance's audio: one link, or the two of a restore under way, and
\* the one its server thread works on.  A delivery that can be found has its state.
FileShape(u) ==
    /\ \A a, b \in file[u] : a = b \/ {a, b} = {"generation", "processing"}
    /\ {"generation", "processing"} \subseteq file[u] => ~up \/ hnd[u] = "linked"
    /\ hnd[u] \in {"transcribing", "answered", "storing", "restoring"} => file[u] = {"processing"}
    /\ hnd[u] = "linked" => file[u] = {"generation", "processing"}
    /\ hnd[u] = "committed" => file[u] = {"delivered"}
    /\ ~up => hnd[u] = "none"
    /\ "hidden" \in file[u] \/ "retained" \in file[u] => meta[u] # "none"

\* Nothing is known of an utterance before it is recorded.
UnrecordedShape(u) ==
    u \notin recorded =>
        /\ file[u] = {} /\ meta[u] = "none" /\ hnd[u] = "none" /\ client[u] = "idle"
        /\ acted[u] = 0 /\ daemon.u # u
        /\ \A o \in ops : o.u # u
        /\ \A b \in daemon.batch : b.u # u

Asked == [none |-> "none", handoff |-> "pending", lost |-> "ambiguous", fence |-> "ambiguous",
          harmless |-> "terminal", final |-> "terminal", cleanup |-> "release",
          reap |-> "release"]

\* A delivery request that is not late is the one the daemon waits for.
CallShape ==
    /\ daemon.pc \in {"loop", "interrupted"} <=> daemon.u = None
    /\ daemon.pc = "calling" => daemon.phase # "none"
    /\ \A b, c \in daemon.batch : b.u = c.u => b = c
    /\ \A o \in ops :
          /\ o.seen \in {"loaded", "written"} => o.op # "release"
          /\ o.seen = "renamed" => o.op = "release"
          /\ ~o.late => /\ daemon.pc = "calling" /\ daemon.u = o.u /\ o.op = Asked[daemon.phase]
                        /\ \A p \in ops : ~p.late => p = o

Pendings(u) == {o \in ops : o.u = u /\ o.op = "pending"}
Replayable(u) == [u |-> u, state |-> "pending"]

\* Whoever may still run a turn knows that it was not acted on; a request to make its
\* delivery pending is made once, before anyone runs it or calls it terminal.
FenceShape(u) ==
    /\ acted[u] <= 1
    /\ meta[u] = "pending" \/ Replayable(u) \in daemon.batch \/ Pendings(u) # {} => acted[u] = 0
    /\ Pendings(u) # {} => /\ meta[u] \notin {"pending", "terminal"}
                           /\ \A b \in daemon.batch : b.u = u => b.state = "ambiguous"
                           /\ \A o \in ops : o.u = u => o.op \in {"pending", "ambiguous"}
                           /\ \A o, p \in Pendings(u) : o = p
                           /\ daemon.u = u => \/ daemon.pc = "calling" /\ daemon.phase = "handoff"
                                              \/ daemon.pc = "concluding" /\ daemon.failed
                                                 /\ daemon.preserve
    /\ daemon.u = u =>
          /\ \A b \in daemon.batch : b.u # u
          /\ daemon.pc = "transcribing" => /\ meta[u] \notin {"pending", "terminal"}
                                          /\ \A o \in ops : o.u # u
          /\ daemon.pc = "fenced" => meta[u] # "pending"
          /\ \/ daemon.pc \in {"transcribing", "turn", "fenced"}
             \/ daemon.pc = "calling" /\ daemon.phase \in {"handoff", "fence"}
             => acted[u] = 0

\* The inductive invariant behind ActedAtMostOnce and ReplayFence: what every step of the
\* server's threads and of the daemon preserves.
TurnInv ==
    /\ \A u \in Utterances : FileShape(u) /\ UnrecordedShape(u)
    /\ CallShape
    /\ \A u \in Voice : FenceShape(u)

\* Recovery does not get to a delivery behind an older one that needs reconciliation, nor
\* to any while a released one cannot be removed.
Blocked(u) ==
    \/ Released \cap litter # {}
    \/ \E v \in Voice : Retained(v) /\ meta[v] = "ambiguous" /\ stamp[v] < stamp[u]

\* Every utterance the daemon records gets an end: its delivery is released or kept for
\* reconciliation, or its audio is where a retry, a restart of the server or the next
\* recovery finds it.  None stays in the hands of a thread, and none stays pending unless
\* recovery is stopped before it (_recover_retained_utterances).
VoiceConcludes ==
    \A u \in Voice : (u \in recorded) ~>
        /\ hnd[u] = "none" /\ daemon.u # u
        /\ Retained(u) /\ meta[u] = "pending" => Blocked(u)

\* The server answers "terminal retained delivery cannot become replayable or ambiguous".
TerminalStays ==
    [][\A u \in Voice : meta[u] = "terminal" => meta'[u] \in {"terminal", "none"}]_vars

=============================================================================
