------------------------------- MODULE Speech -------------------------------
(***************************************************************************)
(* Spoken output: tts/queue.py (PlaybackQueue and PrefetchHandle), the     *)
(* streaming side of tts/server.py with the parser of tts/stream.py, and   *)
(* the three ways wake/daemon.py speaks: play_response,                    *)
(* play_streamed_response and _play_pending_announcements.                 *)
(*                                                                         *)
(* A request is one utterance of Chunks chunks.  Its handle is a thread    *)
(* that asks the TTS server for the chunks ahead of time; the server       *)
(* writes each chunk to a file of the request's directory and announces    *)
(* it.  The player writes the chunks of all queued requests into one       *)
(* pw-play process, which plays them later: what was written is not yet    *)
(* heard.  The user may barge in at every poll, every part may fail, and a *)
(* handle that does not stop in time makes its discard raise.              *)
(***************************************************************************)
EXTENDS Naturals, Sequences, FiniteSets

CONSTANTS
    N,              \* requests of one turn
    Chunks,         \* chunks of an utterance
    PrefetchLimit,  \* PREFETCH_LIMIT
    Window,         \* DELIVERY_WINDOW
    MaxFailures     \* bound on failures of any part

ASSUME SpeechConstants ==
    /\ N \in Nat \ {0} /\ Chunks \in Nat \ {0}
    /\ PrefetchLimit \in Nat \ {0} /\ Window \in Nat \ {0} /\ MaxFailures \in Nat

Requests == 1..N
SpeechModes == {"reply", "stream", "announce"}

VARIABLES
    mode,     \* which of the daemon's functions speaks
    queue,    \* PlaybackQueue._items
    hnd,      \* the handle of each request
    srv,      \* the server's stream of each request
    pending,  \* PENDING_CANCELLATIONS
    gen,      \* the thread that generates the response
    pl,       \* the thread that drains the queue
    sink,     \* the pw-play process
    reported, \* what the daemon was told of each request, or did with its claim
    failures

speechVars == <<mode, queue, hnd, srv, pending, gen, pl, sink, reported, failures>>

Threads == {"none", "start", "reading", "complete", "failed"}
Streams == {"none", "queued", "check", "emit", "done", "cancelled", "error", "lost"}
PlayerPcs == {"off", "wait", "head", "progress", "write", "discard", "close", "flush",
              "report", "raise", "clear", "release", "done"}

Handles == [th : Threads, sent : BOOLEAN, cancelled : BOOLEAN, noted : 0..Chunks,
            discarded : BOOLEAN]
ServerStreams == [pc : Streams, cancel : BOOLEAN, emitted : 0..Chunks, files : BOOLEAN]
Generators == [pc : {"off", "generate", "join", "failed", "done"}, next : 1..(N + 1)]
Results == [r : Requests, cut : BOOLEAN]
Players == [pc : PlayerPcs, cur : 0..N, join : 0..N, have : 0..Chunks, cut : BOOLEAN,
            deferred : BOOLEAN, failed : BOOLEAN, error : BOOLEAN, stopped : BOOLEAN,
            finished : BOOLEAN, jammed : BOOLEAN, played : Seq(Results)]
Sinks == [pc : {"none", "open", "ended"}, buf : Seq(Requests), heard : [Requests -> 0..Chunks]]

\* The shapes of the state.
SpeechOK ==
    /\ mode \in SpeechModes
    /\ queue \in Seq(Requests) /\ Len(queue) <= N
    /\ hnd \in [Requests -> Handles]
    /\ srv \in [Requests -> ServerStreams]
    /\ pending \subseteq Requests
    /\ gen \in Generators
    /\ pl \in Players
    /\ sink \in Sinks
    /\ reported \in [Requests -> {"nothing", "played", "cut", "released"}]
    /\ failures \in 0..MaxFailures

NoHandle == [th |-> "none", sent |-> FALSE, cancelled |-> FALSE, noted |-> 0,
             discarded |-> FALSE]
NoStream == [pc |-> "none", cancel |-> FALSE, emitted |-> 0, files |-> FALSE]
Silent == [pc |-> "none", buf |-> <<>>, heard |-> [r \in Requests |-> 0]]

SpeechInit ==
    /\ mode \in SpeechModes
    /\ queue = CASE mode = "reply" -> <<1>>
                 [] mode = "stream" -> <<>>
                 [] mode = "announce" -> [i \in Requests |-> i]
    /\ hnd = [r \in Requests |-> NoHandle]
    /\ srv = [r \in Requests |-> NoStream]
    /\ pending = {}
    /\ gen = [pc |-> IF mode = "stream" THEN "generate" ELSE "off", next |-> 1]
    /\ pl = [pc |-> IF mode = "stream" THEN "wait" ELSE "off", cur |-> 0, join |-> 0,
             have |-> 0, cut |-> FALSE, deferred |-> FALSE, failed |-> FALSE, error |-> FALSE,
             stopped |-> FALSE, finished |-> FALSE, jammed |-> FALSE, played |-> <<>>]
    /\ sink = Silent
    /\ reported = [r \in Requests |-> "nothing"]
    /\ failures = 0

Fault == failures < MaxFailures /\ failures' = failures + 1

(***************************************************************************)
(* Prefetch handles.                                                       *)
(***************************************************************************)

Ended(r) == hnd[r].th \in {"complete", "failed"}
Streaming(r) == srv[r].pc \in {"queued", "check", "emit"}

\* Requests in the queue that have a handle
Queued(r) == \E i \in DOMAIN queue : queue[i] = r
Active == {r \in Requests : hnd[r].th # "none" /\ Queued(r)}
Bare == {i \in DOMAIN queue : hnd[queue[i]].th = "none"}

\* PlaybackQueue.start_prefetch: the first requests without a handle get one
StartPrefetch(limit) ==
    LET free == IF Cardinality(Active) >= limit THEN 0 ELSE limit - Cardinality(Active)
        chosen == {queue[i] : i \in {j \in Bare : Cardinality(Bare \cap 1..j) <= free}}
    IN  [r \in Requests |-> IF r \in chosen THEN [NoHandle EXCEPT !.th = "start"] ELSE hnd[r]]

\* _cancel_stream: an active stream is told, another request is remembered
CancelStream(r) ==
    IF Streaming(r) THEN srv' = [srv EXCEPT ![r].cancel = TRUE] /\ UNCHANGED pending
                    ELSE pending' = pending \cup {r} /\ UNCHANGED srv

\* PrefetchHandle.cancel: the server hears of it when the request was submitted
Cancels(r) == IF hnd[r].cancelled \/ ~hnd[r].sent THEN UNCHANGED <<srv, pending>>
                                                   ELSE CancelStream(r)

\* A pending cancellation expires, or is the oldest of too many
ForgetCancellation ==
    /\ \E r \in pending : pending' = pending \ {r}
    /\ Fault
    /\ UNCHANGED <<mode, queue, hnd, srv, gen, pl, sink, reported>>

\* _submit_request, under the lock that cancel takes too
SubmitRequest(r) ==
    /\ hnd[r].th = "start"
    /\ \/ /\ ~hnd[r].cancelled
          /\ hnd' = [hnd EXCEPT ![r].th = "reading", ![r].sent = TRUE]
          /\ UNCHANGED failures
       \/ /\ hnd[r].cancelled
          /\ hnd' = [hnd EXCEPT ![r].th = "failed"]
          /\ UNCHANGED failures
       \/ /\ Fault
          /\ hnd' = [hnd EXCEPT ![r].th = "failed", ![r].cancelled = TRUE]
    /\ UNCHANGED <<mode, queue, srv, pending, gen, pl, sink, reported>>

\* _note_chunk
ReadChunk(r) ==
    /\ hnd[r].th = "reading" /\ ~hnd[r].cancelled
    /\ hnd[r].noted < srv[r].emitted
    /\ hnd' = [hnd EXCEPT ![r].noted = @ + 1]
    /\ UNCHANGED <<mode, queue, srv, pending, gen, pl, sink, reported, failures>>

\* TTSStreamParser.finish: all chunks were announced and the stream was not cancelled
ReadDone(r) ==
    /\ hnd[r].th = "reading" /\ ~hnd[r].cancelled
    /\ srv[r].pc = "done" /\ hnd[r].noted = srv[r].emitted
    /\ hnd' = [hnd EXCEPT ![r].th = "complete"]
    /\ UNCHANGED <<mode, queue, srv, pending, gen, pl, sink, reported, failures>>

\* The thread ends with an error: its own chunks are removed, the server is told once
ReadFails(r) ==
    /\ hnd[r].th = "reading"
    /\ \/ /\ hnd[r].cancelled \/ (/\ srv[r].pc \in {"cancelled", "error", "lost"}
                                  /\ hnd[r].noted = srv[r].emitted)
          /\ UNCHANGED failures
       \/ Fault
    /\ hnd' = [hnd EXCEPT ![r].th = "failed", ![r].cancelled = TRUE]
    /\ LET gone == [srv EXCEPT ![r].files = @ /\ hnd[r].noted = 0]
       IN  IF hnd[r].cancelled THEN srv' = gone /\ UNCHANGED pending
           ELSE IF Streaming(r) THEN srv' = [gone EXCEPT ![r].cancel = TRUE] /\ UNCHANGED pending
           ELSE srv' = gone /\ pending' = pending \cup {r}
    /\ UNCHANGED <<mode, queue, gen, pl, sink, reported>>

(***************************************************************************)
(* The TTS server.                                                         *)
(***************************************************************************)

\* _stream_response registers the stream and consumes a cancellation that came first
AcceptStream(r) ==
    /\ hnd[r].sent /\ srv[r].pc = "none"
    /\ srv' = [srv EXCEPT ![r] = [pc |-> "queued", cancel |-> r \in pending, emitted |-> 0,
                                  files |-> TRUE]]
    /\ pending' = pending \ {r}
    /\ UNCHANGED <<mode, queue, hnd, gen, pl, sink, reported, failures>>

\* One stream at a time holds the model
TakeModel(r) ==
    /\ srv[r].pc = "queued"
    /\ \A s \in Requests : srv[s].pc \notin {"check", "emit"}
    /\ srv' = [srv EXCEPT ![r].pc = "check"]
    /\ UNCHANGED <<mode, queue, hnd, pending, gen, pl, sink, reported, failures>>

\* A write to a reader that is gone: BrokenPipeError, and the directory is removed
Broken(r) == Ended(r)
Breaks(r) == srv' = [srv EXCEPT ![r].pc = "lost", ![r].files = FALSE]

\* The directory is removed only when nothing was announced
StreamEnds(r) ==
    IF Broken(r) THEN Breaks(r)
    ELSE srv' = [srv EXCEPT ![r].pc = IF srv[r].cancel THEN "cancelled" ELSE "done",
                            ![r].files = @ /\ ~(srv[r].cancel /\ srv[r].emitted = 0)]

\* Mutant: off by one.
OneChunkTooMany(r) == srv[r].emitted > Chunks

AllEmitted(r) == srv[r].emitted = Chunks

\* The next chunk is synthesized, unless the stream was cancelled or is complete
Synthesize(r) ==
    /\ srv[r].pc = "check"
    /\ IF srv[r].cancel \/ AllEmitted(r) THEN StreamEnds(r) /\ UNCHANGED failures
       ELSE \/ /\ srv[r].files
               /\ srv' = [srv EXCEPT ![r].pc = "emit"]
               /\ UNCHANGED failures
            \/ /\ ~srv[r].files
               /\ srv' = [srv EXCEPT ![r].pc = "error"]
               /\ UNCHANGED failures
            \/ /\ Fault
               /\ srv' = [srv EXCEPT ![r].pc = "error", ![r].files = FALSE]
    /\ UNCHANGED <<mode, queue, hnd, pending, gen, pl, sink, reported>>

\* Cancellation is looked at again before the chunk is announced
EmitChunk(r) ==
    /\ srv[r].pc = "emit"
    /\ IF srv[r].cancel THEN StreamEnds(r)
       ELSE IF Broken(r) THEN Breaks(r)
       ELSE srv' = [srv EXCEPT ![r].pc = "check", ![r].emitted = @ + 1]
    /\ UNCHANGED <<mode, queue, hnd, pending, gen, pl, sink, reported, failures>>

(***************************************************************************)
(* The player: PlaybackQueue.drain.                                        *)
(***************************************************************************)

PlayerAt(l) == pl.pc = l
Draining == pl.pc \in {"head", "progress", "write", "discard", "close", "flush"}
Terminated == [sink EXCEPT !.pc = "ended", !.buf = <<>>]
Stop(p) == IF sink.pc = "open" THEN Terminated ELSE p

\* _play_pending_announcements prefetches a window before it drains
StartDrain ==
    /\ PlayerAt("off")
    /\ hnd' = IF mode = "announce" THEN StartPrefetch(Window) ELSE hnd
    /\ pl' = [pl EXCEPT !.pc = "head"]
    /\ UNCHANGED <<mode, queue, srv, pending, gen, sink, reported, failures>>

\* The player thread of play_streamed_response waits for speech or for the end of it
PlayerWaits ==
    /\ PlayerAt("wait")
    /\ \/ queue # <<>> /\ pl' = [pl EXCEPT !.pc = "head", !.played = <<>>]
       \/ queue = <<>> /\ pl.finished /\ pl' = [pl EXCEPT !.pc = "done"]
    /\ sink' = [sink EXCEPT !.pc = "none"]
    /\ UNCHANGED <<mode, queue, hnd, srv, pending, gen, reported, failures>>

\* The head of the queue, with a handle
TakeHead ==
    /\ PlayerAt("head")
    /\ LET h == StartPrefetch(PrefetchLimit)
       IN  IF queue = <<>> THEN /\ pl' = [pl EXCEPT !.pc = "close"]
                                /\ hnd' = hnd
           ELSE /\ pl' = [pl EXCEPT !.pc = "progress", !.cur = Head(queue), !.have = 0]
                /\ hnd' = IF h[Head(queue)].th # "none" THEN h
                          ELSE [h EXCEPT ![Head(queue)].th = "start"]
    /\ UNCHANGED <<mode, queue, srv, pending, gen, sink, reported, failures>>

\* wait_progress returns: more chunks, the end of the stream, or its error
Progress ==
    /\ PlayerAt("progress")
    /\ hnd' = StartPrefetch(PrefetchLimit)
    /\ LET h == hnd[pl.cur]
       IN  \/ h.th = "failed" /\ pl' = [pl EXCEPT !.pc = "discard", !.deferred = TRUE]
           \/ h.th # "failed" /\ h.noted > pl.have /\ pl' = [pl EXCEPT !.pc = "write"]
           \/ h.th = "complete" /\ h.noted = pl.have /\ pl' = [pl EXCEPT !.pc = "discard"]
    /\ sink' = [sink EXCEPT !.pc = IF pl'.pc = "write" /\ @ = "none" THEN "open" ELSE @]
    /\ UNCHANGED <<mode, queue, srv, pending, gen, reported, failures>>

\* The user barges in while the player waits for the handle, which is cancelled
InterruptWait ==
    /\ PlayerAt("progress") /\ hnd[pl.cur].th # "failed" /\ hnd[pl.cur].noted = pl.have
    /\ Cancels(pl.cur)
    /\ hnd' = [hnd EXCEPT ![pl.cur].cancelled = TRUE]
    /\ pl' = [pl EXCEPT !.pc = "discard", !.cut = TRUE]
    /\ sink' = Stop(sink)
    /\ UNCHANGED <<mode, queue, gen, reported, failures>>

\* wait_progress gives up on the handle
ProgressTimesOut ==
    /\ PlayerAt("progress") /\ ~Ended(pl.cur)
    /\ Fault
    /\ pl' = [pl EXCEPT !.pc = "discard", !.deferred = TRUE]
    /\ UNCHANGED <<mode, queue, hnd, srv, pending, gen, sink, reported>>

\* A chunk is written to pw-play in full; its file may be gone
WriteChunk ==
    /\ PlayerAt("write")
    /\ IF ~srv[pl.cur].files
       THEN /\ pl' = [pl EXCEPT !.pc = "discard", !.deferred = TRUE]
            /\ UNCHANGED <<hnd, sink>>
       ELSE /\ sink' = [sink EXCEPT !.buf = Append(@, pl.cur)]
            /\ pl' = [pl EXCEPT !.pc = "progress", !.have = @ + 1]
            /\ hnd' = StartPrefetch(PrefetchLimit)
    /\ UNCHANGED <<mode, queue, srv, pending, gen, reported, failures>>

InterruptWrite ==
    /\ PlayerAt("write")
    /\ pl' = [pl EXCEPT !.pc = "discard", !.cut = TRUE]
    /\ sink' = Stop(sink)
    /\ UNCHANGED <<mode, queue, hnd, srv, pending, gen, reported, failures>>

\* _PlaybackFailure: pw-play exits, closes its input or takes nothing any more
WriteFails ==
    /\ PlayerAt("write")
    /\ Fault
    /\ pl' = [pl EXCEPT !.pc = "discard", !.deferred = TRUE, !.failed = TRUE]
    /\ UNCHANGED <<mode, queue, hnd, srv, pending, gen, sink, reported>>

\* PrefetchHandle.discard, up to the join: cancelled unless its thread has finished
BeginDiscard(r) ==
    /\ pl.join = 0
    /\ hnd[r].th # "none" /\ ~hnd[r].discarded
    /\ IF Ended(r) THEN /\ hnd' = [hnd EXCEPT ![r].discarded = TRUE]
                        /\ UNCHANGED <<srv, pending>>
                   ELSE /\ hnd' = [hnd EXCEPT ![r].discarded = TRUE, ![r].cancelled = TRUE]
                        /\ Cancels(r)
    /\ pl' = [pl EXCEPT !.join = r]
    /\ UNCHANGED <<mode, queue, gen, sink, reported, failures>>

\* The thread is gone: the chunks of a complete utterance are removed
Joined(r) == /\ Ended(r)
             /\ srv' = [srv EXCEPT ![r].files = @ /\ hnd[r].th = "failed"]

\* The thread does not stop in time: the discard may be tried again, and raises
JoinTimesOut(r) == /\ ~Ended(r)
                   /\ Fault
                   /\ hnd' = [hnd EXCEPT ![r].discarded = FALSE]

\* The result of an item: cut when the user or an error ended it early
Result(r) == [r |-> r, cut |-> pl.cut \/ pl.deferred]

\* The end of an item: discarded, cleaned up, taken off the queue, recorded
FinishItem ==
    /\ PlayerAt("discard")
    /\ hnd[pl.cur].discarded
    /\ \/ pl.join = 0 /\ UNCHANGED srv
       \/ pl.join = pl.cur /\ Joined(pl.cur)
    /\ queue' = IF queue # <<>> /\ Head(queue) = pl.cur THEN Tail(queue) ELSE queue
    /\ LET ends == pl.cut \/ pl.deferred
       IN  pl' = [pl EXCEPT !.pc = IF ends THEN "close" ELSE "head", !.join = 0,
                            !.played = IF pl.deferred /\ pl.have = 0 THEN @
                                       ELSE Append(@, Result(pl.cur))]
    /\ UNCHANGED <<mode, hnd, pending, gen, sink, reported, failures>>

\* The discard raises: the item stays, the batch is forgotten and pw-play is stopped
ItemRaises ==
    /\ PlayerAt("discard") /\ pl.join = pl.cur
    /\ JoinTimesOut(pl.cur)
    /\ pl' = [pl EXCEPT !.pc = "raise", !.join = 0, !.jammed = TRUE]
    /\ sink' = Stop(sink)
    /\ UNCHANGED <<mode, queue, srv, pending, gen, reported>>

\* Mutant: a sink that failed does not invalidate what was written before.
CloseIgnoringFailure ==
    /\ PlayerAt("close")
    /\ \/ sink.pc # "open" /\ pl' = [pl EXCEPT !.pc = "report"] /\ UNCHANGED sink
       \/ sink.pc = "open" /\ (pl.cut \/ pl.failed)
          /\ pl' = [pl EXCEPT !.pc = "report"]
          /\ sink' = Terminated
       \/ sink.pc = "open" /\ ~pl.cut /\ ~pl.failed
          /\ pl' = [pl EXCEPT !.pc = "flush"] /\ UNCHANGED sink
    /\ UNCHANGED <<mode, queue, hnd, srv, pending, gen, reported, failures>>

Invalidated == [i \in DOMAIN pl.played |-> [pl.played[i] EXCEPT !.cut = TRUE]]

\* After the last item: a failed sink invalidates the batch, an interruption does not
CloseSink ==
    /\ PlayerAt("close")
    /\ \/ sink.pc # "open"
          /\ pl' = [pl EXCEPT !.pc = "report",
                              !.played = IF pl.failed THEN Invalidated ELSE @]
          /\ UNCHANGED sink
       \/ sink.pc = "open" /\ (pl.cut \/ pl.failed)
          /\ pl' = [pl EXCEPT !.pc = "report",
                              !.played = IF pl.failed THEN Invalidated ELSE @]
          /\ sink' = Terminated
       \/ sink.pc = "open" /\ ~pl.cut /\ ~pl.failed
          /\ pl' = [pl EXCEPT !.pc = "flush"] /\ UNCHANGED sink
    /\ UNCHANGED <<mode, queue, hnd, srv, pending, gen, reported, failures>>

\* pw-play plays what it was given, whatever the player does meanwhile
Sounds ==
    /\ sink.pc = "open" /\ sink.buf # <<>>
    /\ sink' = [sink EXCEPT !.buf = Tail(@), !.heard[Head(sink.buf)] = @ + 1]
    /\ UNCHANGED <<mode, queue, hnd, srv, pending, gen, pl, reported, failures>>

\* _wait_for_process: pw-play ends after its last sample, or the user barges in first and
\* the whole batch counts as interrupted
FlushSink ==
    /\ PlayerAt("flush")
    /\ \/ /\ sink.buf = <<>>
          /\ sink' = Terminated
          /\ pl' = [pl EXCEPT !.pc = "report"]
          /\ UNCHANGED failures
       \/ /\ sink' = Terminated
          /\ pl' = [pl EXCEPT !.pc = "report", !.cut = TRUE, !.played = Invalidated]
          /\ UNCHANGED failures
       \/ /\ Fault
          /\ sink' = Terminated
          /\ pl' = [pl EXCEPT !.pc = "raise"]
    /\ UNCHANGED <<mode, queue, hnd, srv, pending, gen, reported>>

\* on_played for the batch, once pw-play is gone; an error is raised after it.  The lease
\* guard forgets a request whose callback ran
Report ==
    /\ PlayerAt("report")
    /\ reported' = [r \in Requests |->
                      LET res == {i \in DOMAIN pl.played : pl.played[i].r = r}
                      IN  IF res = {} THEN reported[r]
                          ELSE IF \E i \in res : pl.played[i].cut THEN "cut" ELSE "played"]
    /\ pl' = [pl EXCEPT !.pc = IF pl.deferred THEN "raise"
                               ELSE IF mode = "reply" THEN "done"
                               ELSE IF pl.cut THEN "clear"
                               ELSE IF mode = "stream" THEN "wait" ELSE "done",
                        !.stopped = @ \/ (mode = "stream" /\ pl.cut /\ ~pl.deferred)]
    /\ UNCHANGED <<mode, queue, hnd, srv, pending, gen, sink, failures>>

\* The caller of drain meets the exception: play_response passes it on
DrainRaises ==
    /\ PlayerAt("raise")
    /\ pl' = [pl EXCEPT !.pc = IF mode = "reply" THEN "done" ELSE "clear",
                        !.error = TRUE, !.stopped = @ \/ mode = "stream"]
    /\ UNCHANGED <<mode, queue, hnd, srv, pending, gen, sink, reported, failures>>

(***************************************************************************)
(* PlaybackQueue.clear, under the queue's lock.                            *)
(***************************************************************************)

Undiscarded == {i \in DOMAIN queue : hnd[queue[i]].th # "none" /\ ~hnd[queue[i]].discarded}

Discard ==
    \/ PlayerAt("discard") /\ BeginDiscard(pl.cur)
    \/ /\ PlayerAt("clear")
       /\ \E i \in Undiscarded : (\A j \in Undiscarded : i <= j) /\ BeginDiscard(queue[i])

ClearOne ==
    /\ PlayerAt("clear") /\ pl.join # 0
    /\ Joined(pl.join)
    /\ pl' = [pl EXCEPT !.join = 0]
    /\ UNCHANGED <<mode, queue, hnd, pending, gen, sink, reported, failures>>

ClearQueue ==
    /\ PlayerAt("clear") /\ pl.join = 0 /\ Undiscarded = {}
    /\ queue' = <<>>
    /\ pl' = [pl EXCEPT !.pc = IF mode = "announce" THEN "release" ELSE "done"]
    /\ UNCHANGED <<mode, hnd, srv, pending, gen, sink, reported, failures>>

\* A handle that does not stop: the queue keeps its items.  An interruption's clear is
\* tried once more by the handler of the exception, whose own clear ends the turn
ClearRaises ==
    /\ PlayerAt("clear") /\ pl.join # 0
    /\ JoinTimesOut(pl.join)
    /\ pl' = [pl EXCEPT !.pc = IF pl.error THEN "done" ELSE "clear",
                        !.join = 0, !.error = TRUE, !.jammed = TRUE]
    /\ UNCHANGED <<mode, queue, srv, pending, gen, sink, reported>>

\* release_unfinished: what was neither played nor cut
Unfinished(r) == reported[r] = "nothing"

ReleaseClaims ==
    /\ PlayerAt("release")
    /\ reported' = [r \in Requests |-> IF Unfinished(r) THEN "released" ELSE reported[r]]
    /\ pl' = [pl EXCEPT !.pc = "done"]
    /\ UNCHANGED <<mode, queue, hnd, srv, pending, gen, sink, failures>>

(***************************************************************************)
(* play_streamed_response: the thread that generates the response.         *)
(***************************************************************************)

\* The condition is held while the player clears the queue
ConditionFree == ~PlayerAt("clear")

\* PlaybackQueue.enqueue: a handle at once only while the queue is being drained
Enqueues(r) ==
    /\ queue' = Append(queue, r)
    /\ hnd' = IF Draining /\ Cardinality(Active) < PrefetchLimit
              THEN [hnd EXCEPT ![r].th = "start"] ELSE hnd

\* Mutant: speech is queued even after the user stopped it.
SpeakAnyway == gen.pc = "generate" /\ gen.next <= N /\ ConditionFree

\* on_text_chunk and flush_text_chunks refuse once stopped
MaySpeak == gen.pc = "generate" /\ gen.next <= N /\ ConditionFree /\ ~pl.stopped

GenerateText ==
    /\ MaySpeak
    /\ Enqueues(gen.next)
    /\ gen' = [gen EXCEPT !.next = @ + 1]
    /\ UNCHANGED <<mode, srv, pending, pl, sink, reported, failures>>

\* Mutant: the end of the generation is announced only when it succeeded.
EndsQuietly(failed) == pl' = [pl EXCEPT !.finished = ~failed]

\* The finally clause: finished is set on success, refusal and error alike
Announces(failed) == pl' = [pl EXCEPT !.finished = TRUE]

GenerationEnds ==
    /\ gen.pc = "generate" /\ ConditionFree
    /\ \/ Announces(FALSE) /\ gen' = [gen EXCEPT !.pc = "join"] /\ UNCHANGED failures
       \/ Fault /\ Announces(TRUE) /\ gen' = [gen EXCEPT !.pc = "failed"]
    /\ UNCHANGED <<mode, queue, hnd, srv, pending, sink, reported>>

\* The player is joined; a response that was never streamed is played as a whole
JoinPlayer ==
    /\ gen.pc \in {"join", "failed"} /\ PlayerAt("done")
    /\ IF gen.pc = "join" /\ gen.next = 1 /\ ~pl.error
       THEN /\ mode' = "reply"
            /\ queue' = <<1>>
            /\ pl' = [pl EXCEPT !.pc = "off", !.played = <<>>]
       ELSE UNCHANGED <<mode, queue, pl>>
    /\ gen' = [gen EXCEPT !.pc = "done"]
    /\ UNCHANGED <<hnd, srv, pending, sink, reported, failures>>

(***************************************************************************)
(* The specification.                                                      *)
(***************************************************************************)

Handle(r) == SubmitRequest(r) \/ ReadChunk(r) \/ ReadDone(r) \/ ReadFails(r)
Server(r) == AcceptStream(r) \/ TakeModel(r) \/ Synthesize(r) \/ EmitChunk(r)
Player == \/ StartDrain \/ PlayerWaits \/ TakeHead \/ Progress \/ InterruptWait
          \/ ProgressTimesOut \/ WriteChunk \/ InterruptWrite \/ WriteFails \/ Discard
          \/ FinishItem \/ ItemRaises \/ CloseSink \/ FlushSink \/ Report \/ DrainRaises
          \/ ClearOne \/ ClearQueue \/ ClearRaises \/ ReleaseClaims
Generator == GenerateText \/ GenerationEnds \/ JoinPlayer

SpeechNext == \/ \E r \in Requests : Handle(r) \/ Server(r)
              \/ Player \/ Generator \/ Sounds \/ ForgetCancellation

SpeechSpec == SpeechInit /\ [][SpeechNext]_speechVars

\* Every thread and process that can go on does.
FairSpeech == /\ SpeechSpec
              /\ \A r \in Requests : WF_speechVars(Handle(r)) /\ WF_speechVars(Server(r))
              /\ WF_speechVars(Player) /\ WF_speechVars(Generator) /\ WF_speechVars(Sounds)

(***************************************************************************)
(* Properties.                                                             *)
(***************************************************************************)

TurnOver == PlayerAt("done") /\ gen.pc \in {"off", "done"}

\* A request the daemon is told was played was heard to its last chunk, also when a later
\* request of the batch, its stream or the sink failed.  A barge-in is left out: it cuts
\* what pw-play still buffers of the requests before the one it interrupts.
PlayedIsHeard ==
    \A r \in Requests : reported[r] = "played" => sink.heard[r] = Chunks \/ pl.cut

\* A turn that is over leaves nothing behind, however it ended, unless a handle refused to
\* stop: nothing is queued to be spoken later, every handle's thread has ended, every
\* announcement was reported or its claim released, and what was played in full left no
\* files.
TurnLeavesNothing ==
    TurnOver /\ ~pl.jammed =>
        /\ queue = <<>>
        /\ \A r \in Requests :
             /\ hnd[r].th = "none" \/ Ended(r)
             /\ mode = "announce" => reported[r] # "nothing"
             /\ reported[r] = "played" => ~srv[r].files

\* Every turn comes to an end: the generator, the player and the handles never wait for
\* each other for ever, whatever fails.
TurnEnds == <>TurnOver

(***************************************************************************)
(* The inductive invariant behind the two safety properties.               *)
(***************************************************************************)

Occurs(s, r) == Cardinality({i \in DOMAIN s : s[i] = r})

\* Chunks of a request that pw-play has played, or was given and still holds
Written(r) == sink.heard[r] + Occurs(sink.buf, r)

Busy == pl.pc \in {"progress", "write", "discard"}
Going == pl.pc \in {"off", "wait", "head", "close", "flush", "report"} \/ Busy
InPlay(r) == Busy /\ pl.cur = r
Recorded(r) == \E i \in DOMAIN pl.played : pl.played[i].r = r
InFull(r) == \E i \in DOMAIN pl.played : pl.played[i].r = r /\ ~pl.played[i].cut

\* Requests are queued in order, the one being played is the head, and a streamed
\* response queues the next one.
QueueShape ==
    /\ \A i, j \in DOMAIN queue : queue[i] + j = queue[j] + i
    /\ Busy => queue # <<>> /\ queue[1] = pl.cur
    /\ mode = "stream" => queue = <<>> \/ queue[Len(queue)] + 1 = gen.next
    /\ mode = "reply" => Len(queue) <= 1

\* A handle is complete only with all chunks of a stream that was; a handle off the
\* queue, or discarded and joined, has ended.
HandleShape(r) ==
    /\ srv[r].pc = "emit" => srv[r].emitted < Chunks
    /\ srv[r].pc = "done" => srv[r].emitted = Chunks
    /\ hnd[r].th = "none" => hnd[r] = NoHandle /\ ~InPlay(r)
    /\ hnd[r].th = "complete" => srv[r].pc = "done" /\ hnd[r].noted = Chunks
    /\ hnd[r].th = "none" \/ Queued(r) \/ Ended(r)
    /\ hnd[r].discarded => pl.join = r \/ Ended(r)
    /\ hnd[r].discarded /\ Going /\ Queued(r) => PlayerAt("discard") /\ pl.join = r

\* What the request being played, those to be played and those to come gave to pw-play.
WriteShape(r) ==
    /\ Written(r) <= Chunks
    /\ InPlay(r) =>
         /\ Written(r) <= pl.have
         /\ ~pl.cut => Written(r) = pl.have
         /\ PlayerAt("write") => pl.have < hnd[r].noted
         /\ PlayerAt("discard") /\ ~pl.cut /\ ~pl.deferred =>
              hnd[r].th = "complete" /\ pl.have = Chunks
    /\ Going /\ Queued(r) /\ ~InPlay(r) => Written(r) = 0
    /\ mode = "stream" /\ gen.next <= r => hnd[r].th = "none" /\ Written(r) = 0

\* A request recorded as played in full had a complete stream, all of it given to
\* pw-play; one reported as played was heard.  No announcement is forgotten.
ResultShape(r) ==
    /\ (Draining \/ PlayerAt("report")) /\ InFull(r) =>
         /\ hnd[r].th = "complete" /\ ~srv[r].files
         /\ ~pl.cut => Written(r) = Chunks
    /\ reported[r] = "played" =>
         /\ hnd[r].th = "complete" /\ ~srv[r].files
         /\ sink.heard[r] = Chunks \/ pl.cut
    /\ mode = "announce" /\ Going /\ ~pl.deferred => Queued(r) \/ Recorded(r)
    /\ mode = "announce" /\ PlayerAt("done") /\ ~pl.jammed => reported[r] # "nothing"

\* pw-play runs only while a batch is played, and is stopped early only by a barge-in.
SinkShape ==
    /\ sink.buf # <<>> => sink.pc = "open"
    /\ sink.pc = "open" => Draining
    /\ PlayerAt("off") => sink.pc = "none" /\ pl.played = <<>>
    /\ pl.pc \in {"head", "progress", "write", "discard", "close"} /\ ~pl.cut =>
         sink.pc # "ended"
    /\ PlayerAt("write") => sink.pc = "open"
    /\ PlayerAt("flush") => ~pl.cut /\ ~pl.failed
    /\ pl.failed => pl.deferred
    /\ pl.pc \in {"off", "wait", "head", "progress", "write"} =>
         ~pl.cut /\ ~pl.deferred /\ ~pl.failed
    /\ pl.join # 0 => PlayerAt("discard") \/ PlayerAt("clear")
    /\ PlayerAt("discard") => pl.join \in {0, pl.cur}

\* How a turn that is not streamed, and one that is, get to their end.
TurnShape ==
    /\ mode # "stream" => gen.pc \in {"off", "done"} /\ ~PlayerAt("wait")
    /\ mode = "stream" =>
         /\ gen.pc # "off" /\ ~PlayerAt("off") /\ ~PlayerAt("release")
         /\ gen.next = 1 => /\ pl.pc \in {"wait", "done"} /\ sink.pc = "none"
                            /\ ~pl.cut /\ ~pl.deferred /\ ~pl.failed
         /\ pl.finished <=> gen.pc # "generate"
         /\ PlayerAt("clear") => pl.stopped
         /\ PlayerAt("done") => pl.stopped \/ pl.finished
    /\ mode = "reply" => ~PlayerAt("clear") /\ ~PlayerAt("release")
    /\ mode = "reply" /\ pl.pc \in {"close", "flush", "report", "raise"} /\ ~pl.jammed =>
         queue = <<>>
    /\ mode = "announce" /\ pl.pc \in {"close", "flush", "report"} /\ ~pl.cut /\ ~pl.deferred =>
         queue = <<>>
    /\ pl.pc \in {"done", "release"} /\ ~pl.jammed => queue = <<>>

\* Everything the safety properties rest on, as one inductive invariant.
SpeechInv ==
    /\ QueueShape /\ SinkShape /\ TurnShape
    /\ \A r \in Requests : HandleShape(r) /\ WriteShape(r) /\ ResultShape(r)
=============================================================================
