--------------------------- MODULE VoiceTurnProofs ---------------------------
(***************************************************************************)
(* The daemon never acts twice on one utterance, and no audio is lost, for *)
(* any number of utterances, retained deliveries, crashes and lost         *)
(* answers.                                                                *)
(***************************************************************************)
EXTENDS VoiceTurn, FiniteSetTheorems, TLAPS

Inv == TypeOK /\ TurnInv

USE DEF Utterances

\* Nothing was recorded: every shape holds of the first state.
LEMMA InitInv == Init => Inv
<1> SUFFICES ASSUME Init PROVE Inv
    OBVIOUS
<1>1. Idle \in Daemons
    BY DEF Idle, Daemons, DaemonPcs, Phases
<1>2. TypeOK
    <2>1. conn \in [Utterances -> Conns]
        BY DEF Init, Connection, Conns, Ends
    <2>2. hnd \in [Utterances -> HandlerPcs] /\ client \in [Utterances -> ClientPcs]
        BY DEF Init, HandlerPcs, ClientPcs
    <2>3. faults \in 0..MaxFaults
        BY VoiceConstants DEF Init
    <2> QED
        BY <1>1, <2>1, <2>2, <2>3 DEF Init, TypeOK, Places, States, Fates
<1>3. CallShape
    BY DEF Init, CallShape, Idle
<1>4. ASSUME NEW u \in Utterances PROVE FileShape(u) /\ UnrecordedShape(u)
    <2>1. u # None
        BY VoiceConstants
    <2> QED
        BY <2>1 DEF Init, FileShape, UnrecordedShape, Idle
<1>5. ASSUME NEW u \in Voice PROVE FenceShape(u)
    BY VoiceConstants DEF Init, FenceShape, Pendings, Replayable, Idle
<1> QED
    BY <1>2, <1>3, <1>4, <1>5 DEF Inv, TurnInv

\* FileShape depends on the utterance's own files, thread and metadata only.
LEMMA KeepFileShape ==
    ASSUME NEW u \in Utterances, FileShape(u),
           file'[u] = file[u], hnd'[u] = hnd[u], meta'[u] = meta[u], up' = up
    PROVE  FileShape(u)'
BY DEF FileShape

\* A step that leaves the daemon, the requests and the side effects alone, and makes no
\* delivery pending, keeps the fence.
LEMMA KeepFence ==
    ASSUME Inv, UNCHANGED <<ops, daemon, acted>>,
           \A u \in Voice : meta'[u] \in {"pending", "terminal"} => meta'[u] = meta[u]
    PROVE  CallShape' /\ \A u \in Voice : FenceShape(u)'
<1>1. CallShape'
    BY DEF Inv, TurnInv, CallShape
<1>2. ASSUME NEW u \in Voice PROVE FenceShape(u)'
    BY DEF Inv, TurnInv, FenceShape, Pendings, Replayable
<1> QED
    BY <1>1, <1>2

\* A server thread or a client works on the audio of one recorded utterance.
LEMMA HandlerStep ==
    ASSUME Inv, NEW u \in Utterances, recorded' = recorded \cup {u},
           UNCHANGED <<ops, daemon, up, acted>>,
           \A v \in Utterances \ {u} : /\ file'[v] = file[v] /\ hnd'[v] = hnd[v]
                                       /\ meta'[v] = meta[v] /\ client'[v] = client[v],
           meta'[u] \in {"pending", "terminal"} => meta'[u] = meta[u],
           FileShape(u)'
    PROVE  TurnInv'
<1>1. CallShape' /\ \A v \in Voice : FenceShape(v)'
    <2>1. \A v \in Voice : meta'[v] \in {"pending", "terminal"} => meta'[v] = meta[v]
        OBVIOUS
    <2> QED
        BY <2>1, KeepFence
<1>2. ASSUME NEW v \in Utterances PROVE FileShape(v)'
    <2>1. CASE v = u
        BY <2>1
    <2>2. CASE v # u
        BY <2>2, KeepFileShape DEF Inv, TurnInv
    <2> QED
        BY <2>1, <2>2
<1>3. ASSUME NEW v \in Utterances PROVE UnrecordedShape(v)'
    BY DEF Inv, TurnInv, UnrecordedShape
<1> QED
    BY <1>1, <1>2, <1>3 DEF TurnInv

\* A thread exists for a recorded utterance only.
LEMMA Working ==
    ASSUME Inv, NEW u \in Utterances, hnd[u] # "none"
    PROVE  u \in recorded /\ up /\ FileShape(u)
BY DEF Inv, TurnInv, UnrecordedShape, FileShape, TypeOK

\* Audio has one place, but for the two links of a restore under way.
LEMMA OnePlace ==
    ASSUME Inv, NEW u \in Utterances, NEW a \in file[u],
           a \in {"generation", "processing"} => up /\ hnd[u] # "linked"
    PROVE  file[u] = {a}
<1>1. FileShape(u)
    BY DEF Inv, TurnInv
<1>2. ASSUME NEW b \in file[u], b # a PROVE FALSE
    <2>1. {a, b} = {"generation", "processing"}
        BY <1>1, <1>2 DEF FileShape
    <2>2. {"generation", "processing"} \subseteq file[u]
        BY <2>1
    <2>3. a \in {"generation", "processing"}
        BY <2>1
    <2> QED
        BY <1>1, <2>2, <2>3 DEF FileShape
<1> QED
    BY <1>2

\* The invariant survives the claim of a recording.
LEMMA ClaimInv ==
    ASSUME Inv, NEW u \in Utterances, Claim(u)
    PROVE  Inv'
<1>1. u \in recorded /\ up /\ FileShape(u)
    BY Working DEF Claim
<1>2. TypeOK'
    BY VoiceConstants DEF Claim, Close, Move, NotServer, HandlerTo, EndAs, audio, ghost, Inv, TypeOK, Places, States,
       HandlerPcs, Conns, Ends
<1>3. FileShape(u)'
    <2>1. CASE slot = None /\ "generation" \in file[u]
        <3>1. file[u] = {"generation"}
            BY <1>1, <2>1, OnePlace DEF Claim
        <3>2. file'[u] = {"processing"} /\ hnd'[u] = "transcribing" /\ up'
            BY <1>1, <2>1, <3>1 DEF Claim, Move, HandlerTo, NotServer, Inv, TypeOK
        <3> QED
            BY <3>2 DEF FileShape
    <2>2. CASE ~(slot = None /\ "generation" \in file[u])
        BY <1>1, <2>2 DEF Claim, Close, NotServer, HandlerTo, Inv, TypeOK, FileShape
    <2> QED
        BY <2>1, <2>2
<1>4. TurnInv'
    <2>1. UNCHANGED <<recorded, ops, client, daemon, up, acted>>
        BY DEF Claim, Close, Move, NotServer, HandlerTo, EndAs, audio, ghost
    <2>2. \A v \in Utterances \ {u} : file'[v] = file[v] /\ hnd'[v] = hnd[v] /\ meta'[v] = meta[v]
        BY DEF Claim, Close, Move, NotServer, HandlerTo, EndAs, audio, ghost, Inv, TypeOK
    <2>3. meta'[u] \in {"pending", "terminal"} => meta'[u] = meta[u]
        BY DEF Claim, Close, Move, NotServer, HandlerTo, EndAs, audio, ghost, Inv, TypeOK
    <2> QED
        BY <1>1, <1>3, <2>1, <2>2, <2>3, HandlerStep
<1> QED
    BY <1>2, <1>4 DEF Inv

\* The invariant survives the transcript that is sent.
LEMMA TranscribedInv ==
    ASSUME Inv, NEW u \in Utterances, Transcribed(u)
    PROVE  Inv'
<1>1. u \in recorded /\ up /\ FileShape(u)
    BY Working DEF Transcribed
<1>2. TypeOK'
    <2>1. conn' \in [Utterances -> Conns]
        <3>1. conn[u] \in Conns
            BY DEF Inv, TypeOK
        <3>2. [conn[u] EXCEPT !.resp = TRUE] \in Conns
            BY <3>1 DEF Conns
        <3> QED
            BY <3>2 DEF Transcribed, Inv, TypeOK
    <2>2. hnd' \in [Utterances -> HandlerPcs]
        BY DEF Transcribed, HandlerTo, Inv, TypeOK, HandlerPcs
    <2> QED
        BY <2>1, <2>2 DEF Transcribed, NotServer, audio, ghost, Inv, TypeOK
<1>3. FileShape(u)'
    BY <1>1 DEF Transcribed, NotServer, HandlerTo, audio, ghost, Inv, TypeOK, FileShape
<1>4. TurnInv'
    <2>1. UNCHANGED <<recorded, ops, client, daemon, up, acted>>
        BY DEF Transcribed, NotServer, HandlerTo, audio, ghost
    <2>2. \A v \in Utterances \ {u} : file'[v] = file[v] /\ hnd'[v] = hnd[v] /\ meta'[v] = meta[v]
        BY DEF Transcribed, NotServer, HandlerTo, audio, ghost, Inv, TypeOK
    <2>3. meta'[u] \in {"pending", "terminal"} => meta'[u] = meta[u]
        BY DEF Transcribed, NotServer, HandlerTo, audio, ghost, Inv, TypeOK
    <2> QED
        BY <1>1, <1>3, <2>1, <2>2, <2>3, HandlerStep
<1> QED
    BY <1>2, <1>4 DEF Inv

\* The invariant survives a failing transcription.
LEMMA TranscriptionFailsInv ==
    ASSUME Inv, NEW u \in Utterances, TranscriptionFails(u)
    PROVE  Inv'
<1>1. u \in recorded /\ up /\ FileShape(u)
    BY Working DEF TranscriptionFails
<1>2. TypeOK'
    BY VoiceConstants DEF TranscriptionFails, NotServer, HandlerTo, Fault, audio, ghost, Inv, TypeOK, Places, States,
       HandlerPcs, Conns, Ends
<1>3. FileShape(u)'
    BY <1>1 DEF TranscriptionFails, NotServer, HandlerTo, Fault, audio, ghost, Inv, TypeOK, FileShape
<1>4. TurnInv'
    <2>1. UNCHANGED <<recorded, ops, client, daemon, up, acted>>
        BY DEF TranscriptionFails, NotServer, HandlerTo, Fault, audio, ghost
    <2>2. \A v \in Utterances \ {u} : file'[v] = file[v] /\ hnd'[v] = hnd[v] /\ meta'[v] = meta[v]
        BY DEF TranscriptionFails, NotServer, HandlerTo, Fault, audio, ghost, Inv, TypeOK
    <2>3. meta'[u] \in {"pending", "terminal"} => meta'[u] = meta[u]
        BY DEF TranscriptionFails, NotServer, HandlerTo, Fault, audio, ghost, Inv, TypeOK
    <2> QED
        BY <1>1, <1>3, <2>1, <2>2, <2>3, HandlerStep
<1> QED
    BY <1>2, <1>4 DEF Inv

\* The invariant survives an acknowledgement that is read.
LEMMA AckReadInv ==
    ASSUME Inv, NEW u \in Utterances, AckRead(u)
    PROVE  Inv'
<1>1. u \in recorded /\ up /\ FileShape(u)
    BY Working DEF AckRead
<1>2. TypeOK'
    BY VoiceConstants DEF AckRead, NotServer, HandlerTo, Move, audio, ghost, Inv, TypeOK, Places, States,
       HandlerPcs, Conns, Ends
<1>3. FileShape(u)'
    BY <1>1 DEF AckRead, NotServer, HandlerTo, Move, audio, ghost, Inv, TypeOK, FileShape
<1>4. TurnInv'
    <2>1. UNCHANGED <<recorded, ops, client, daemon, up, acted>>
        BY DEF AckRead, NotServer, HandlerTo, Move, audio, ghost
    <2>2. \A v \in Utterances \ {u} : file'[v] = file[v] /\ hnd'[v] = hnd[v] /\ meta'[v] = meta[v]
        BY DEF AckRead, NotServer, HandlerTo, Move, audio, ghost, Inv, TypeOK
    <2>3. meta'[u] \in {"pending", "terminal"} => meta'[u] = meta[u]
        BY DEF AckRead, NotServer, HandlerTo, Move, audio, ghost, Inv, TypeOK
    <2> QED
        BY <1>1, <1>3, <2>1, <2>2, <2>3, HandlerStep
<1> QED
    BY <1>2, <1>4 DEF Inv

\* The invariant survives a commit that fails.
LEMMA CommitFailsInv ==
    ASSUME Inv, NEW u \in Utterances, CommitFails(u)
    PROVE  Inv'
<1>1. u \in recorded /\ up /\ FileShape(u)
    BY Working DEF CommitFails
<1>2. TypeOK'
    BY VoiceConstants DEF CommitFails, NotServer, HandlerTo, Fault, audio, ghost, Inv, TypeOK, Places, States,
       HandlerPcs, Conns, Ends
<1>3. FileShape(u)'
    BY <1>1 DEF CommitFails, NotServer, HandlerTo, Fault, audio, ghost, Inv, TypeOK, FileShape
<1>4. TurnInv'
    <2>1. UNCHANGED <<recorded, ops, client, daemon, up, acted>>
        BY DEF CommitFails, NotServer, HandlerTo, Fault, audio, ghost
    <2>2. \A v \in Utterances \ {u} : file'[v] = file[v] /\ hnd'[v] = hnd[v] /\ meta'[v] = meta[v]
        BY DEF CommitFails, NotServer, HandlerTo, Fault, audio, ghost, Inv, TypeOK
    <2>3. meta'[u] \in {"pending", "terminal"} => meta'[u] = meta[u]
        BY DEF CommitFails, NotServer, HandlerTo, Fault, audio, ghost, Inv, TypeOK
    <2> QED
        BY <1>1, <1>3, <2>1, <2>2, <2>3, HandlerStep
<1> QED
    BY <1>2, <1>4 DEF Inv

\* The invariant survives an acknowledgement that does not come.
LEMMA AckTimeoutInv ==
    ASSUME Inv, NEW u \in Utterances, AckTimeout(u)
    PROVE  Inv'
<1>1. u \in recorded /\ up /\ FileShape(u)
    BY Working DEF AckTimeout
<1>2. TypeOK'
    BY VoiceConstants DEF AckTimeout, NotServer, HandlerTo, Fault, audio, ghost, Inv, TypeOK, Places, States,
       HandlerPcs, Conns, Ends
<1>3. FileShape(u)'
    BY <1>1 DEF AckTimeout, NotServer, HandlerTo, Fault, audio, ghost, Inv, TypeOK, FileShape
<1>4. TurnInv'
    <2>1. UNCHANGED <<recorded, ops, client, daemon, up, acted>>
        BY DEF AckTimeout, NotServer, HandlerTo, Fault, audio, ghost
    <2>2. \A v \in Utterances \ {u} : file'[v] = file[v] /\ hnd'[v] = hnd[v] /\ meta'[v] = meta[v]
        BY DEF AckTimeout, NotServer, HandlerTo, Fault, audio, ghost, Inv, TypeOK
    <2>3. meta'[u] \in {"pending", "terminal"} => meta'[u] = meta[u]
        BY DEF AckTimeout, NotServer, HandlerTo, Fault, audio, ghost, Inv, TypeOK
    <2> QED
        BY <1>1, <1>3, <2>1, <2>2, <2>3, HandlerStep
<1> QED
    BY <1>2, <1>4 DEF Inv

\* The invariant survives the deletion of delivered audio.
LEMMA DeleteDeliveredInv ==
    ASSUME Inv, NEW u \in Utterances, DeleteDelivered(u)
    PROVE  Inv'
<1>1. u \in recorded /\ up /\ FileShape(u)
    BY Working DEF DeleteDelivered
<1>2. TypeOK'
    BY VoiceConstants DEF DeleteDelivered, Close, NotServer, HandlerTo, EndAs, audio, ghost, Inv, TypeOK, Places, States,
       HandlerPcs, Conns, Ends
<1>3. FileShape(u)'
    BY <1>1 DEF DeleteDelivered, Close, NotServer, HandlerTo, EndAs, audio, ghost, Inv, TypeOK, FileShape
<1>4. TurnInv'
    <2>1. UNCHANGED <<recorded, ops, client, daemon, up, acted>>
        BY DEF DeleteDelivered, Close, NotServer, HandlerTo, EndAs, audio, ghost
    <2>2. \A v \in Utterances \ {u} : file'[v] = file[v] /\ hnd'[v] = hnd[v] /\ meta'[v] = meta[v]
        BY DEF DeleteDelivered, Close, NotServer, HandlerTo, EndAs, audio, ghost, Inv, TypeOK
    <2>3. meta'[u] \in {"pending", "terminal"} => meta'[u] = meta[u]
        BY DEF DeleteDelivered, Close, NotServer, HandlerTo, EndAs, audio, ghost, Inv, TypeOK
    <2> QED
        BY <1>1, <1>3, <2>1, <2>2, <2>3, HandlerStep
<1> QED
    BY <1>2, <1>4 DEF Inv

\* The invariant survives the move into the hidden delivery.
LEMMA StoreAudioInv ==
    ASSUME Inv, NEW u \in Utterances, StoreAudio(u)
    PROVE  Inv'
<1>1. u \in recorded /\ up /\ FileShape(u)
    BY Working DEF StoreAudio
<1>2. TypeOK'
    <2>1. stamp' \in [Utterances -> Nat]
        <3>1. IsFiniteSet({v \in Voice : stamp[v] # 0})
            BY FS_Subset, VoiceConstants
        <3>2. Cardinality({v \in Voice : stamp[v] # 0}) \in Nat
            BY <3>1, FS_CardinalityType
        <3> QED
            BY <3>2 DEF StoreAudio, Inv, TypeOK
    <2>2. hnd' \in [Utterances -> HandlerPcs] /\ meta' \in [Utterances -> States \cup {"none"}]
          /\ file' \in [Utterances -> SUBSET Places]
        BY DEF StoreAudio, HandlerTo, Move, Inv, TypeOK, HandlerPcs, States, Places
    <2> QED
        BY <2>1, <2>2 DEF StoreAudio, NotServer, ghost, Inv, TypeOK
<1>3. FileShape(u)'
    BY <1>1 DEF StoreAudio, Move, NotServer, HandlerTo, audio, ghost, Inv, TypeOK, FileShape
<1>4. TurnInv'
    <2>1. UNCHANGED <<recorded, ops, client, daemon, up, acted>>
        BY DEF StoreAudio, Move, NotServer, HandlerTo, audio, ghost
    <2>2. \A v \in Utterances \ {u} : file'[v] = file[v] /\ hnd'[v] = hnd[v] /\ meta'[v] = meta[v]
        BY DEF StoreAudio, Move, NotServer, HandlerTo, audio, ghost, Inv, TypeOK
    <2>3. meta'[u] \in {"pending", "terminal"} => meta'[u] = meta[u]
        BY DEF StoreAudio, Move, NotServer, HandlerTo, audio, ghost, Inv, TypeOK
    <2> QED
        BY <1>1, <1>3, <2>1, <2>2, <2>3, HandlerStep
<1> QED
    BY <1>2, <1>4 DEF Inv

\* The invariant survives the publication of a retained delivery.
LEMMA PublishRetainedInv ==
    ASSUME Inv, NEW u \in Utterances, PublishRetained(u)
    PROVE  Inv'
<1>1. u \in recorded /\ up /\ FileShape(u)
    BY Working DEF PublishRetained
<1>2. TypeOK'
    BY VoiceConstants DEF PublishRetained, Close, Move, NotServer, HandlerTo, EndAs, audio, ghost, Inv, TypeOK, Places, States,
       HandlerPcs, Conns, Ends
<1>3. FileShape(u)'
    <2>1. CASE "hidden" \in file[u]
        <3>1. file[u] = {"hidden"}
            BY <2>1, OnePlace
        <3>2. file'[u] = {"retained"} /\ hnd'[u] = "none" /\ up' /\ meta'[u] = meta[u]
            BY <1>1, <2>1, <3>1 DEF PublishRetained, Close, Move, HandlerTo, NotServer, Inv, TypeOK
        <3> QED
            BY <1>1, <2>1, <3>2 DEF FileShape
    <2>2. CASE "hidden" \notin file[u]
        BY <1>1, <2>2 DEF PublishRetained, Close, NotServer, HandlerTo, Inv, TypeOK, FileShape
    <2> QED
        BY <2>1, <2>2
<1>4. TurnInv'
    <2>1. UNCHANGED <<recorded, ops, client, daemon, up, acted>>
        BY DEF PublishRetained, Close, Move, NotServer, HandlerTo, EndAs, audio, ghost
    <2>2. \A v \in Utterances \ {u} : file'[v] = file[v] /\ hnd'[v] = hnd[v] /\ meta'[v] = meta[v]
        BY DEF PublishRetained, Close, Move, NotServer, HandlerTo, EndAs, audio, ghost, Inv, TypeOK
    <2>3. meta'[u] \in {"pending", "terminal"} => meta'[u] = meta[u]
        BY DEF PublishRetained, Close, Move, NotServer, HandlerTo, EndAs, audio, ghost, Inv, TypeOK
    <2> QED
        BY <1>1, <1>3, <2>1, <2>2, <2>3, HandlerStep
<1> QED
    BY <1>2, <1>4 DEF Inv

\* The invariant survives retention that fails.
LEMMA RetentionFailsInv ==
    ASSUME Inv, NEW u \in Utterances, RetentionFails(u)
    PROVE  Inv'
<1>1. u \in recorded /\ up /\ FileShape(u)
    BY Working DEF RetentionFails
<1>2. TypeOK'
    BY VoiceConstants DEF RetentionFails, Move, NotServer, HandlerTo, Fault, audio, ghost, Inv, TypeOK, Places, States,
       HandlerPcs, Conns, Ends
<1>3. FileShape(u)'
    <2>1. CASE hnd[u] = "storing"
        BY <1>1, <2>1 DEF RetentionFails, NotServer, HandlerTo, Inv, TypeOK, FileShape
    <2>2. CASE hnd[u] = "moved"
        <3>1. file[u] = {"hidden"}
            BY <2>2, OnePlace DEF RetentionFails
        <3>2. file'[u] = {"processing"} /\ hnd'[u] = "restoring" /\ up'
            BY <1>1, <2>2, <3>1 DEF RetentionFails, Move, HandlerTo, NotServer, Inv, TypeOK
        <3> QED
            BY <3>2 DEF FileShape
    <2> QED
        BY <2>1, <2>2 DEF RetentionFails
<1>4. TurnInv'
    <2>1. UNCHANGED <<recorded, ops, client, daemon, up, acted>>
        BY DEF RetentionFails, Move, NotServer, HandlerTo, Fault, audio, ghost
    <2>2. \A v \in Utterances \ {u} : file'[v] = file[v] /\ hnd'[v] = hnd[v] /\ meta'[v] = meta[v]
        BY DEF RetentionFails, Move, NotServer, HandlerTo, Fault, audio, ghost, Inv, TypeOK
    <2>3. meta'[u] \in {"pending", "terminal"} => meta'[u] = meta[u]
        BY DEF RetentionFails, Move, NotServer, HandlerTo, Fault, audio, ghost, Inv, TypeOK
    <2> QED
        BY <1>1, <1>3, <2>1, <2>2, <2>3, HandlerStep
<1> QED
    BY <1>2, <1>4 DEF Inv

\* The invariant survives a retention that cannot be undone.
LEMMA RollbackFailsInv ==
    ASSUME Inv, NEW u \in Utterances, RollbackFails(u)
    PROVE  Inv'
<1>1. u \in recorded /\ up /\ FileShape(u)
    BY Working DEF RollbackFails
<1>2. TypeOK'
    BY VoiceConstants DEF RollbackFails, Close, NotServer, HandlerTo, EndAs, Fault, audio, ghost, Inv, TypeOK, Places, States,
       HandlerPcs, Conns, Ends
<1>3. FileShape(u)'
    BY <1>1 DEF RollbackFails, Close, NotServer, HandlerTo, EndAs, Fault, audio, ghost, Inv, TypeOK, FileShape
<1>4. TurnInv'
    <2>1. UNCHANGED <<recorded, ops, client, daemon, up, acted>>
        BY DEF RollbackFails, Close, NotServer, HandlerTo, EndAs, Fault, audio, ghost
    <2>2. \A v \in Utterances \ {u} : file'[v] = file[v] /\ hnd'[v] = hnd[v] /\ meta'[v] = meta[v]
        BY DEF RollbackFails, Close, NotServer, HandlerTo, EndAs, Fault, audio, ghost, Inv, TypeOK
    <2>3. meta'[u] \in {"pending", "terminal"} => meta'[u] = meta[u]
        BY DEF RollbackFails, Close, NotServer, HandlerTo, EndAs, Fault, audio, ghost, Inv, TypeOK
    <2> QED
        BY <1>1, <1>3, <2>1, <2>2, <2>3, HandlerStep
<1> QED
    BY <1>2, <1>4 DEF Inv

\* The invariant survives the link of a restore.
LEMMA RestoreLinkInv ==
    ASSUME Inv, NEW u \in Utterances, RestoreLink(u)
    PROVE  Inv'
<1>1. u \in recorded /\ up /\ FileShape(u)
    BY Working DEF RestoreLink
<1>2. TypeOK'
    BY VoiceConstants DEF RestoreLink, Link, NotServer, HandlerTo, audio, ghost, Inv, TypeOK, Places, States,
       HandlerPcs, Conns, Ends
<1>3. FileShape(u)'
    BY <1>1 DEF RestoreLink, Link, NotServer, HandlerTo, audio, ghost, Inv, TypeOK, FileShape
<1>4. TurnInv'
    <2>1. UNCHANGED <<recorded, ops, client, daemon, up, acted>>
        BY DEF RestoreLink, Link, NotServer, HandlerTo, audio, ghost
    <2>2. \A v \in Utterances \ {u} : file'[v] = file[v] /\ hnd'[v] = hnd[v] /\ meta'[v] = meta[v]
        BY DEF RestoreLink, Link, NotServer, HandlerTo, audio, ghost, Inv, TypeOK
    <2>3. meta'[u] \in {"pending", "terminal"} => meta'[u] = meta[u]
        BY DEF RestoreLink, Link, NotServer, HandlerTo, audio, ghost, Inv, TypeOK
    <2> QED
        BY <1>1, <1>3, <2>1, <2>2, <2>3, HandlerStep
<1> QED
    BY <1>2, <1>4 DEF Inv

\* The invariant survives the end of a restore.
LEMMA RestoreUnlinkInv ==
    ASSUME Inv, NEW u \in Utterances, RestoreUnlink(u)
    PROVE  Inv'
<1>1. u \in recorded /\ up /\ FileShape(u)
    BY Working DEF RestoreUnlink
<1>2. TypeOK'
    BY VoiceConstants DEF RestoreUnlink, Close, Unlink, NotServer, HandlerTo, EndAs, Outcome, audio, ghost, Inv, TypeOK, Places, States,
       HandlerPcs, Conns, Ends
<1>3. FileShape(u)'
    BY <1>1 DEF RestoreUnlink, Close, Unlink, NotServer, HandlerTo, EndAs, Outcome, audio, ghost, Inv, TypeOK, FileShape
<1>4. TurnInv'
    <2>1. UNCHANGED <<recorded, ops, client, daemon, up, acted>>
        BY DEF RestoreUnlink, Close, Unlink, NotServer, HandlerTo, EndAs, Outcome, audio, ghost
    <2>2. \A v \in Utterances \ {u} : file'[v] = file[v] /\ hnd'[v] = hnd[v] /\ meta'[v] = meta[v]
        BY DEF RestoreUnlink, Close, Unlink, NotServer, HandlerTo, EndAs, Outcome, audio, ghost, Inv, TypeOK
    <2>3. meta'[u] \in {"pending", "terminal"} => meta'[u] = meta[u]
        BY DEF RestoreUnlink, Close, Unlink, NotServer, HandlerTo, EndAs, Outcome, audio, ghost, Inv, TypeOK
    <2> QED
        BY <1>1, <1>3, <2>1, <2>2, <2>3, HandlerStep
<1> QED
    BY <1>2, <1>4 DEF Inv

\* The invariant survives a quarantine.
LEMMA RestoreQuarantinesInv ==
    ASSUME Inv, NEW u \in Utterances, RestoreQuarantines(u)
    PROVE  Inv'
<1>1. u \in recorded /\ up /\ FileShape(u)
    BY Working DEF RestoreQuarantines
<1>2. TypeOK'
    BY VoiceConstants DEF RestoreQuarantines, Close, Move, NotServer, HandlerTo, EndAs, Fault, Outcome, audio, ghost, Inv, TypeOK, Places, States,
       HandlerPcs, Conns, Ends
<1>3. FileShape(u)'
    BY <1>1 DEF RestoreQuarantines, Close, Move, NotServer, HandlerTo, EndAs, Fault, Outcome, audio, ghost, Inv, TypeOK, FileShape
<1>4. TurnInv'
    <2>1. UNCHANGED <<recorded, ops, client, daemon, up, acted>>
        BY DEF RestoreQuarantines, Close, Move, NotServer, HandlerTo, EndAs, Fault, Outcome, audio, ghost
    <2>2. \A v \in Utterances \ {u} : file'[v] = file[v] /\ hnd'[v] = hnd[v] /\ meta'[v] = meta[v]
        BY DEF RestoreQuarantines, Close, Move, NotServer, HandlerTo, EndAs, Fault, Outcome, audio, ghost, Inv, TypeOK
    <2>3. meta'[u] \in {"pending", "terminal"} => meta'[u] = meta[u]
        BY DEF RestoreQuarantines, Close, Move, NotServer, HandlerTo, EndAs, Fault, Outcome, audio, ghost, Inv, TypeOK
    <2> QED
        BY <1>1, <1>3, <2>1, <2>2, <2>3, HandlerStep
<1> QED
    BY <1>2, <1>4 DEF Inv

\* The invariant survives a restore that fails.
LEMMA RestoreFailsInv ==
    ASSUME Inv, NEW u \in Utterances, RestoreFails(u)
    PROVE  Inv'
<1>1. u \in recorded /\ up /\ FileShape(u)
    BY Working DEF RestoreFails
<1>2. TypeOK'
    BY VoiceConstants DEF RestoreFails, Close, NotServer, HandlerTo, EndAs, Fault, Outcome, audio, ghost, Inv, TypeOK, Places, States,
       HandlerPcs, Conns, Ends
<1>3. FileShape(u)'
    BY <1>1 DEF RestoreFails, Close, NotServer, HandlerTo, EndAs, Fault, Outcome, audio, ghost, Inv, TypeOK, FileShape
<1>4. TurnInv'
    <2>1. UNCHANGED <<recorded, ops, client, daemon, up, acted>>
        BY DEF RestoreFails, Close, NotServer, HandlerTo, EndAs, Fault, Outcome, audio, ghost
    <2>2. \A v \in Utterances \ {u} : file'[v] = file[v] /\ hnd'[v] = hnd[v] /\ meta'[v] = meta[v]
        BY DEF RestoreFails, Close, NotServer, HandlerTo, EndAs, Fault, Outcome, audio, ghost, Inv, TypeOK
    <2>3. meta'[u] \in {"pending", "terminal"} => meta'[u] = meta[u]
        BY DEF RestoreFails, Close, NotServer, HandlerTo, EndAs, Fault, Outcome, audio, ghost, Inv, TypeOK
    <2> QED
        BY <1>1, <1>3, <2>1, <2>2, <2>3, HandlerStep
<1> QED
    BY <1>2, <1>4 DEF Inv

\* The invariant survives the recovery of stranded audio.
LEMMA RecoverStrandedInv ==
    ASSUME Inv, NEW u \in Utterances, RecoverStranded(u)
    PROVE  Inv'
<1>1. ~up /\ file[u] # {} /\ FileShape(u)
    BY DEF RecoverStranded, Inv, TurnInv
<1>2. u \in recorded /\ hnd[u] = "none"
    BY <1>1 DEF Inv, TurnInv, UnrecordedShape, FileShape
<1>3. TypeOK'
    BY DEF RecoverStranded, Link, Unlink, thread, NotServer, ghost, Inv, TypeOK, Places
<1>4. file'[u] \in {{"generation", "processing"}, {"generation"}, {}}
    <2>1. CASE "processing" \in file[u] /\ "generation" \notin file[u] /\ Link(u)
        <3>1. file[u] = {"processing"}
            BY <1>1, <2>1 DEF FileShape
        <3> QED
            BY <2>1, <3>1 DEF Link, Inv, TypeOK
    <2>2. CASE "processing" \in file[u] /\ "generation" \in file[u] /\ Unlink(u)
        <3>1. file[u] = {"generation", "processing"}
            BY <1>1, <2>2 DEF FileShape
        <3> QED
            BY <2>2, <3>1 DEF Unlink, Inv, TypeOK
    <2>3. CASE "delivered" \in file[u] /\ file' = [file EXCEPT ![u] = @ \ {"delivered"}]
        <3>1. file[u] = {"delivered"}
            BY <2>3, OnePlace
        <3> QED
            BY <2>3, <3>1 DEF Inv, TypeOK
    <2> QED
        BY <2>1, <2>2, <2>3 DEF RecoverStranded
<1>5. UNCHANGED <<recorded, ops, client, daemon, up, acted, hnd, meta>>
    BY DEF RecoverStranded, thread, NotServer, ghost
<1>6. FileShape(u)'
    BY <1>1, <1>2, <1>4, <1>5 DEF FileShape
<1>7. \A v \in Utterances \ {u} : file'[v] = file[v]
    BY DEF RecoverStranded, Link, Unlink, Inv, TypeOK
<1> QED
    BY <1>2, <1>3, <1>5, <1>6, <1>7, HandlerStep DEF Inv

\* The invariant survives the server's being ready: nothing is left half restored.
LEMMA ServerReadyInv ==
    ASSUME Inv, ServerReady
    PROVE  Inv'
<1>1. UNCHANGED <<recorded, file, meta, hnd, client, ops, daemon, acted>> /\ up' = TRUE
    BY DEF ServerReady, audio, thread, ghost
<1>2. TypeOK'
    BY DEF ServerReady, audio, thread, ghost, Inv, TypeOK
<1>3. ASSUME NEW u \in Utterances PROVE FileShape(u)'
    <2>1. "processing" \notin file[u]
        BY DEF ServerReady
    <2> QED
        BY <1>1, <2>1 DEF Inv, TurnInv, FileShape
<1>4. ASSUME NEW u \in Utterances PROVE UnrecordedShape(u)'
    BY <1>1 DEF Inv, TurnInv, UnrecordedShape
<1> QED
    BY <1>1, <1>2, <1>3, <1>4, KeepFence DEF Inv, TurnInv

\* The invariant survives a crash of the server: its threads and requests are gone.
LEMMA ServerCrashInv ==
    ASSUME Inv, ServerCrash
    PROVE  Inv'
<1>1. /\ UNCHANGED <<recorded, file, meta, stamp, client, daemon, fate, acted>>
      /\ litter' = litter \cup Replacing /\ Replacing \subseteq Voice
      /\ up' = FALSE /\ ops' = {} /\ hnd' = [u \in Utterances |-> "none"] /\ slot' = None
    BY DEF ServerCrash, Replacing, ghost
<1>2. TypeOK'
    <2>1. ASSUME NEW u \in Utterances PROVE [conn[u] EXCEPT !.end = "closed"] \in Conns
        <3>1. conn[u] \in Conns
            BY DEF Inv, TypeOK
        <3> QED
            BY <3>1 DEF Conns, Ends
    <2>2. conn' \in [Utterances -> Conns]
        BY <2>1 DEF ServerCrash, Inv, TypeOK
    <2>3. faults' \in 0..MaxFaults
        BY VoiceConstants DEF ServerCrash, Fault, Inv, TypeOK
    <2> QED
        BY <1>1, <2>2, <2>3 DEF Inv, TypeOK, HandlerPcs
<1>3. ASSUME NEW u \in Utterances PROVE FileShape(u)' /\ UnrecordedShape(u)'
    BY <1>1 DEF Inv, TurnInv, FileShape, UnrecordedShape
<1>4. CallShape'
    BY <1>1 DEF Inv, TurnInv, CallShape
<1>5. ASSUME NEW u \in Voice PROVE FenceShape(u)'
    BY <1>1 DEF Inv, TurnInv, FenceShape, Pendings, Replayable
<1> QED
    BY <1>2, <1>3, <1>4, <1>5 DEF Inv, TurnInv

\* The invariant survives a dictation or a retry.
LEMMA DictateInv ==
    ASSUME Inv, NEW u \in Utterances, Dictate(u)
    PROVE  Inv'
<1>1. FileShape(u) /\ UnrecordedShape(u)
    BY DEF Inv, TurnInv
<1>2. recorded' = recorded \cup {u}
    BY <1>1 DEF Dictate, Connection, ClientTo, ghost, UnrecordedShape
<1>3. TypeOK'
    <2>1. conn' \in [Utterances -> Conns]
        BY DEF Dictate, Connection, ClientTo, ghost, Inv, TypeOK, Conns, Ends
    <2>2. hnd' \in [Utterances -> HandlerPcs] /\ client' \in [Utterances -> ClientPcs]
        BY DEF Dictate, Connection, ClientTo, ghost, Inv, TypeOK, HandlerPcs, ClientPcs
    <2>3. file' \in [Utterances -> SUBSET Places] /\ fate' \in [Utterances -> Fates]
        BY DEF Dictate, Connection, ClientTo, ghost, Inv, TypeOK, Places
    <2>4. faults' \in 0..MaxFaults
        BY VoiceConstants DEF Dictate, Connection, ClientTo, ghost, Inv, TypeOK
    <2> QED
        BY <1>2, <2>1, <2>2, <2>3, <2>4 DEF Dictate, Connection, ClientTo, ghost, Inv, TypeOK
<1>4. FileShape(u)'
    <2>1. CASE u \notin recorded
        <3>1. file'[u] = {"generation"} /\ hnd'[u] = "none" /\ meta'[u] = "none"
            BY <1>1, <2>1 DEF Dictate, UnrecordedShape, Inv, TypeOK
        <3> QED
            BY <3>1 DEF FileShape
    <2>2. CASE u \in recorded
        BY <1>1, <2>2 DEF Dictate, FileShape
    <2> QED
        BY <2>1, <2>2
<1>5. UNCHANGED <<ops, daemon, up, acted, meta>>
    BY DEF Dictate, Connection, ClientTo, ghost
<1>6. \A v \in Utterances \ {u} : file'[v] = file[v] /\ hnd'[v] = hnd[v] /\ client'[v] = client[v]
    BY DEF Dictate, Connection, ClientTo, ghost, Inv, TypeOK
<1> QED
    BY <1>2, <1>3, <1>4, <1>5, <1>6, HandlerStep DEF Inv

\* The invariant survives a transcription request.
LEMMA RequestInv ==
    ASSUME Inv, NEW u \in Utterances, Request(u)
    PROVE  Inv'
<1>1. FileShape(u) /\ UnrecordedShape(u)
    BY DEF Inv, TurnInv
<1>2. recorded' = recorded \cup {u}
    BY <1>1 DEF Request, Connection, ClientTo, HandlerTo, NotClient, audio, ghost, UnrecordedShape
<1>3. TypeOK'
    <2>1. conn' \in [Utterances -> Conns]
        <3>1. Connection(conn[u].legacy, conn[u].retain) \in Conns
            BY DEF Connection, Inv, TypeOK, Conns, Ends
        <3> QED
            BY <3>1 DEF Request, Inv, TypeOK
    <2>2. hnd' \in [Utterances -> HandlerPcs] /\ client' \in [Utterances -> ClientPcs]
        BY DEF Request, Connection, ClientTo, HandlerTo, NotClient, audio, ghost, Inv, TypeOK, HandlerPcs, ClientPcs
    <2>3. file' \in [Utterances -> SUBSET Places] /\ fate' \in [Utterances -> Fates]
        BY DEF Request, Connection, ClientTo, HandlerTo, NotClient, audio, ghost, Inv, TypeOK, Places
    <2>4. faults' \in 0..MaxFaults
        BY VoiceConstants DEF Request, Connection, ClientTo, HandlerTo, NotClient, audio, ghost, Inv, TypeOK
    <2> QED
        BY <1>2, <2>1, <2>2, <2>3, <2>4 DEF Request, Connection, ClientTo, HandlerTo, NotClient, audio, ghost, Inv, TypeOK
<1>4. FileShape(u)'
    BY <1>1 DEF Request, Connection, ClientTo, HandlerTo, NotClient, audio, ghost, Inv, TypeOK, FileShape, UnrecordedShape
<1>5. UNCHANGED <<ops, daemon, up, acted, meta>>
    BY DEF Request, Connection, ClientTo, HandlerTo, NotClient, audio, ghost
<1>6. \A v \in Utterances \ {u} : file'[v] = file[v] /\ hnd'[v] = hnd[v] /\ client'[v] = client[v]
    BY DEF Request, Connection, ClientTo, HandlerTo, NotClient, audio, ghost, Inv, TypeOK
<1> QED
    BY <1>2, <1>3, <1>4, <1>5, <1>6, HandlerStep DEF Inv

\* The invariant survives the reading of a transcript.
LEMMA ReadTranscriptInv ==
    ASSUME Inv, NEW u \in Utterances, ReadTranscript(u)
    PROVE  Inv'
<1>1. FileShape(u) /\ UnrecordedShape(u)
    BY DEF Inv, TurnInv
<1>2. recorded' = recorded \cup {u}
    BY <1>1 DEF ReadTranscript, ClientTo, NotClient, audio, UnrecordedShape
<1>3. TypeOK'
    <2>1. conn' \in [Utterances -> Conns]
        BY DEF ReadTranscript, ClientTo, NotClient, audio, Inv, TypeOK, Conns, Ends
    <2>2. hnd' \in [Utterances -> HandlerPcs] /\ client' \in [Utterances -> ClientPcs]
        BY DEF ReadTranscript, ClientTo, NotClient, audio, Inv, TypeOK, HandlerPcs, ClientPcs
    <2>3. file' \in [Utterances -> SUBSET Places] /\ fate' \in [Utterances -> Fates]
        BY DEF ReadTranscript, ClientTo, NotClient, audio, Inv, TypeOK, Places, Fates
    <2>4. faults' \in 0..MaxFaults
        BY VoiceConstants DEF ReadTranscript, ClientTo, NotClient, audio, Inv, TypeOK
    <2> QED
        BY <1>2, <2>1, <2>2, <2>3, <2>4 DEF ReadTranscript, ClientTo, NotClient, audio, Inv, TypeOK
<1>4. FileShape(u)'
    BY <1>1 DEF ReadTranscript, ClientTo, NotClient, audio, Inv, TypeOK, FileShape, UnrecordedShape
<1>5. UNCHANGED <<ops, daemon, up, acted, meta>>
    BY DEF ReadTranscript, ClientTo, NotClient, audio
<1>6. \A v \in Utterances \ {u} : file'[v] = file[v] /\ hnd'[v] = hnd[v] /\ client'[v] = client[v]
    BY DEF ReadTranscript, ClientTo, NotClient, audio, Inv, TypeOK
<1> QED
    BY <1>2, <1>3, <1>4, <1>5, <1>6, HandlerStep DEF Inv

\* The invariant survives another attempt.
LEMMA TryAgainInv ==
    ASSUME Inv, NEW u \in Utterances, TryAgain(u)
    PROVE  Inv'
<1>1. FileShape(u) /\ UnrecordedShape(u)
    BY DEF Inv, TurnInv
<1>2. recorded' = recorded \cup {u}
    BY <1>1 DEF TryAgain, ClientTo, Connection, NotClient, audio, ghost, UnrecordedShape
<1>3. TypeOK'
    <2>1. conn' \in [Utterances -> Conns]
        <3>1. [conn[u] EXCEPT !.legacy = TRUE] \in Conns
            <4>1. conn[u] \in Conns
                BY DEF Inv, TypeOK
            <4> QED
                BY <4>1 DEF Conns
        <3>2. conn' = conn \/ conn' = [conn EXCEPT ![u] = [conn[u] EXCEPT !.legacy = TRUE]]
            BY DEF TryAgain
        <3> QED
            BY <3>1, <3>2 DEF Inv, TypeOK
    <2>2. hnd' \in [Utterances -> HandlerPcs] /\ client' \in [Utterances -> ClientPcs]
        BY DEF TryAgain, ClientTo, Connection, NotClient, audio, ghost, Inv, TypeOK, HandlerPcs, ClientPcs
    <2>3. file' \in [Utterances -> SUBSET Places] /\ fate' \in [Utterances -> Fates]
        BY DEF TryAgain, ClientTo, Connection, NotClient, audio, ghost, Inv, TypeOK, Places
    <2>4. faults' \in 0..MaxFaults
        BY VoiceConstants DEF TryAgain, ClientTo, Connection, NotClient, audio, ghost, Inv, TypeOK
    <2> QED
        BY <1>2, <2>1, <2>2, <2>3, <2>4 DEF TryAgain, ClientTo, Connection, NotClient, audio, ghost, Inv, TypeOK
<1>4. FileShape(u)'
    BY <1>1 DEF TryAgain, ClientTo, Connection, NotClient, audio, ghost, Inv, TypeOK, FileShape, UnrecordedShape
<1>5. UNCHANGED <<ops, daemon, up, acted, meta>>
    BY DEF TryAgain, ClientTo, Connection, NotClient, audio, ghost
<1>6. \A v \in Utterances \ {u} : file'[v] = file[v] /\ hnd'[v] = hnd[v] /\ client'[v] = client[v]
    BY DEF TryAgain, ClientTo, Connection, NotClient, audio, ghost, Inv, TypeOK
<1> QED
    BY <1>2, <1>3, <1>4, <1>5, <1>6, HandlerStep DEF Inv

\* The invariant survives the end of a connection.
LEMMA ReadEndInv ==
    ASSUME Inv, NEW u \in Utterances, ReadEnd(u)
    PROVE  Inv'
<1>1. FileShape(u) /\ UnrecordedShape(u)
    BY DEF Inv, TurnInv
<1>2. recorded' = recorded \cup {u}
    BY <1>1 DEF ReadEnd, ClientTo, NotClient, audio, UnrecordedShape
<1>3. TypeOK'
    <2>1. conn' \in [Utterances -> Conns]
        BY DEF ReadEnd, ClientTo, NotClient, audio, Inv, TypeOK, Conns, Ends
    <2>2. hnd' \in [Utterances -> HandlerPcs] /\ client' \in [Utterances -> ClientPcs]
        BY DEF ReadEnd, ClientTo, NotClient, audio, Inv, TypeOK, HandlerPcs, ClientPcs
    <2>3. file' \in [Utterances -> SUBSET Places] /\ fate' \in [Utterances -> Fates]
        BY DEF ReadEnd, ClientTo, NotClient, audio, Inv, TypeOK, Places, Fates
    <2>4. faults' \in 0..MaxFaults
        BY VoiceConstants DEF ReadEnd, ClientTo, NotClient, audio, Inv, TypeOK
    <2> QED
        BY <1>2, <2>1, <2>2, <2>3, <2>4 DEF ReadEnd, ClientTo, NotClient, audio, Inv, TypeOK
<1>4. FileShape(u)'
    BY <1>1 DEF ReadEnd, ClientTo, NotClient, audio, Inv, TypeOK, FileShape, UnrecordedShape
<1>5. UNCHANGED <<ops, daemon, up, acted, meta>>
    BY DEF ReadEnd, ClientTo, NotClient, audio
<1>6. \A v \in Utterances \ {u} : file'[v] = file[v] /\ hnd'[v] = hnd[v] /\ client'[v] = client[v]
    BY DEF ReadEnd, ClientTo, NotClient, audio, Inv, TypeOK
<1> QED
    BY <1>2, <1>3, <1>4, <1>5, <1>6, HandlerStep DEF Inv

\* The invariant survives an error response.
LEMMA ReadErrorInv ==
    ASSUME Inv, NEW u \in Utterances, ReadError(u)
    PROVE  Inv'
<1>1. FileShape(u) /\ UnrecordedShape(u)
    BY DEF Inv, TurnInv
<1>2. recorded' = recorded \cup {u}
    BY <1>1 DEF ReadError, ClientTo, NotClient, audio, UnrecordedShape
<1>3. TypeOK'
    <2>1. conn' \in [Utterances -> Conns]
        BY DEF ReadError, ClientTo, NotClient, audio, Inv, TypeOK, Conns, Ends
    <2>2. hnd' \in [Utterances -> HandlerPcs] /\ client' \in [Utterances -> ClientPcs]
        BY DEF ReadError, ClientTo, NotClient, audio, Inv, TypeOK, HandlerPcs, ClientPcs
    <2>3. file' \in [Utterances -> SUBSET Places] /\ fate' \in [Utterances -> Fates]
        BY DEF ReadError, ClientTo, NotClient, audio, Inv, TypeOK, Places, Fates
    <2>4. faults' \in 0..MaxFaults
        BY VoiceConstants DEF ReadError, ClientTo, NotClient, audio, Inv, TypeOK
    <2> QED
        BY <1>2, <2>1, <2>2, <2>3, <2>4 DEF ReadError, ClientTo, NotClient, audio, Inv, TypeOK
<1>4. FileShape(u)'
    BY <1>1 DEF ReadError, ClientTo, NotClient, audio, Inv, TypeOK, FileShape, UnrecordedShape
<1>5. UNCHANGED <<ops, daemon, up, acted, meta>>
    BY DEF ReadError, ClientTo, NotClient, audio
<1>6. \A v \in Utterances \ {u} : file'[v] = file[v] /\ hnd'[v] = hnd[v] /\ client'[v] = client[v]
    BY DEF ReadError, ClientTo, NotClient, audio, Inv, TypeOK
<1> QED
    BY <1>2, <1>3, <1>4, <1>5, <1>6, HandlerStep DEF Inv

\* The invariant survives a client that gives up.
LEMMA ClientTimeoutInv ==
    ASSUME Inv, NEW u \in Utterances, ClientTimeout(u)
    PROVE  Inv'
<1>1. FileShape(u) /\ UnrecordedShape(u)
    BY DEF Inv, TurnInv
<1>2. recorded' = recorded \cup {u}
    BY <1>1 DEF ClientTimeout, ClientTo, NotClient, audio, ghost, Fault, UnrecordedShape
<1>3. TypeOK'
    <2>1. conn' \in [Utterances -> Conns]
        BY DEF ClientTimeout, ClientTo, NotClient, audio, ghost, Fault, Inv, TypeOK, Conns, Ends
    <2>2. hnd' \in [Utterances -> HandlerPcs] /\ client' \in [Utterances -> ClientPcs]
        BY DEF ClientTimeout, ClientTo, NotClient, audio, ghost, Fault, Inv, TypeOK, HandlerPcs, ClientPcs
    <2>3. file' \in [Utterances -> SUBSET Places] /\ fate' \in [Utterances -> Fates]
        BY DEF ClientTimeout, ClientTo, NotClient, audio, ghost, Fault, Inv, TypeOK, Places
    <2>4. faults' \in 0..MaxFaults
        BY VoiceConstants DEF ClientTimeout, ClientTo, NotClient, audio, ghost, Fault, Inv, TypeOK
    <2> QED
        BY <1>2, <2>1, <2>2, <2>3, <2>4 DEF ClientTimeout, ClientTo, NotClient, audio, ghost, Fault, Inv, TypeOK
<1>4. FileShape(u)'
    BY <1>1 DEF ClientTimeout, ClientTo, NotClient, audio, ghost, Fault, Inv, TypeOK, FileShape, UnrecordedShape
<1>5. UNCHANGED <<ops, daemon, up, acted, meta>>
    BY DEF ClientTimeout, ClientTo, NotClient, audio, ghost, Fault
<1>6. \A v \in Utterances \ {u} : file'[v] = file[v] /\ hnd'[v] = hnd[v] /\ client'[v] = client[v]
    BY DEF ClientTimeout, ClientTo, NotClient, audio, ghost, Fault, Inv, TypeOK
<1> QED
    BY <1>2, <1>3, <1>4, <1>5, <1>6, HandlerStep DEF Inv

\* What an answer, or none, makes of the daemon.
AfterFacts(d, ok) ==
    /\ d \in Daemons /\ d.u \in {daemon.u, None}
    /\ d.u = None <=> d.pc \in {"loop", "interrupted"}
    /\ d.pc \notin {"calling", "transcribing"} /\ d.batch \subseteq daemon.batch
    /\ d.pc = "turn" => daemon.phase = "handoff"
    /\ d.pc = "fenced" => daemon.phase = "fence" /\ ok
    /\ daemon.phase = "handoff" => IF ok THEN d.pc = "turn"
                                   ELSE d.pc = "concluding" /\ d.failed /\ d.preserve

\* The end of a turn leaves the daemon idle or interrupted.
LEMMA OverFacts ==
    ASSUME NEW d \in Daemons, NEW e \in Over(d)
    PROVE  /\ e \in Daemons /\ e.u = None /\ e.pc \in {"loop", "interrupted"}
           /\ e.batch \subseteq d.batch
<1>1. CASE e = [Idle EXCEPT !.paused = d.paused, !.batch = IF d.paused THEN {} ELSE d.batch]
    <2>1. d.paused \in BOOLEAN /\ d.batch \in SUBSET [u : Voice, state : States]
        BY DEF Daemons
    <2>2. (IF d.paused THEN {} ELSE d.batch) \in SUBSET [u : Voice, state : States]
        BY <2>1
    <2>3. e \in Daemons
        BY ZenonT(30), <1>1, <2>1, <2>2 DEF Idle, Daemons, DaemonPcs, Phases
    <2>4. e.u = None /\ e.pc = "loop" /\ e.batch = IF d.paused THEN {} ELSE d.batch
        BY <1>1 DEF Idle
    <2> QED
        BY <2>1, <2>3, <2>4
<1>2. CASE e = [Idle EXCEPT !.pc = "interrupted", !.paused = d.paused]
    <2>1. e \in Daemons
        BY <1>2 DEF Idle, Daemons, DaemonPcs, Phases
    <2>2. e.u = None /\ e.pc = "interrupted" /\ e.batch = {}
        BY <1>2 DEF Idle
    <2> QED
        BY <2>1, <2>2
<1> QED
    BY <1>1, <1>2 DEF Over

\* The places a daemon can be in once the response is made.
LEMMA AfterShape ==
    ASSUME Inv, daemon.pc = "calling", NEW ok \in BOOLEAN, NEW d \in After(ok)
    PROVE  AfterFacts(d, ok)
<1>1. daemon \in Daemons /\ daemon.phase \in Phases \ {"none"} /\ daemon.u # None
    BY DEF Inv, TypeOK, TurnInv, CallShape, Daemons
<1>2. CASE daemon.phase \in {"handoff", "lost"}
    <2>1. Evidence(daemon) \in Daemons /\ Evidence(daemon).u = daemon.u
          /\ Evidence(daemon).pc = "concluding" /\ Evidence(daemon).batch = daemon.batch
          /\ Evidence(daemon).failed /\ Evidence(daemon).preserve
        BY <1>1 DEF Evidence, TurnFailed, Daemons, DaemonPcs
    <2>2. [daemon EXCEPT !.pc = "turn"] \in Daemons
        BY <1>1 DEF Daemons, DaemonPcs
    <2>3. daemon.phase = "handoff" => d = IF ok THEN [daemon EXCEPT !.pc = "turn"] ELSE Evidence(daemon)
        BY DEF After
    <2>4. daemon.phase = "lost" => d = Evidence(daemon)
        BY DEF After
    <2> QED
        BY <1>1, <1>2, <2>1, <2>2, <2>3, <2>4 DEF AfterFacts, Daemons
<1>3. CASE daemon.phase = "fence"
    <2> DEFINE e == [daemon EXCEPT !.preserve = TRUE, !.paused = TRUE]
    <2>1. e \in Daemons /\ e.u = daemon.u /\ e.batch = daemon.batch
        BY <1>1 DEF Daemons
    <2>2. \/ ok /\ d = [e EXCEPT !.pc = "fenced", !.amb = TRUE]
          \/ d \in {[e EXCEPT !.pc = "concluding", !.failed = TRUE], [e EXCEPT !.pc = "declined"]}
        BY <1>3 DEF After, Unfenced, TurnFailed
    <2> HIDE DEF e
    <2>3. d \in Daemons /\ d.u = daemon.u /\ d.batch = daemon.batch
          /\ d.pc \in {"fenced", "concluding", "declined"} /\ (d.pc = "fenced" => ok)
        BY <2>1, <2>2 DEF Daemons, DaemonPcs
    <2> QED
        BY <1>1, <1>3, <2>3 DEF AfterFacts
<1>4. CASE daemon.phase = "harmless"
    <2> DEFINE e == [daemon EXCEPT !.term = TRUE, !.preserve = FALSE]
    <2>1. e \in Daemons /\ e.u = daemon.u /\ e.batch = daemon.batch
        BY <1>1 DEF Daemons
    <2>2. d \in {[e EXCEPT !.pc = "concluding"], [e EXCEPT !.pc = "concluding", !.failed = TRUE],
                 Evidence(daemon)}
        BY <1>4 DEF After, TurnFailed
    <2>3. Evidence(daemon) \in Daemons /\ Evidence(daemon).u = daemon.u
          /\ Evidence(daemon).pc = "concluding" /\ Evidence(daemon).batch = daemon.batch
        BY <1>1 DEF Evidence, TurnFailed, Daemons, DaemonPcs
    <2> HIDE DEF e
    <2>4. d \in Daemons /\ d.u = daemon.u /\ d.batch = daemon.batch /\ d.pc = "concluding"
        BY <2>1, <2>2, <2>3 DEF Daemons, DaemonPcs
    <2> QED
        BY <1>1, <1>4, <2>4 DEF AfterFacts
<1>5. CASE daemon.phase = "final"
    <2> DEFINE e == [daemon EXCEPT !.term = TRUE, !.pc = "concluding"]
    <2> DEFINE f == [daemon EXCEPT !.paused = TRUE]
    <2>1. e \in Daemons /\ e.u = daemon.u /\ e.batch = daemon.batch /\ e.pc = "concluding"
        BY <1>1 DEF Daemons, DaemonPcs
    <2>2. f \in Daemons /\ f.batch = daemon.batch
        BY <1>1 DEF Daemons
    <2>3. d = e \/ d \in Over(f)
        BY <1>5 DEF After
    <2> HIDE DEF e, f
    <2>4. CASE d = e
        BY <1>1, <1>5, <2>1, <2>4 DEF AfterFacts
    <2>5. CASE d \in Over(f)
        BY <1>1, <1>5, <2>2, <2>5, OverFacts DEF AfterFacts
    <2> QED
        BY <2>3, <2>4, <2>5
<1>6. CASE daemon.phase = "cleanup"
    <2> DEFINE f == [daemon EXCEPT !.paused = ~ok]
    <2>1. f \in Daemons /\ f.batch = daemon.batch
        BY <1>1 DEF Daemons
    <2>2. d \in Over(f)
        BY <1>6 DEF After
    <2> HIDE DEF f
    <2> QED
        BY <1>1, <1>6, <2>1, <2>2, OverFacts DEF AfterFacts
<1>7. CASE daemon.phase = "reap"
    <2>1. d = [Idle EXCEPT !.paused = ~ok, !.batch = IF ok THEN daemon.batch ELSE {}]
        BY <1>7 DEF After
    <2>2. (IF ok THEN daemon.batch ELSE {}) \in SUBSET [u : Voice, state : States]
        BY <1>1 DEF Daemons
    <2>3. d \in Daemons
        BY <2>1, <2>2 DEF Idle, Daemons, DaemonPcs, Phases
    <2>4. d.u = None /\ d.pc = "loop" /\ d.batch \subseteq daemon.batch
        BY <2>1 DEF Idle
    <2> QED
        BY <1>1, <1>7, <2>3, <2>4 DEF AfterFacts
<1> QED
    BY <1>1, <1>2, <1>3, <1>4, <1>5, <1>6, <1>7 DEF Phases

\* A step of the daemon, or of a request for it, that moves no audio.
LEMMA DaemonFrame ==
    ASSUME Inv, UNCHANGED <<recorded, file, meta, hnd, up, client>>,
           \A v \in Utterances : acted'[v] = acted[v] \/ v = daemon.u,
           daemon'.u \in {daemon.u, None} \/ \E b \in daemon.batch : daemon'.u = b.u,
           daemon'.batch \subseteq daemon.batch,
           \A o \in ops' : o.u \in {daemon.u, daemon'.u} \/ \E p \in ops : o.u = p.u,
           \A o \in ops' : o.u # None
    PROVE  \A u \in Utterances : FileShape(u)' /\ UnrecordedShape(u)'
<1> SUFFICES ASSUME NEW u \in Utterances PROVE FileShape(u)' /\ UnrecordedShape(u)'
    OBVIOUS
<1>1. FileShape(u) /\ UnrecordedShape(u) /\ u # None
    BY VoiceConstants DEF Inv, TurnInv
<1>2. FileShape(u)'
    BY <1>1, KeepFileShape
<1>3. UnrecordedShape(u)'
    BY <1>1 DEF UnrecordedShape
<1> QED
    BY <1>2, <1>3

\* The daemon in a turn has an utterance, and no request of its own is under way.
LEMMA InTurn ==
    ASSUME Inv, daemon.pc \notin {"loop", "interrupted"}
    PROVE  /\ daemon.u \in Voice
           /\ daemon.pc # "calling" => \A o \in ops : o.late
<1>1. daemon.u \in Voice
    BY DEF Inv, TypeOK, TurnInv, CallShape, Daemons
<1>2. ASSUME daemon.pc # "calling", NEW o \in ops PROVE o.late
    BY <1>2 DEF Inv, TypeOK, TurnInv, CallShape, Ops
<1> QED
    BY <1>1, <1>2

\* A delivery request is sent: to make the delivery pending at the handoff only, and for
\* the fence by a turn that has not acted.
LEMMA CallStep ==
    ASSUME Inv, NEW op, NEW phase \in Phases \ {"none"}, op = Asked[phase], Call(op, phase),
           daemon.pc \notin {"calling", "loop", "interrupted"},
           phase = "handoff" <=> daemon.pc = "transcribing" /\ op = "pending",
           phase = "fence" => daemon.pc = "turn",
           ~(daemon.pc = "concluding" /\ daemon.failed /\ daemon.preserve),
           UNCHANGED <<recorded, file, meta, hnd, up, client, acted>>
    PROVE  TurnInv' /\ ops' \subseteq Ops /\ daemon' \in Daemons
<1> DEFINE new == [u |-> daemon.u, op |-> op, seen |-> "unread", late |-> FALSE]
<1>1. daemon.u \in Voice /\ \A o \in ops : o.late
    BY InTurn
<1>2. op \in OpNames
    BY DEF Asked, Phases, OpNames, States
<1>3. ops' = ops \cup {new} /\ new \in Ops /\ ops \subseteq Ops
    BY <1>1, <1>2 DEF Call, Send, Ops, Seens, Inv, TypeOK
<1>4. /\ daemon' \in Daemons /\ daemon'.u = daemon.u /\ daemon'.pc = "calling"
      /\ daemon'.phase = phase /\ daemon'.batch = daemon.batch
    BY DEF Call, Inv, TypeOK, Daemons, DaemonPcs
<1>5. new.u = daemon.u /\ new.op = op /\ new.seen = "unread" /\ new.late = FALSE
    OBVIOUS
<1> HIDE DEF new
<1>6. CallShape'
    <2>1. daemon.u # None
        BY <1>1, VoiceConstants
    <2>2. ASSUME NEW o \in ops' PROVE
             /\ o.seen \in {"loaded", "written"} => o.op # "release"
             /\ o.seen = "renamed" => o.op = "release"
             /\ ~o.late => o = new
        BY <1>1, <1>3, <1>5 DEF Inv, TurnInv, CallShape, States
    <2>3. ASSUME NEW o \in ops', ~o.late PROVE
             /\ daemon'.pc = "calling" /\ daemon'.u = o.u /\ o.op = Asked[daemon'.phase]
             /\ \A p \in ops' : ~p.late => p = o
        BY <1>4, <1>5, <2>2, <2>3
    <2>4. \A b, c \in daemon'.batch : b.u = c.u => b = c
        BY <1>4 DEF Inv, TurnInv, CallShape
    <2> QED
        BY <1>4, <2>1, <2>2, <2>3, <2>4 DEF CallShape
<1>7. ASSUME NEW u \in Voice PROVE FenceShape(u)'
    <2>1. FenceShape(u) /\ acted[u] \in Nat /\ acted'[u] = acted[u] /\ meta'[u] = meta[u]
        BY DEF Inv, TypeOK, TurnInv
    <2>2. CASE u # daemon.u
        <3>1. Pendings(u)' = Pendings(u)
            BY <1>3, <1>5, <2>2 DEF Pendings
        <3>2. \A o \in ops' : o.u = u => o \in ops
            BY <1>3, <1>5, <2>2
        <3> QED
            BY <1>4, <2>1, <2>2, <3>1, <3>2 DEF FenceShape, Replayable
    <2>3. CASE u = daemon.u
        <3>1. Pendings(u) = {}
            BY <2>1, <2>3 DEF FenceShape
        <3>2. \A b \in daemon.batch : b.u # u
            BY <2>1, <2>3 DEF FenceShape
        <3>20. Replayable(u) \notin daemon.batch
            BY <3>2 DEF Replayable
        <3>3. phase \in {"handoff", "fence"} => acted[u] = 0
            BY <2>1, <2>3 DEF FenceShape
        <3>4. CASE op = "pending"
            <4>1. phase = "handoff" /\ daemon.pc = "transcribing"
                BY <3>4 DEF Asked, Phases
            <4>2. meta[u] \notin {"pending", "terminal"} /\ \A o \in ops : o.u # u
                BY <2>1, <2>3, <4>1 DEF FenceShape
            <4>4. \A o \in ops' : o.u = u => o.op = "pending"
                BY <1>3, <1>5, <3>4, <4>2
            <4>3. Pendings(u)' = {new}
                BY <1>3, <1>5, <2>3, <3>1, <3>4 DEF Pendings
            <4> QED
                BY <1>4, <2>1, <2>3, <3>2, <3>20, <3>3, <4>1, <4>2, <4>3, <4>4 DEF FenceShape, Replayable
        <3>5. CASE op # "pending"
            <4>1. Pendings(u)' = {}
                BY <1>3, <1>5, <3>1, <3>5 DEF Pendings
            <4> QED
                BY <1>4, <2>1, <2>3, <3>2, <3>20, <3>3, <4>1 DEF FenceShape, Replayable
        <3> QED
            BY <3>4, <3>5
    <2> QED
        BY <2>2, <2>3
<1>8. \A u \in Utterances : FileShape(u)' /\ UnrecordedShape(u)'
    <2>1. \A o \in ops' : o.u = daemon.u \/ o \in ops
        BY <1>3, <1>5
    <2>2. \A o \in ops' : o.u # None
        BY <1>3, VoiceConstants DEF Ops
    <2> QED
        BY <1>4, <2>1, <2>2, DaemonFrame
<1> QED
    BY <1>3, <1>4, <1>6, <1>7, <1>8 DEF TurnInv

\* The daemon gives up its utterance, or goes on with it in a way that cannot act.
LEMMA QuietStep ==
    ASSUME Inv, UNCHANGED <<recorded, file, meta, hnd, up, client, ops, acted>>,
           daemon.pc # "calling", daemon'.pc # "calling",
           daemon'.u \in {daemon.u, None}, daemon'.u = None <=> daemon'.pc \in {"loop", "interrupted"},
           daemon'.batch \subseteq daemon.batch,
           daemon'.u # None => /\ daemon'.pc \in {"concluding", "acted"}
                               /\ daemon.pc = "concluding" => daemon' = daemon
                               /\ daemon.pc # "transcribing"
    PROVE  TurnInv'
<1>1. \A o \in ops : o.late /\ o.u # None
    BY VoiceConstants DEF Inv, TypeOK, TurnInv, CallShape, Ops
<1>2. CallShape'
    BY <1>1 DEF Inv, TurnInv, CallShape
<1>3. ASSUME NEW u \in Voice PROVE FenceShape(u)'
    <2>1. FenceShape(u) /\ u # None
        BY VoiceConstants DEF Inv, TurnInv
    <2>2. Pendings(u)' = Pendings(u) /\ Replayable(u)' = Replayable(u)
        BY DEF Pendings, Replayable
    <2> QED
        BY <2>1, <2>2 DEF FenceShape
<1>4. \A u \in Utterances : FileShape(u)' /\ UnrecordedShape(u)'
    BY <1>1, DaemonFrame
<1> QED
    BY <1>2, <1>3, <1>4 DEF TurnInv

\* The types of what a step of the daemon leaves alone.
LEMMA DaemonType ==
    ASSUME Inv, UNCHANGED <<NotDaemon, recorded, file, meta, conn, client>>,
           ops' \subseteq Ops, daemon' \in Daemons, fate' \in [Utterances -> Fates],
           acted' \in [Utterances -> Nat], faults' \in 0..MaxFaults
    PROVE  TypeOK'
BY DEF NotDaemon, Inv, TypeOK

\* The invariant survives the end of a transcription.
LEMMA TranscriptInv == ASSUME Inv, Transcript PROVE Inv'
<1>1. UNCHANGED <<NotDaemon, recorded, file, meta, hnd, up, conn, client, fate, acted, faults>>
    BY DEF Transcript, NotDaemon, ghost
<1>2. daemon.pc = "transcribing"
    BY DEF Transcript
<1>3. TurnInv' /\ ops' \subseteq Ops /\ daemon' \in Daemons
    <2>1. CASE Call("pending", "handoff")
        <3>1. "pending" = Asked["handoff"] /\ "handoff" \in Phases \ {"none"}
            BY DEF Asked, Phases
        <3> QED
            BY <1>1, <1>2, <2>1, <3>1, CallStep
    <2>2. CASE Call("ambiguous", "lost")
        <3>1. "ambiguous" = Asked["lost"] /\ "lost" \in Phases \ {"none"}
            BY DEF Asked, Phases
        <3> QED
            BY <1>1, <1>2, <2>2, <3>1, CallStep
    <2>3. CASE daemon' = [Idle EXCEPT !.paused = daemon.paused] /\ UNCHANGED ops
        <3>1. daemon.paused \in BOOLEAN
            BY DEF Inv, TypeOK, Daemons
        <3>2. daemon' \in Daemons
            BY <2>3, <3>1 DEF Idle, Daemons, DaemonPcs, Phases
        <3>3. daemon'.u = None /\ daemon'.pc = "loop" /\ daemon'.batch = {}
            BY <2>3 DEF Idle
        <3>4. TurnInv'
            BY <1>1, <1>2, <2>3, <3>3, QuietStep
        <3> QED
            BY <2>3, <3>2, <3>4 DEF Inv, TypeOK
    <2> QED
        BY <2>1, <2>2, <2>3 DEF Transcript
<1>4. fate \in [Utterances -> Fates] /\ acted \in [Utterances -> Nat] /\ faults \in 0..MaxFaults
    BY DEF Inv, TypeOK
<1> QED
    BY <1>1, <1>3, <1>4, DaemonType DEF Inv

\* The invariant survives a turn that terminalizes its delivery.
LEMMA TerminalizeNonSideEffectInv == ASSUME Inv, TerminalizeNonSideEffect PROVE Inv'
<1>1. UNCHANGED <<NotDaemon, recorded, file, meta, hnd, up, conn, client, acted, faults>>
    BY DEF TerminalizeNonSideEffect, NotDaemon
<1>2. daemon.pc \in {"turn", "declined", "fenced", "acted"} /\ Call("terminal", "harmless")
    BY DEF TerminalizeNonSideEffect
<1>3. "terminal" = Asked["harmless"] /\ "harmless" \in Phases \ {"none"}
    BY DEF Asked, Phases
<1>4. TurnInv' /\ ops' \subseteq Ops /\ daemon' \in Daemons
    BY <1>1, <1>2, <1>3, CallStep
<1>5. fate' \in [Utterances -> Fates]
    BY <1>2, InTurn DEF TerminalizeNonSideEffect, Inv, TypeOK, Fates
<1>6. acted \in [Utterances -> Nat] /\ faults \in 0..MaxFaults
    BY DEF Inv, TypeOK
<1> QED
    BY <1>1, <1>4, <1>5, <1>6, DaemonType DEF Inv

\* The invariant survives the request for the fence.
LEMMA FenceSideEffectInv == ASSUME Inv, FenceSideEffect PROVE Inv'
<1>1. UNCHANGED <<NotDaemon, recorded, file, meta, hnd, up, conn, client, fate, acted, faults>>
    BY DEF FenceSideEffect, NotDaemon, ghost
<1>2. daemon.pc = "turn" /\ Call("ambiguous", "fence")
    BY DEF FenceSideEffect
<1>3. "ambiguous" = Asked["fence"] /\ "fence" \in Phases \ {"none"}
    BY DEF Asked, Phases
<1>4. TurnInv' /\ ops' \subseteq Ops /\ daemon' \in Daemons
    BY <1>1, <1>2, <1>3, CallStep
<1>5. fate \in [Utterances -> Fates] /\ acted \in [Utterances -> Nat] /\ faults \in 0..MaxFaults
    BY DEF Inv, TypeOK
<1> QED
    BY <1>1, <1>4, <1>5, DaemonType DEF Inv

\* The invariant survives the side effect: it was not performed before.
LEMMA ActInv == ASSUME Inv, Act PROVE Inv'
<1>1. UNCHANGED <<NotDaemon, recorded, file, meta, hnd, up, conn, client, ops, faults>>
    BY DEF Act, NotDaemon
<1>2. daemon.pc = "fenced" /\ daemon.u \in Voice /\ \A o \in ops : o.late
    BY InTurn DEF Act
<1>3. /\ daemon' \in Daemons /\ daemon'.u = daemon.u /\ daemon'.pc = "acted"
      /\ daemon'.batch = daemon.batch
    BY DEF Act, Inv, TypeOK, Daemons, DaemonPcs
<1>4. /\ acted' \in [Utterances -> Nat] /\ acted'[daemon.u] = acted[daemon.u] + 1
      /\ \A v \in Utterances : acted'[v] = acted[v] \/ v = daemon.u
    BY <1>2 DEF Act, Inv, TypeOK
<1>5. fate' \in [Utterances -> Fates] /\ ops' \subseteq Ops /\ faults' \in 0..MaxFaults
    BY <1>1, <1>2 DEF Act, Inv, TypeOK
<1>6. TypeOK'
    BY <1>1, <1>3, <1>4, <1>5, DaemonType
<1>7. CallShape'
    <2>1. daemon.u # None
        BY <1>2, VoiceConstants
    <2> QED
        BY <1>1, <1>2, <1>3, <2>1 DEF Inv, TurnInv, CallShape
<1>8. ASSUME NEW u \in Voice PROVE FenceShape(u)'
    <2>1. FenceShape(u) /\ Pendings(u)' = Pendings(u) /\ Replayable(u)' = Replayable(u)
        BY <1>1 DEF Inv, TurnInv, Pendings, Replayable
    <2>2. CASE u = daemon.u
        <3>1. /\ acted[u] = 0 /\ meta[u] # "pending" /\ Pendings(u) = {}
              /\ \A b \in daemon.batch : b.u # u
            BY <1>2, <2>1, <2>2 DEF FenceShape
        <3>2. Replayable(u) \notin daemon.batch
            BY <3>1 DEF Replayable
        <3> QED
            BY <1>1, <1>3, <1>4, <2>1, <2>2, <3>1, <3>2 DEF FenceShape
    <2>3. CASE u # daemon.u
        BY <1>1, <1>3, <1>4, <2>1, <2>3 DEF FenceShape
    <2> QED
        BY <2>2, <2>3
<1>9. \A u \in Utterances : FileShape(u)' /\ UnrecordedShape(u)'
    <2>1. \A o \in ops' : o.u # None /\ o \in ops
        BY <1>1, VoiceConstants DEF Inv, TypeOK, Ops
    <2> QED
        BY <1>1, <1>3, <1>4, <2>1, DaemonFrame
<1> QED
    BY <1>6, <1>7, <1>8, <1>9 DEF Inv, TurnInv

\* The invariant survives the end of a turn.
LEMMA TurnEndsInv == ASSUME Inv, TurnEnds PROVE Inv'
<1>1. UNCHANGED <<NotDaemon, recorded, file, meta, hnd, up, conn, client, ops, fate, acted, faults>>
    BY DEF TurnEnds, NotDaemon, ghost
<1>2. daemon.pc \in {"turn", "fenced", "acted"} /\ daemon.u \in Voice
    BY InTurn DEF TurnEnds
<1>3. /\ daemon' \in Daemons /\ daemon'.u = daemon.u /\ daemon'.pc = "concluding"
      /\ daemon'.batch = daemon.batch
    BY DEF TurnEnds, TurnFailed, Inv, TypeOK, Daemons, DaemonPcs
<1>4. daemon.u # None
    BY <1>2, VoiceConstants
<1>5. TurnInv'
    BY <1>1, <1>2, <1>3, <1>4, QuietStep
<1>6. fate' \in [Utterances -> Fates]
    BY <1>1 DEF Inv, TypeOK
<1>7. ops' \subseteq Ops /\ acted' \in [Utterances -> Nat] /\ faults' \in 0..MaxFaults
    BY <1>1 DEF Inv, TypeOK
<1> QED
    BY <1>1, <1>3, <1>5, <1>6, <1>7, DaemonType DEF Inv

\* The invariant survives the conclusion of a turn.
LEMMA ConcludeInv == ASSUME Inv, Conclude PROVE Inv'
<1>1. UNCHANGED <<NotDaemon, recorded, file, meta, hnd, up, conn, client, acted, faults>>
    BY DEF Conclude, NotDaemon
<1>2. daemon.pc = "concluding" /\ daemon \in Daemons
    BY DEF Conclude, Inv, TypeOK
<1>3. TurnInv' /\ ops' \subseteq Ops /\ daemon' \in Daemons
    <2>1. CASE daemon' \in Over(daemon) /\ UNCHANGED ops
        <3>1. /\ daemon' \in Daemons /\ daemon'.u = None /\ daemon'.pc \in {"loop", "interrupted"}
              /\ daemon'.batch \subseteq daemon.batch
            BY <1>2, <2>1, OverFacts
        <3>2. TurnInv'
            BY <1>1, <1>2, <2>1, <3>1, QuietStep
        <3> QED
            BY <2>1, <3>1, <3>2 DEF Inv, TypeOK
    <2>2. CASE ~(daemon.failed /\ (daemon.amb \/ daemon.preserve)) /\ Call("release", "cleanup")
        <3>1. "release" = Asked["cleanup"] /\ "cleanup" \in Phases \ {"none"}
            BY DEF Asked, Phases
        <3> QED
            BY <1>1, <1>2, <2>2, <3>1, CallStep
    <2>3. CASE ~(daemon.failed /\ (daemon.amb \/ daemon.preserve)) /\ Call("terminal", "final")
        <3>1. "terminal" = Asked["final"] /\ "final" \in Phases \ {"none"}
            BY DEF Asked, Phases
        <3> QED
            BY <1>1, <1>2, <2>3, <3>1, CallStep
    <2> QED
        BY <2>1, <2>2, <2>3 DEF Conclude
<1>4. fate' \in [Utterances -> Fates] /\ acted \in [Utterances -> Nat] /\ faults \in 0..MaxFaults
    BY DEF Conclude, Fates, Inv, TypeOK
<1>5. TypeOK'
    BY <1>1, <1>3, <1>4 DEF NotDaemon, Inv, TypeOK
<1> QED
    BY <1>3, <1>5 DEF Inv

\* An answer, or its absence, keeps the fence if a successful handoff has consumed its
\* request and a successful fence has taken the delivery out of "pending".
LEMMA AnswerFence ==
    ASSUME Inv, daemon.pc = "calling", NEW ok \in BOOLEAN, daemon' \in After(ok),
           NEW u \in Voice, acted'[u] = acted[u],
           \A o \in ops' : \E p \in ops : o.u = p.u /\ o.op = p.op,
           \A o, p \in Pendings(u)' : o = p,
           meta'[u] \in {"pending", "terminal"} =>
               meta'[u] = meta[u] \/ Pendings(u)' = {},
           meta'[u] = "pending" => meta[u] = "pending" \/ Pendings(u) # {},
           daemon.u = u /\ daemon.phase = "handoff" /\ ok => Pendings(u)' = {},
           daemon.u = u /\ daemon.phase = "fence" /\ ok => meta'[u] # "pending"
    PROVE  FenceShape(u)'
<1>1. AfterFacts(daemon', ok)
    BY AfterShape
<1>2. FenceShape(u) /\ u # None /\ acted[u] \in Nat
    BY VoiceConstants DEF Inv, TypeOK, TurnInv
<1>3. Replayable(u)' = Replayable(u)
    BY DEF Replayable
<1>4. Pendings(u)' # {} => Pendings(u) # {}
    BY DEF Pendings
<1>5. daemon'.batch \subseteq daemon.batch
    BY <1>1 DEF AfterFacts
<1>6. meta'[u] = "pending" \/ Replayable(u) \in daemon'.batch \/ Pendings(u)' # {} => acted[u] = 0
    BY <1>2, <1>4, <1>5 DEF FenceShape
<1>7. ASSUME Pendings(u)' # {}
      PROVE  /\ meta'[u] \notin {"pending", "terminal"}
             /\ \A b \in daemon'.batch : b.u = u => b.state = "ambiguous"
             /\ \A o \in ops' : o.u = u => o.op \in {"pending", "ambiguous"}
             /\ daemon'.u = u => daemon'.pc = "concluding" /\ daemon'.failed /\ daemon'.preserve
    <2>1. Pendings(u) # {}
        BY <1>4, <1>7
    <2>2. /\ meta[u] \notin {"pending", "terminal"}
          /\ \A b \in daemon.batch : b.u = u => b.state = "ambiguous"
          /\ \A o \in ops : o.u = u => o.op \in {"pending", "ambiguous"}
          /\ daemon.u = u => daemon.phase = "handoff"
        BY <1>2, <2>1 DEF FenceShape
    <2>3. daemon'.u = u => daemon'.pc = "concluding" /\ daemon'.failed /\ daemon'.preserve
        BY <1>1, <1>2, <1>7, <2>2 DEF AfterFacts
    <2> QED
        BY <1>5, <1>7, <2>2, <2>3
<1>8. ASSUME daemon'.u = u
      PROVE  /\ \A b \in daemon'.batch : b.u # u
             /\ daemon'.pc # "transcribing" /\ daemon'.pc # "calling"
             /\ daemon'.pc = "fenced" => meta'[u] # "pending"
             /\ daemon'.pc \in {"turn", "fenced"} => acted[u] = 0
    <2>1. daemon.u = u
        BY <1>1, <1>2, <1>8 DEF AfterFacts
    <2> QED
        BY <1>1, <1>2, <1>5, <2>1 DEF AfterFacts, FenceShape
<1>9. acted'[u] <= 1
    BY <1>2 DEF FenceShape
<1> QED
    BY <1>3, <1>6, <1>7, <1>8, <1>9 DEF FenceShape

\* A late request keeps the fence: only the request to make a delivery pending does so,
\* and it is gone then.
LEMMA LateFence ==
    ASSUME Inv, daemon' = daemon, NEW u \in Voice, acted'[u] = acted[u],
           \A o \in ops' : \E p \in ops : o.u = p.u /\ o.op = p.op,
           \A o, p \in Pendings(u)' : o = p,
           meta'[u] \in {"pending", "terminal"} =>
               \/ meta'[u] = meta[u]
               \/ Pendings(u)' = {} /\ \E o \in ops : o.u = u /\ o.op = meta'[u]
    PROVE  FenceShape(u)'
<1>1. FenceShape(u)
    BY DEF Inv, TurnInv
<1>2. Replayable(u)' = Replayable(u)
    BY DEF Replayable
<1>3. Pendings(u)' # {} => Pendings(u) # {}
    BY DEF Pendings
<1>4. meta'[u] = "pending" => meta[u] = "pending" \/ Pendings(u) # {}
    BY DEF Pendings
<1>5. meta'[u] = "pending" \/ Replayable(u) \in daemon'.batch \/ Pendings(u)' # {} => acted[u] = 0
    BY <1>1, <1>3, <1>4 DEF FenceShape
<1>6. ASSUME Pendings(u)' # {}
      PROVE  /\ meta'[u] \notin {"pending", "terminal"}
             /\ \A b \in daemon'.batch : b.u = u => b.state = "ambiguous"
             /\ \A o \in ops' : o.u = u => o.op \in {"pending", "ambiguous"}
             /\ daemon'.u = u => \/ daemon'.pc = "calling" /\ daemon'.phase = "handoff"
                                 \/ daemon'.pc = "concluding" /\ daemon'.failed
                                    /\ daemon'.preserve
    BY <1>1, <1>3, <1>6 DEF FenceShape
<1>7. ASSUME daemon'.u = u
      PROVE  /\ \A b \in daemon'.batch : b.u # u
             /\ daemon'.pc = "transcribing" => /\ meta'[u] \notin {"pending", "terminal"}
                                              /\ \A o \in ops' : o.u # u
             /\ daemon'.pc = "fenced" => meta'[u] # "pending"
             /\ \/ daemon'.pc \in {"transcribing", "turn", "fenced"}
                \/ daemon'.pc = "calling" /\ daemon'.phase \in {"handoff", "fence"}
                => acted'[u] = 0
    BY <1>1, <1>4, <1>7 DEF FenceShape
<1> QED
    BY <1>1, <1>2, <1>5, <1>6, <1>7 DEF FenceShape

\* Once the daemon has its answer, every request left is late.
LEMMA AnswerCall ==
    ASSUME Inv, daemon.pc = "calling", NEW ok \in BOOLEAN, daemon' \in After(ok),
           \A o \in ops' : o.late /\ \E p \in ops : o.op = p.op /\ o.seen = p.seen
    PROVE  CallShape'
<1>1. AfterFacts(daemon', ok)
    BY AfterShape
<1> QED
    BY <1>1 DEF AfterFacts, Inv, TurnInv, CallShape

\* The invariant survives a request without an answer.
LEMMA CallFailsInv == ASSUME Inv, CallFails PROVE Inv'
<1>1. UNCHANGED <<NotDaemon, recorded, file, meta, hnd, up, conn, client, fate, acted>>
    BY DEF CallFails, NotDaemon, ghost
<1>2. daemon.pc = "calling" /\ daemon' \in After(FALSE)
    BY DEF CallFails
<1>3. AfterFacts(daemon', FALSE)
    BY <1>2, AfterShape
<1>4. \A o \in ops' : /\ o \in Ops /\ o.late
                      /\ \E p \in ops : o.u = p.u /\ o.op = p.op /\ o.seen = p.seen
                                     /\ o = [p EXCEPT !.late = TRUE]
    <2>1. ASSUME NEW p \in ops
          PROVE  /\ p \in Ops /\ (p.late => p = [p EXCEPT !.late = TRUE])
                 /\ [p EXCEPT !.late = TRUE] \in Ops
                 /\ [p EXCEPT !.late = TRUE].u = p.u /\ [p EXCEPT !.late = TRUE].op = p.op
                 /\ [p EXCEPT !.late = TRUE].seen = p.seen /\ [p EXCEPT !.late = TRUE].late
        BY DEF Inv, TypeOK, Ops
    <2>2. ASSUME NEW o \in ops'
          PROVE  \E p \in ops : o = [p EXCEPT !.late = TRUE]
        <3>1. (o \in ops /\ o.late) \/ \E p \in ops : o = [p EXCEPT !.late = TRUE]
            BY DEF CallFails
        <3> QED
            BY <2>1, <3>1
    <2>3. ASSUME NEW o \in ops'
          PROVE  /\ o \in Ops /\ o.late
                 /\ \E p \in ops : o.u = p.u /\ o.op = p.op /\ o.seen = p.seen
                                /\ o = [p EXCEPT !.late = TRUE]
        <3>1. PICK p \in ops : o = [p EXCEPT !.late = TRUE]
            BY <2>2
        <3> QED
            BY <2>1, <3>1
    <2> QED
        BY <2>3
<1>5. ops' \subseteq Ops /\ faults' \in 0..MaxFaults
    BY <1>4, VoiceConstants DEF CallFails, Fault, Inv, TypeOK
<1>6. TypeOK'
    BY <1>1, <1>3, <1>5, DaemonType DEF Inv, TypeOK, AfterFacts
<1>7. CallShape'
    BY <1>2, <1>4, AnswerCall
<1>8. ASSUME NEW u \in Voice PROVE FenceShape(u)'
    <2>1. FenceShape(u)
        BY DEF Inv, TurnInv
    <2>2. \A o, p \in Pendings(u) : o = p
        BY <2>1 DEF FenceShape
    <2>3. ASSUME NEW o \in Pendings(u)'
          PROVE  \E p \in Pendings(u) : o = [p EXCEPT !.late = TRUE]
        <3>1. o \in ops' /\ o.u = u /\ o.op = "pending"
            BY DEF Pendings
        <3>2. PICK p \in ops : o.u = p.u /\ o.op = p.op /\ o = [p EXCEPT !.late = TRUE]
            BY <1>4, <3>1
        <3> QED
            BY <3>1, <3>2 DEF Pendings
    <2>4. \A o, p \in Pendings(u)' : o = p
        BY <2>2, <2>3
    <2> QED
        BY <1>1, <1>2, <1>4, <2>4, AnswerFence
<1>9. \A u \in Utterances : FileShape(u)' /\ UnrecordedShape(u)'
    <2>1. \A o \in ops' : o.u # None
        BY <1>5, VoiceConstants DEF Ops
    <2> QED
        BY <1>1, <1>3, <1>4, <2>1, DaemonFrame DEF AfterFacts
<1> QED
    BY <1>6, <1>7, <1>8, <1>9 DEF Inv, TurnInv

\* A delivery request works on the files of one recorded utterance.
LEMMA OpFrame ==
    ASSUME Inv, NEW o \in ops, UNCHANGED <<recorded, hnd, up, client, acted>>,
           \A v \in Utterances \ {o.u} : file'[v] = file[v] /\ meta'[v] = meta[v],
           FileShape(o.u)', daemon'.u \in {daemon.u, None}, daemon'.batch \subseteq daemon.batch,
           \A p \in ops' : \E q \in ops : p.u = q.u
    PROVE  \A u \in Utterances : FileShape(u)' /\ UnrecordedShape(u)'
<1> SUFFICES ASSUME NEW u \in Utterances PROVE FileShape(u)' /\ UnrecordedShape(u)'
    OBVIOUS
<1>1. FileShape(u) /\ UnrecordedShape(u) /\ u # None
    BY VoiceConstants DEF Inv, TurnInv
<1>2. FileShape(u)'
    BY <1>1, KeepFileShape
<1>3. UnrecordedShape(u)'
    BY <1>1 DEF UnrecordedShape
<1> QED
    BY <1>2, <1>3

\* A delivery request that ends: a late one for nobody, another for the waiting daemon.
LEMMA FinishStep ==
    ASSUME Inv, NEW o \in ops, NEW ok \in BOOLEAN, Finish(o, ok),
           UNCHANGED <<recorded, hnd, up, client, acted>>,
           \A v \in Utterances \ {o.u} : file'[v] = file[v] /\ meta'[v] = meta[v],
           FileShape(o.u)',
           meta'[o.u] \in {"pending", "terminal"} => meta'[o.u] \in {meta[o.u], o.op},
           ok /\ o.op = "ambiguous" => meta'[o.u] # "pending"
    PROVE  TurnInv' /\ ops' \subseteq Ops /\ daemon' \in Daemons
<1>1. ops' = ops \ {o} /\ ops \subseteq Ops /\ o.u \in Voice /\ daemon \in Daemons
    BY DEF Finish, Inv, TypeOK, Ops
<1>2. ASSUME NEW u \in Voice
      PROVE  /\ \A p, q \in Pendings(u)' : p = q
             /\ o.u = u /\ o.op = "pending" => Pendings(u)' = {} /\ Pendings(u) # {}
             /\ o.u = u /\ o.op = "terminal" => Pendings(u)' = {}
             /\ Pendings(u)' # {} => Pendings(u) # {}
    <2>1. FenceShape(u)
        BY DEF Inv, TurnInv
    <2>2. Pendings(u)' \subseteq Pendings(u) /\ o \notin Pendings(u)'
        BY <1>1 DEF Pendings
    <2>3. o.u = u /\ o.op = "pending" => o \in Pendings(u)
        BY DEF Pendings
    <2>4. o.u = u /\ o.op = "terminal" => Pendings(u) = {}
        BY <2>1 DEF FenceShape
    <2> QED
        BY <2>1, <2>2, <2>3, <2>4 DEF FenceShape
<1>3. CASE o.late
    <2>1. daemon' = daemon
        BY <1>3 DEF Finish
    <2>2. CallShape'
        BY <1>1, <2>1 DEF Inv, TurnInv, CallShape
    <2>3. ASSUME NEW u \in Voice PROVE FenceShape(u)'
        <3>1. \A p \in ops' : p \in ops
            BY <1>1
        <3>2. meta'[u] \in {"pending", "terminal"} =>
                 \/ meta'[u] = meta[u]
                 \/ Pendings(u)' = {} /\ \E p \in ops : p.u = u /\ p.op = meta'[u]
            BY <1>2
        <3>3. acted'[u] = acted[u]
            OBVIOUS
        <3> QED
            BY <1>2, <2>1, <3>1, <3>2, <3>3, LateFence
    <2>4. \A u \in Utterances : FileShape(u)' /\ UnrecordedShape(u)'
        BY <1>1, <2>1, OpFrame
    <2> QED
        BY <1>1, <2>1, <2>2, <2>3, <2>4 DEF TurnInv
<1>4. CASE ~o.late
    <2>1. /\ daemon.pc = "calling" /\ daemon.u = o.u /\ o.op = Asked[daemon.phase]
          /\ \A p \in ops : ~p.late => p = o
        BY <1>4 DEF Inv, TurnInv, CallShape
    <2>2. daemon' \in After(ok) /\ AfterFacts(daemon', ok)
        BY <1>4, <2>1, AfterShape DEF Finish
    <2>3. CallShape'
        <3>1. \A p \in ops' : p.late /\ p \in ops
            BY <1>1, <2>1 DEF Ops
        <3> QED
            BY <2>1, <2>2, <3>1, AnswerCall
    <2>4. ASSUME NEW u \in Voice PROVE FenceShape(u)'
        <3>1. \A p \in ops' : p \in ops
            BY <1>1
        <3>2. /\ meta'[u] \in {"pending", "terminal"} => meta'[u] = meta[u] \/ Pendings(u)' = {}
              /\ meta'[u] = "pending" => meta[u] = "pending" \/ Pendings(u) # {}
            BY <1>2
        <3>3. daemon.u = u /\ daemon.phase = "handoff" /\ ok => Pendings(u)' = {}
            BY <1>2, <2>1 DEF Asked
        <3>4. daemon.u = u /\ daemon.phase = "fence" /\ ok => meta'[u] # "pending"
            BY <2>1 DEF Asked
        <3>5. acted'[u] = acted[u]
            OBVIOUS
        <3> QED
            BY <1>2, <2>1, <2>2, <3>1, <3>2, <3>3, <3>4, <3>5, AnswerFence
    <2>5. \A u \in Utterances : FileShape(u)' /\ UnrecordedShape(u)'
        BY <1>1, <2>2, OpFrame DEF AfterFacts
    <2> QED
        BY <1>1, <2>2, <2>3, <2>4, <2>5 DEF TurnInv, AfterFacts
<1> QED
    BY <1>3, <1>4

\* A delivery request that goes on after its first look at the delivery.
LEMMA GoesOnStep ==
    ASSUME Inv, NEW o \in ops, NEW seen \in {"loaded", "written", "renamed"},
           ops' = (ops \ {o}) \cup {[o EXCEPT !.seen = seen]},
           seen = "renamed" <=> o.op = "release",
           UNCHANGED <<recorded, hnd, up, client, acted, daemon>>,
           \A v \in Utterances \ {o.u} : file'[v] = file[v] /\ meta'[v] = meta[v],
           FileShape(o.u)', meta'[o.u] \in {meta[o.u], "none"}
    PROVE  TurnInv' /\ ops' \subseteq Ops
<1> DEFINE n == [o EXCEPT !.seen = seen]
<1>1. n \in Ops /\ n.u = o.u /\ n.op = o.op /\ n.late = o.late /\ n.seen = seen /\ ops \subseteq Ops
    BY DEF Inv, TypeOK, Ops, Seens
<1>2. ops' = (ops \ {o}) \cup {n}
    OBVIOUS
<1> HIDE DEF n
<1>3. CallShape'
    <2>1. ASSUME NEW p \in ops' PROVE
             /\ p.seen \in {"loaded", "written"} => p.op # "release"
             /\ p.seen = "renamed" => p.op = "release"
        BY <1>1, <1>2 DEF Inv, TurnInv, CallShape, States
    <2>2. ASSUME NEW p \in ops', ~p.late PROVE
             /\ daemon'.pc = "calling" /\ daemon'.u = p.u /\ p.op = Asked[daemon'.phase]
             /\ \A q \in ops' : ~q.late => q = p
        BY <1>1, <1>2, <2>2 DEF Inv, TurnInv, CallShape
    <2> QED
        BY <2>1, <2>2 DEF Inv, TurnInv, CallShape
<1>4. ASSUME NEW u \in Voice PROVE FenceShape(u)'
    <2>1. FenceShape(u)
        BY DEF Inv, TurnInv
    <2>2. \A p, q \in Pendings(u)' : p = q
        BY <1>1, <1>2, <2>1 DEF Pendings, FenceShape
    <2>3. \A p \in ops' : \E q \in ops : p.u = q.u /\ p.op = q.op
        BY <1>1, <1>2
    <2>4. meta'[u] \in {"pending", "terminal"} => meta'[u] = meta[u]
        OBVIOUS
    <2>5. acted'[u] = acted[u]
        OBVIOUS
    <2> QED
        BY <2>2, <2>3, <2>4, <2>5, LateFence
<1>5. \A u \in Utterances : FileShape(u)' /\ UnrecordedShape(u)'
    BY <1>1, <1>2, OpFrame
<1> QED
    BY <1>1, <1>2, <1>3, <1>4, <1>5 DEF TurnInv

\* The invariant survives the first look of a request at its delivery.
LEMMA LoadDeliveryInv == ASSUME Inv, NEW o \in ops, LoadDelivery(o) PROVE Inv'
<1>1. UNCHANGED <<recorded, hnd, up, stamp, slot, conn, client, fate, acted, faults>>
    BY DEF LoadDelivery, NotOps, ghost
<1>2. o \in Ops /\ o.u \in Voice /\ o.u \in Utterances /\ FileShape(o.u)
    BY DEF Inv, TypeOK, TurnInv, Ops
<1>3. /\ TurnInv' /\ ops' \subseteq Ops /\ daemon' \in Daemons
      /\ file' \in [Utterances -> SUBSET Places] /\ meta' \in [Utterances -> States \cup {"none"}]
      /\ litter' \subseteq Voice
    <2>1. CASE Retained(o.u) /\ o.op # "release" /\ meta[o.u] # "terminal"
        <3>1. /\ ops' = (ops \ {o}) \cup {[o EXCEPT !.seen = "loaded"]}
              /\ UNCHANGED <<file, meta, litter, daemon>>
            BY <2>1 DEF LoadDelivery, GoesOn
        <3>2. FileShape(o.u)'
            BY <1>1, <1>2, <3>1, KeepFileShape
        <3> QED
            BY <1>1, <2>1, <3>1, <3>2, GoesOnStep DEF Inv, TypeOK
    <2>2. CASE Retained(o.u) /\ o.op = "release"
        <3>1. /\ Move(o.u, "retained", "released") /\ meta' = [meta EXCEPT ![o.u] = "none"]
              /\ ops' = (ops \ {o}) \cup {[o EXCEPT !.seen = "renamed"]} /\ UNCHANGED daemon
              /\ litter' = litter \cup (Replacing \cap {o.u})
            BY <2>2 DEF LoadDelivery, GoesOn
        <3>2. file[o.u] = {"retained"}
            BY <1>2, <2>2, OnePlace DEF Retained
        <3>3. /\ file' \in [Utterances -> SUBSET Places] /\ file'[o.u] = {"released"}
              /\ \A v \in Utterances \ {o.u} : file'[v] = file[v]
            BY <1>2, <3>1, <3>2 DEF Move, Inv, TypeOK, Places
        <3>4. /\ meta' \in [Utterances -> States \cup {"none"}] /\ meta'[o.u] = "none"
              /\ \A v \in Utterances \ {o.u} : meta'[v] = meta[v]
            BY <1>2, <3>1 DEF Inv, TypeOK
        <3>5. FileShape(o.u)'
            BY <1>1, <1>2, <3>2, <3>3 DEF FileShape
        <3>6. TurnInv' /\ ops' \subseteq Ops
            BY <1>1, <2>2, <3>1, <3>3, <3>4, <3>5, GoesOnStep
        <3> QED
            BY <1>2, <3>1, <3>3, <3>4, <3>6 DEF Inv, TypeOK
    <2>3. CASE /\ ~(Retained(o.u) /\ o.op # "release" /\ meta[o.u] # "terminal")
               /\ ~(Retained(o.u) /\ o.op = "release")
        <3>1. Finish(o, Retained(o.u) /\ o.op = "terminal") /\ UNCHANGED <<file, meta, litter>>
            BY <2>3 DEF LoadDelivery
        <3> DEFINE ok == Retained(o.u) /\ o.op = "terminal"
        <3>2. ok \in BOOLEAN /\ Finish(o, ok) /\ (ok => o.op = "terminal")
            BY <3>1
        <3>3. FileShape(o.u)'
            BY <1>1, <1>2, <3>1, KeepFileShape
        <3> HIDE DEF ok
        <3>4. TurnInv' /\ ops' \subseteq Ops /\ daemon' \in Daemons
            BY <1>1, <3>1, <3>2, <3>3, FinishStep
        <3> QED
            BY <3>1, <3>4 DEF Inv, TypeOK
    <2> QED
        BY <2>1, <2>2, <2>3
<1>4. TypeOK'
    BY <1>1, <1>3 DEF Inv, TypeOK
<1> QED
    BY <1>3, <1>4 DEF Inv

\* The invariant survives the writing of a replacement next to delivery.json.
LEMMA WriteReplacementInv == ASSUME Inv, NEW o \in ops, WriteReplacement(o) PROVE Inv'
<1>1. /\ UNCHANGED <<recorded, file, meta, hnd, up, stamp, litter, slot, conn, client, fate, acted, faults>>
      /\ o.seen = "loaded"
    BY DEF WriteReplacement, NotOps, ghost
<1>2. o \in Ops /\ o.u \in Utterances /\ FileShape(o.u) /\ o.op # "release"
    BY <1>1 DEF Inv, TypeOK, TurnInv, CallShape, Ops
<1>3. FileShape(o.u)'
    BY <1>1, <1>2, KeepFileShape
<1>4. TurnInv' /\ ops' \subseteq Ops /\ daemon' \in Daemons
    <2>1. CASE Retained(o.u)
        <3>1. ops' = (ops \ {o}) \cup {[o EXCEPT !.seen = "written"]} /\ UNCHANGED daemon
            BY <2>1 DEF WriteReplacement, GoesOn
        <3>2. TurnInv' /\ ops' \subseteq Ops
            BY <1>1, <1>2, <1>3, <3>1, GoesOnStep
        <3> QED
            BY <3>1, <3>2 DEF Inv, TypeOK
    <2>2. CASE ~Retained(o.u)
        <3>1. Finish(o, FALSE)
            BY <2>2 DEF WriteReplacement
        <3> QED
            BY <1>1, <1>3, <3>1, FinishStep
    <2> QED
        BY <2>1, <2>2
<1>5. TypeOK'
    BY <1>1, <1>4 DEF Inv, TypeOK
<1> QED
    BY <1>4, <1>5 DEF Inv

\* The invariant survives the replacement of a delivery.json.
LEMMA WriteStateInv == ASSUME Inv, NEW o \in ops, WriteState(o) PROVE Inv'
<1>1. /\ UNCHANGED <<recorded, file, hnd, up, stamp, litter, slot, conn, client, fate, acted, faults>>
      /\ Finish(o, Retained(o.u)) /\ o.seen = "written"
    BY DEF WriteState, NotOps, ghost
<1>2. o \in Ops /\ o.u \in Voice /\ o.u \in Utterances /\ FileShape(o.u) /\ o.op \in States
    BY <1>1 DEF Inv, TypeOK, TurnInv, CallShape, Ops, OpNames
<1>3. /\ meta' \in [Utterances -> States \cup {"none"}]
      /\ \A v \in Utterances \ {o.u} : meta'[v] = meta[v]
      /\ Retained(o.u) => meta'[o.u] = o.op
      /\ ~Retained(o.u) => meta'[o.u] = meta[o.u]
    BY <1>2 DEF WriteState, Inv, TypeOK
<1>4. FileShape(o.u)'
    <2>1. meta[o.u] # "none" => meta'[o.u] # "none"
        BY <1>2, <1>3 DEF States
    <2> QED
        BY <1>1, <1>2, <2>1 DEF FileShape
<1>5. TurnInv' /\ ops' \subseteq Ops /\ daemon' \in Daemons
    <2> DEFINE ok == Retained(o.u)
    <2>1. ok \in BOOLEAN /\ Finish(o, ok)
        BY <1>1 DEF Retained
    <2>2. ok /\ o.op = "ambiguous" => meta'[o.u] # "pending"
        BY <1>3
    <2>3. meta'[o.u] \in {"pending", "terminal"} => meta'[o.u] \in {meta[o.u], o.op}
        BY <1>3
    <2> HIDE DEF ok
    <2> QED
        BY <1>1, <1>3, <1>4, <2>1, <2>2, <2>3, FinishStep
<1>6. TypeOK'
    BY <1>1, <1>3, <1>5 DEF Inv, TypeOK
<1> QED
    BY <1>5, <1>6 DEF Inv

\* The invariant survives the removal of a released delivery.
LEMMA RemoveReleasedInv == ASSUME Inv, NEW o \in ops, RemoveReleased(o) PROVE Inv'
<1>1. /\ UNCHANGED <<recorded, meta, hnd, up, stamp, litter, slot, conn, client, fate, acted, faults>>
      /\ Finish(o, "released" \in file[o.u] /\ o.u \notin litter) /\ o.seen = "renamed"
    BY DEF RemoveReleased, NotOps, ghost
<1>2. o \in Ops /\ o.u \in Voice /\ o.u \in Utterances /\ FileShape(o.u) /\ o.op = "release"
    BY <1>1 DEF Inv, TypeOK, TurnInv, CallShape, Ops
<1>3. /\ file' \in [Utterances -> SUBSET Places] /\ file'[o.u] \in {file[o.u], file[o.u] \ {"released"}}
      /\ \A v \in Utterances \ {o.u} : file'[v] = file[v]
    BY <1>2 DEF RemoveReleased, Inv, TypeOK
<1>4. FileShape(o.u)'
    <2>1. CASE file'[o.u] # file[o.u]
        <3>1. file[o.u] = {"released"}
            BY <1>2, <1>3, <2>1, OnePlace, SMTT(30)
        <3> QED
            BY <1>1, <1>2, <1>3, <2>1, <3>1 DEF FileShape
    <2>2. CASE file'[o.u] = file[o.u]
        BY <1>1, <1>2, <2>2, KeepFileShape
    <2> QED
        BY <2>1, <2>2
<1>5. TurnInv' /\ ops' \subseteq Ops /\ daemon' \in Daemons
    <2> DEFINE ok == "released" \in file[o.u] /\ o.u \notin litter
    <2>1. ok \in BOOLEAN /\ Finish(o, ok)
        BY <1>1
    <2> HIDE DEF ok
    <2> QED
        BY <1>1, <1>2, <1>3, <1>4, <2>1, FinishStep
<1>6. TypeOK'
    BY <1>1, <1>3, <1>5 DEF Inv, TypeOK
<1> QED
    BY <1>5, <1>6 DEF Inv

\* The invariant survives a request that fails.
LEMMA OperationFailsInv == ASSUME Inv, NEW o \in ops, OperationFails(o) PROVE Inv'
<1>1. /\ UNCHANGED <<recorded, file, meta, hnd, up, stamp, litter, slot, conn, client, fate, acted>>
      /\ Finish(o, FALSE)
    BY DEF OperationFails, NotOps, ghost
<1>2. o.u \in Utterances /\ FileShape(o.u)
    BY DEF Inv, TypeOK, TurnInv, Ops
<1>3. FileShape(o.u)'
    BY <1>1, <1>2, KeepFileShape
<1>4. TurnInv' /\ ops' \subseteq Ops /\ daemon' \in Daemons
    BY <1>1, <1>3, FinishStep
<1>5. faults' \in 0..MaxFaults
    BY VoiceConstants DEF OperationFails, Fault, Inv, TypeOK
<1>6. TypeOK'
    BY <1>1, <1>4, <1>5 DEF Inv, TypeOK
<1> QED
    BY <1>4, <1>6 DEF Inv

\* The invariant survives the next delivery of a recovery batch.
LEMMA NextRetainedInv == ASSUME Inv, NextRetained PROVE Inv'
<1>1. UNCHANGED <<NotDaemon, recorded, file, meta, hnd, up, conn, client, fate, acted, faults>>
    BY DEF NextRetained, NotDaemon, ghost
<1>2. daemon.pc = "loop" /\ daemon.u = None /\ daemon \in Daemons /\ ops \subseteq Ops
    BY DEF NextRetained, Inv, TypeOK, TurnInv, CallShape
<1>3. \A o \in ops : o.late
    BY <1>2 DEF Inv, TurnInv, CallShape, Ops
<1>4. PICK b \in daemon.batch :
          \/ /\ b.state = "terminal" /\ Send(b.u, "release")
             /\ daemon' = [Recovering(b) EXCEPT !.pc = "calling", !.phase = "reap"]
          \/ b.state = "ambiguous" /\ daemon' = Idle /\ UNCHANGED ops
          \/ /\ b.state = "pending" /\ UNCHANGED ops
             /\ daemon' = [Recovering(b) EXCEPT !.pc = "turn"]
    BY DEF NextRetained, Oldest
<1>5. b \in [u : Voice, state : States] /\ b.u \in Voice /\ b.u # None
    BY <1>2, VoiceConstants DEF Daemons
<1>6. /\ \A c \in daemon.batch \ {b} : c.u # b.u
      /\ \A c, e \in daemon.batch : c.u = e.u => c = e
    BY DEF Inv, TurnInv, CallShape
<1>7. daemon.batch \ {b} \in SUBSET [u : Voice, state : States]
    BY <1>2 DEF Daemons
<1>8. /\ TurnInv' /\ ops' \subseteq Ops /\ daemon' \in Daemons
    <2>1. CASE b.state = "ambiguous" /\ daemon' = Idle /\ UNCHANGED ops
        <3>1. daemon' \in Daemons
            BY <2>1 DEF Idle, Daemons, DaemonPcs, Phases
        <3>2. daemon'.u = None /\ daemon'.pc = "loop" /\ daemon'.batch = {}
            BY <2>1 DEF Idle
        <3>3. TurnInv'
            BY <1>1, <1>2, <2>1, <3>2, QuietStep
        <3> QED
            BY <1>2, <2>1, <3>1, <3>3
    <2>2. CASE /\ b.state = "pending" /\ UNCHANGED ops
               /\ daemon' = [Recovering(b) EXCEPT !.pc = "turn"]
        <3>1. daemon' \in Daemons
            BY <1>5, <1>7, <2>2 DEF Recovering, Idle, Daemons, DaemonPcs, Phases
        <3>2. daemon'.u = b.u /\ daemon'.pc = "turn" /\ daemon'.batch = daemon.batch \ {b}
            BY <2>2 DEF Recovering, Idle
        <3>3. CallShape'
            BY <1>3, <1>5, <1>6, <2>2, <3>2 DEF Inv, TurnInv, CallShape
        <3>4. ASSUME NEW u \in Voice PROVE FenceShape(u)'
            <4>1. FenceShape(u) /\ Pendings(u)' = Pendings(u) /\ Replayable(u)' = Replayable(u)
                BY <2>2 DEF Inv, TurnInv, Pendings, Replayable
            <4>2. b = Replayable(b.u)
                BY <1>5, <2>2 DEF Replayable
            <4>3. u = b.u => acted[u] = 0 /\ Pendings(u) = {} /\ Replayable(u) \notin daemon'.batch
                <5>1. u = b.u => Replayable(u) \in daemon.batch
                    BY <4>2
                <5>2. u = b.u => acted[u] = 0
                    BY <4>1, <5>1 DEF FenceShape
                <5>3. u = b.u => Pendings(u) = {}
                    BY <2>2, <4>1 DEF FenceShape
                <5> QED
                    BY <3>2, <4>2, <5>2, <5>3
            <4> QED
                BY <1>1, <1>6, <2>2, <3>2, <4>1, <4>3 DEF FenceShape
        <3>5. \A u \in Utterances : FileShape(u)' /\ UnrecordedShape(u)'
            <4>1. \A o \in ops' : o.u # None
                BY <1>2, <2>2, VoiceConstants DEF Ops
            <4> QED
                BY <1>1, <2>2, <3>2, <4>1, DaemonFrame
        <3> QED
            BY <1>2, <2>2, <3>1, <3>3, <3>4, <3>5 DEF TurnInv
    <2>3. CASE /\ b.state = "terminal" /\ Send(b.u, "release")
               /\ daemon' = [Recovering(b) EXCEPT !.pc = "calling", !.phase = "reap"]
        <3> DEFINE new == [u |-> b.u, op |-> "release", seen |-> "unread", late |-> FALSE]
        <3>1. daemon' \in Daemons
            BY <1>5, <1>7, <2>3 DEF Recovering, Idle, Daemons, DaemonPcs, Phases
        <3>2. /\ daemon'.u = b.u /\ daemon'.pc = "calling" /\ daemon'.phase = "reap"
              /\ daemon'.batch = daemon.batch \ {b}
            BY <2>3 DEF Recovering, Idle
        <3>3. /\ ops' = ops \cup {new} /\ new \in Ops
              /\ new.u = b.u /\ new.op = "release" /\ new.seen = "unread" /\ new.late = FALSE
            BY <1>5, <2>3 DEF Send, Ops, OpNames, Seens
        <3> HIDE DEF new
        <3>4. CallShape'
            <4>1. ASSUME NEW o \in ops' PROVE
                     /\ o.seen \in {"loaded", "written"} => o.op # "release"
                     /\ o.seen = "renamed" => o.op = "release"
                     /\ ~o.late => o = new
                BY <1>3, <3>3 DEF Inv, TurnInv, CallShape, States
            <4>2. ASSUME NEW o \in ops', ~o.late PROVE
                     /\ daemon'.pc = "calling" /\ daemon'.u = o.u /\ o.op = Asked[daemon'.phase]
                     /\ \A p \in ops' : ~p.late => p = o
                BY <3>2, <3>3, <4>1, <4>2 DEF Asked
            <4> QED
                BY <1>5, <1>6, <3>2, <4>1, <4>2 DEF CallShape
        <3>5. ASSUME NEW u \in Voice PROVE FenceShape(u)'
            <4>1. FenceShape(u) /\ Replayable(u)' = Replayable(u)
                BY DEF Inv, TurnInv, Replayable
            <4>2. Pendings(u)' = Pendings(u)
                BY <3>3 DEF Pendings
            <4>3. u = b.u => Pendings(u) = {}
                BY <2>3, <4>1 DEF FenceShape
            <4>4. \A o \in ops' : o.u = u => o \in ops \/ u = b.u
                BY <3>3
            <4> QED
                BY <1>1, <1>6, <2>3, <3>2, <4>1, <4>2, <4>3, <4>4 DEF FenceShape
        <3>6. \A u \in Utterances : FileShape(u)' /\ UnrecordedShape(u)'
            <4>1. \A o \in ops' : o.u # None /\ (o \in ops \/ o.u = daemon'.u)
                BY <1>2, <3>2, <3>3, VoiceConstants DEF Ops
            <4> QED
                BY <1>1, <3>2, <4>1, DaemonFrame
        <3> QED
            BY <1>2, <3>1, <3>3, <3>4, <3>5, <3>6 DEF TurnInv
    <2> QED
        BY <1>4, <2>1, <2>2, <2>3
<1>9. fate \in [Utterances -> Fates] /\ acted \in [Utterances -> Nat] /\ faults \in 0..MaxFaults
    BY DEF Inv, TypeOK
<1> QED
    BY <1>1, <1>8, <1>9, DaemonType DEF Inv

\* The invariant survives a recovery of the retained deliveries.
LEMMA RetryRetainedRecoveryInv == ASSUME Inv, RetryRetainedRecovery PROVE Inv'
<1>1. /\ UNCHANGED <<NotDaemon, recorded, meta, hnd, up, stamp, litter, slot, conn, client, ops, fate, acted>>
      /\ \E left \in SUBSET Released : file' = Published(left)
    BY DEF RetryRetainedRecovery, NotDaemon, ghost
<1>2. daemon.pc = "loop" /\ daemon.u = None /\ daemon \in Daemons /\ ops \subseteq Ops
    BY DEF RetryRetainedRecovery, Inv, TypeOK, TurnInv, CallShape
<1>3. \A o \in ops : o.late
    BY <1>2 DEF Inv, TurnInv, CallShape, Ops
<1>4. ASSUME NEW u \in Utterances
      PROVE  FileShape(u)' /\ file'[u] \subseteq Places /\ (file[u] = {} => file'[u] = {})
    <2>1. FileShape(u) /\ file[u] \subseteq Places
        BY DEF Inv, TypeOK, TurnInv
    <2>2. CASE "hidden" \in file[u]
        <3>1. file[u] = {"hidden"}
            BY <2>2, OnePlace
        <3>2. file'[u] = {"retained"}
            BY <1>1, <2>2, <3>1 DEF Published
        <3> QED
            BY <1>1, <2>1, <3>1, <3>2 DEF FileShape, Places
    <2>3. CASE "hidden" \notin file[u]
        <3>1. file'[u] \in {file[u], file[u] \ {"released"}}
            BY <1>1, <2>3 DEF Published
        <3>2. CASE file'[u] # file[u]
            <4>1. file[u] = {"released"}
                BY <3>1, <3>2, OnePlace
            <4> QED
                BY <1>1, <2>1, <3>1, <3>2, <4>1 DEF FileShape
        <3>3. CASE file'[u] = file[u]
            BY <1>1, <2>1, <3>3, KeepFileShape
        <3> QED
            BY <3>2, <3>3
    <2> QED
        BY <2>2, <2>3
<1>5. file' \in [Utterances -> SUBSET Places]
    <2>1. DOMAIN file' = Utterances /\ file' = [u \in Utterances |-> file'[u]]
        BY <1>1 DEF Published
    <2> QED
        BY <1>4, <2>1
<1>6. \A b \in Reported : /\ b \in [u : Voice, state : States]
                           /\ b = [u |-> b.u, state |-> meta[b.u]]
                           /\ b.u \in Voice /\ b.state = meta[b.u] /\ file[b.u] # {}
    <2>1. ASSUME NEW b \in Reported
          PROVE  /\ b \in [u : Voice, state : States] /\ b = [u |-> b.u, state |-> meta[b.u]]
                 /\ b.u \in Voice /\ b.state = meta[b.u] /\ file[b.u] # {}
        <3>1. PICK v \in Voice : /\ file[v] \cap {"hidden", "retained"} # {}
                                /\ b = [u |-> v, state |-> meta[v]]
            BY DEF Reported
        <3>2. meta[v] \in States
            BY <3>1 DEF Inv, TypeOK, TurnInv, FileShape
        <3> QED
            BY <3>1, <3>2
    <2> QED
        BY <2>1
<1>7. CASE daemon' = [Idle EXCEPT !.paused = FALSE, !.batch = Reported] /\ UNCHANGED faults
    <2>1. Reported \in SUBSET [u : Voice, state : States]
        BY <1>6
    <2>2. daemon' \in Daemons
        BY <1>7, <2>1 DEF Idle, Daemons, DaemonPcs, Phases
    <2>3. daemon'.u = None /\ daemon'.pc = "loop" /\ daemon'.batch = Reported
        BY <1>7 DEF Idle
    <2>4. TypeOK'
        BY <1>1, <1>5, <1>7, <2>2 DEF NotDaemon, Inv, TypeOK
    <2>5. CallShape'
        <3>1. \A b, c \in Reported : b.u = c.u => b = c
            BY <1>6
        <3> QED
            BY <1>1, <1>3, <2>3, <3>1 DEF Inv, TurnInv, CallShape
    <2>6. ASSUME NEW u \in Voice PROVE FenceShape(u)'
        <3>1. FenceShape(u) /\ Pendings(u)' = Pendings(u) /\ Replayable(u)' = Replayable(u)
            BY <1>1 DEF Inv, TurnInv, Pendings, Replayable
        <3>2. Replayable(u) \in Reported => meta[u] = "pending"
            BY <1>6 DEF Replayable
        <3>3. Pendings(u) # {} => \A b \in Reported : b.u = u => b.state = "ambiguous"
            BY <1>6, <3>1 DEF FenceShape, States
        <3>4. u # None
            BY VoiceConstants
        <3> QED
            BY <1>1, <2>3, <3>1, <3>2, <3>3, <3>4 DEF FenceShape
    <2>7. ASSUME NEW u \in Utterances PROVE UnrecordedShape(u)'
        <3>1. UnrecordedShape(u) /\ u # None
            BY VoiceConstants DEF Inv, TurnInv
        <3> QED
            BY <1>1, <1>4, <1>6, <2>3, <3>1 DEF UnrecordedShape
    <2> QED
        BY <1>4, <2>4, <2>5, <2>6, <2>7 DEF Inv, TurnInv
<1>8. CASE (Fault \/ UNCHANGED faults) /\ UNCHANGED daemon
    <2>1. TypeOK'
        BY <1>1, <1>5, <1>8, VoiceConstants DEF NotDaemon, Fault, Inv, TypeOK
    <2>2. CallShape' /\ \A u \in Voice : FenceShape(u)'
        BY <1>1, <1>8, KeepFence
    <2>3. ASSUME NEW u \in Utterances PROVE UnrecordedShape(u)'
        BY <1>1, <1>4, <1>8 DEF UnrecordedShape, Inv, TurnInv
    <2> QED
        BY <1>4, <2>1, <2>2, <2>3 DEF Inv, TurnInv
<1> QED
    BY <1>7, <1>8 DEF RetryRetainedRecovery

\* The invariant survives an interruption after which nothing was said.
LEMMA NothingMoreSaidInv == ASSUME Inv, NothingMoreSaid PROVE Inv'
<1>1. UNCHANGED <<NotDaemon, recorded, file, meta, hnd, up, conn, client, ops, fate, acted, faults>>
    BY DEF NothingMoreSaid, NotDaemon, ghost
<1>2. daemon.pc = "interrupted" /\ daemon.paused \in BOOLEAN
    BY DEF NothingMoreSaid, Inv, TypeOK, Daemons
<1>3. daemon' \in Daemons
    BY <1>2 DEF NothingMoreSaid, Idle, Daemons, DaemonPcs, Phases
<1>4. daemon'.u = None /\ daemon'.pc = "loop" /\ daemon'.batch = {}
    BY DEF NothingMoreSaid, Idle
<1>5. TurnInv'
    BY <1>1, <1>2, <1>4, QuietStep
<1>6. /\ ops' \subseteq Ops /\ fate' \in [Utterances -> Fates] /\ acted' \in [Utterances -> Nat]
      /\ faults' \in 0..MaxFaults
    BY <1>1 DEF Inv, TypeOK
<1> QED
    BY <1>1, <1>3, <1>5, <1>6, DaemonType DEF Inv

\* The invariant survives a new recording: nothing is known of its utterance.
LEMMA RecordInv == ASSUME Inv, NEW u \in Voice, Record(u) PROVE Inv'
<1>1. /\ UNCHANGED <<NotDaemon, meta, hnd, up, stamp, litter, slot, ops, fate, acted, faults>>
      /\ recorded' = recorded \cup {u} /\ u \notin recorded
    BY DEF Record, NotDaemon, ghost
<1>2. daemon.u = None /\ daemon.paused \in BOOLEAN /\ ops \subseteq Ops
    BY DEF Record, Inv, TypeOK, TurnInv, CallShape, Daemons
<1>3. \A o \in ops : o.late
    BY <1>2 DEF Record, Inv, TurnInv, CallShape, Ops
<1>4. daemon' \in Daemons
    BY <1>2 DEF Record, Idle, Daemons, DaemonPcs, Phases
<1>5. daemon'.u = u /\ daemon'.pc = "transcribing" /\ daemon'.batch = {}
    BY DEF Record, Idle
<1>6. UnrecordedShape(u) /\ FileShape(u) /\ FenceShape(u) /\ u # None
    BY VoiceConstants DEF Inv, TurnInv
<1>7. TypeOK'
    <2>1. conn' \in [Utterances -> Conns]
        BY DEF Record, Connection, Inv, TypeOK, Conns, Ends
    <2>2. client' \in [Utterances -> ClientPcs]
        BY DEF Record, ClientTo, Inv, TypeOK, ClientPcs
    <2>3. file' \in [Utterances -> SUBSET Places] /\ recorded' \subseteq Utterances
        BY DEF Record, Inv, TypeOK, Places
    <2> QED
        BY <1>1, <1>4, <2>1, <2>2, <2>3 DEF NotDaemon, Inv, TypeOK
<1>8. /\ file'[u] = {"generation"}
      /\ \A v \in Utterances \ {u} : file'[v] = file[v] /\ client'[v] = client[v]
    BY DEF Record, ClientTo, Inv, TypeOK
<1>9. CallShape'
    BY <1>1, <1>3, <1>5, <1>6 DEF Inv, TurnInv, CallShape
<1>10. ASSUME NEW v \in Voice PROVE FenceShape(v)'
    <2>1. FenceShape(v) /\ Pendings(v)' = Pendings(v) /\ Replayable(v)' = Replayable(v)
        BY <1>1 DEF Inv, TurnInv, Pendings, Replayable
    <2>2. v = u => Pendings(v) = {} /\ acted[v] = 0 /\ meta[v] = "none" /\ \A o \in ops : o.u # v
        BY <1>1, <1>6 DEF UnrecordedShape, Pendings
    <2> QED
        BY <1>1, <1>5, <2>1, <2>2 DEF FenceShape
<1>11. ASSUME NEW v \in Utterances PROVE FileShape(v)' /\ UnrecordedShape(v)'
    <2>1. FileShape(v) /\ UnrecordedShape(v)
        BY DEF Inv, TurnInv
    <2>2. CASE v = u
        <3>1. hnd[u] = "none" /\ meta[u] = "none"
            BY <1>1, <1>6 DEF UnrecordedShape
        <3> QED
            BY <1>1, <1>8, <2>2, <3>1 DEF FileShape, UnrecordedShape
    <2>3. CASE v # u
        <3>1. FileShape(v)'
            BY <1>1, <1>8, <2>1, <2>3, KeepFileShape
        <3> QED
            BY <1>1, <1>5, <1>8, <2>1, <2>3, <3>1 DEF UnrecordedShape
    <2> QED
        BY <2>2, <2>3
<1> QED
    BY <1>7, <1>9, <1>10, <1>11 DEF Inv, TurnInv

\* The invariant survives a crash of the daemon: its request goes on as a late one.
LEMMA DaemonCrashInv == ASSUME Inv, DaemonCrash PROVE Inv'
<1>1. /\ UNCHANGED <<NotDaemon, recorded, file, meta, hnd, up, stamp, litter, slot, acted>>
      /\ daemon' = Idle /\ ops' = {[o EXCEPT !.late = TRUE] : o \in ops}
    BY DEF DaemonCrash, NotDaemon
<1>2. daemon' \in Daemons /\ daemon'.u = None /\ daemon'.pc = "loop" /\ daemon'.batch = {}
    BY <1>1 DEF Idle, Daemons, DaemonPcs, Phases
<1>3. ASSUME NEW o \in ops'
      PROVE  /\ o \in Ops /\ o.late
             /\ \E p \in ops : o.u = p.u /\ o.op = p.op /\ o.seen = p.seen
                            /\ o = [p EXCEPT !.late = TRUE]
    <2>1. PICK p \in ops : o = [p EXCEPT !.late = TRUE]
        BY <1>1
    <2>2. p \in Ops
        BY DEF Inv, TypeOK
    <2> QED
        BY <2>1, <2>2 DEF Ops
<1>4. daemon.pc = "transcribing" => daemon.u \in Voice
    BY InTurn
<1>5. TypeOK'
    <2>1. conn' \in [Utterances -> Conns]
        BY <1>4 DEF DaemonCrash, Inv, TypeOK, Conns, Ends
    <2>2. client' \in [Utterances -> ClientPcs]
        BY <1>4 DEF DaemonCrash, ClientTo, Inv, TypeOK, ClientPcs
    <2>3. faults' \in 0..MaxFaults
        BY VoiceConstants DEF DaemonCrash, Fault, Inv, TypeOK
    <2>4. ops' \subseteq Ops
        BY <1>3
    <2>5. fate' \in [Utterances -> Fates]
        BY DEF DaemonCrash, Fates, Inv, TypeOK
    <2> QED
        BY <1>1, <1>2, <2>1, <2>2, <2>3, <2>4, <2>5 DEF NotDaemon, Inv, TypeOK
<1>6. CallShape'
    <2>1. \A o \in ops' : /\ o.seen \in {"loaded", "written"} => o.op # "release"
                          /\ o.seen = "renamed" => o.op = "release"
        BY <1>3 DEF Inv, TurnInv, CallShape
    <2> QED
        BY <1>2, <1>3, <2>1 DEF CallShape
<1>7. ASSUME NEW u \in Voice PROVE FenceShape(u)'
    <2>1. FenceShape(u) /\ u # None
        BY VoiceConstants DEF Inv, TurnInv
    <2>2. ASSUME NEW o \in Pendings(u)'
          PROVE  \E p \in Pendings(u) : o = [p EXCEPT !.late = TRUE]
        <3>1. o \in ops' /\ o.u = u /\ o.op = "pending"
            BY DEF Pendings
        <3>2. PICK p \in ops : o.u = p.u /\ o.op = p.op /\ o = [p EXCEPT !.late = TRUE]
            BY <1>3, <3>1
        <3> QED
            BY <3>1, <3>2 DEF Pendings
    <2>3. /\ Pendings(u)' # {} => Pendings(u) # {}
          /\ Pendings(u) # {} => \A o, p \in Pendings(u)' : o = p
        BY <2>1, <2>2 DEF FenceShape
    <2>4. Pendings(u) # {} => \A o \in ops' : o.u = u => o.op \in {"pending", "ambiguous"}
        BY <1>3, <2>1 DEF FenceShape
    <2> QED
        BY <1>1, <1>2, <2>1, <2>3, <2>4 DEF FenceShape
<1>8. ASSUME NEW u \in Utterances PROVE FileShape(u)' /\ UnrecordedShape(u)'
    <2>1. FileShape(u) /\ UnrecordedShape(u) /\ u # None
        BY VoiceConstants DEF Inv, TurnInv
    <2>2. FileShape(u)'
        BY <1>1, <2>1, KeepFileShape
    <2>3. u \notin recorded => client'[u] = "idle"
        <3>1. u \notin recorded => daemon.u # u /\ client[u] = "idle"
            BY <2>1 DEF UnrecordedShape
        <3> QED
            BY <1>4, <3>1 DEF DaemonCrash, ClientTo, Inv, TypeOK
    <2>4. UnrecordedShape(u)'
        BY <1>1, <1>2, <1>3, <2>1, <2>3 DEF UnrecordedShape
    <2> QED
        BY <2>2, <2>4
<1> QED
    BY <1>5, <1>6, <1>7, <1>8 DEF Inv, TurnInv

\* Every step preserves the invariant.
LEMMA NextInv == Inv /\ [Next]_vars => Inv'
<1> SUFFICES ASSUME Inv, [Next]_vars PROVE Inv'
    OBVIOUS
<1>1. ASSUME NEW u \in Utterances, Handler(u) PROVE Inv'
    BY <1>1, ClaimInv, TranscribedInv, AckReadInv, DeleteDeliveredInv, StoreAudioInv,
       PublishRetainedInv, RestoreLinkInv, RestoreUnlinkInv, AckTimeoutInv, RetentionFailsInv
    DEF Handler
<1>2. ASSUME NEW u \in Utterances,
             \/ TranscriptionFails(u) \/ CommitFails(u) \/ RestoreQuarantines(u)
             \/ RestoreFails(u) \/ RollbackFails(u)
      PROVE  Inv'
    BY <1>2, TranscriptionFailsInv, CommitFailsInv, RestoreQuarantinesInv, RestoreFailsInv,
       RollbackFailsInv
<1>3. ASSUME NEW u \in Utterances, Dictate(u) \/ Client(u) \/ ClientTimeout(u) PROVE Inv'
    BY <1>3, DictateInv, RequestInv, ReadTranscriptInv, TryAgainInv, ReadEndInv, ReadErrorInv,
       ClientTimeoutInv DEF Client
<1>4. ASSUME NEW u \in Voice, Record(u) PROVE Inv'
    BY <1>4, RecordInv
<1>5. ASSUME NEW o \in ops, Operation(o) \/ OperationFails(o) PROVE Inv'
    BY <1>5, LoadDeliveryInv, WriteReplacementInv, WriteStateInv, RemoveReleasedInv, OperationFailsInv DEF Operation
<1>6. ASSUME Daemon PROVE Inv'
    BY <1>6, TranscriptInv, TerminalizeNonSideEffectInv, FenceSideEffectInv, ActInv, TurnEndsInv,
       ConcludeInv, CallFailsInv, NextRetainedInv, RetryRetainedRecoveryInv, NothingMoreSaidInv
    DEF Daemon, Turn
<1>7. ASSUME Recover PROVE Inv'
    BY <1>7, RecoverStrandedInv, ServerReadyInv DEF Recover
<1>8. ASSUME ServerCrash \/ DaemonCrash PROVE Inv'
    BY <1>8, ServerCrashInv, DaemonCrashInv
<1>9. ASSUME UNCHANGED vars PROVE Inv'
    <2>1. TypeOK'
        BY <1>9 DEF vars, audio, thread, ghost, Inv, TypeOK
    <2>2. UNCHANGED <<recorded, file, meta, hnd, up, client, ops, daemon, acted>>
        BY <1>9 DEF vars, audio, thread, ghost
    <2>3. CallShape' /\ \A u \in Voice : FenceShape(u)'
        BY <2>2, KeepFence
    <2>4. \A u \in Utterances : FileShape(u)' /\ UnrecordedShape(u)'
        BY <2>2, KeepFileShape DEF Inv, TurnInv, UnrecordedShape
    <2> QED
        BY <2>1, <2>3, <2>4 DEF Inv, TurnInv
<1> QED
    BY <1>1, <1>2, <1>3, <1>4, <1>5, <1>6, <1>7, <1>8, <1>9 DEF Next

\* The invariant holds in every behaviour.
LEMMA InvAlways == Spec => []Inv
<1>1. Init => Inv
    BY InitInv
<1>2. Inv /\ [Next]_vars => Inv'
    BY NextInv
<1> QED
    BY <1>1, <1>2, PTL DEF Spec

\* Every variable keeps its shape, whatever crashes between two file operations: in
\* particular a delivery that recovery reports has a state in its delivery.json.
THEOREM ShapesHold == Spec => []TypeOK
<1>1. Inv => TypeOK
    BY DEF Inv
<1> QED
    BY <1>1, InvAlways, PTL

\* The audio is in one place, threads and requests know their part, and whoever may still
\* run a turn knows that it was not acted on.
THEOREM TurnInvariant == Spec => []TurnInv
<1>1. Inv => TurnInv
    BY DEF Inv
<1> QED
    BY <1>1, InvAlways, PTL

\* fence_side_effect: no utterance's side effect is performed twice, for any number of
\* utterances, crashes of either process, lost answers and replays.
THEOREM NeverActedTwice == Spec => []ActedAtMostOnce
<1>1. Inv => ActedAtMostOnce
    BY DEF Inv, TurnInv, FenceShape, ActedAtMostOnce
<1> QED
    BY <1>1, InvAlways, PTL

\* What was acted on is not, and never becomes again, a delivery to be run: not on disk,
\* in a request under way, or in the batch the daemon works through.
THEOREM ActedNeverReplayed == Spec => []ReplayFence
<1>1. Inv => ReplayFence
    <2> SUFFICES ASSUME Inv, NEW u \in Voice, acted[u] > 0
                 PROVE  /\ meta[u] # "pending" /\ [u |-> u, state |-> "pending"] \notin daemon.batch
                        /\ \A o \in ops : o.u = u => o.op # "pending"
                        /\ daemon.u = u => daemon.pc \notin {"transcribing", "turn", "fenced"}
        BY DEF ReplayFence
    <2>1. FenceShape(u) /\ acted[u] # 0
        BY DEF Inv, TurnInv
    <2>2. Pendings(u) = {}
        BY <2>1 DEF FenceShape
    <2>3. \A o \in ops : o.u = u => o.op # "pending"
        BY <2>2 DEF Pendings
    <2> QED
        BY <2>1, <2>3 DEF FenceShape, Replayable
<1> QED
    BY <1>1, InvAlways, PTL

(***************************************************************************)
(* AudioNeverLost.  Audio that is out of the server's hands stays so, and  *)
(* nobody reports an error for it any more.                                *)
(***************************************************************************)

\* The audio is a delivery or was one, and the client's request for it has ended.
Apart(u) == /\ file[u] \subseteq {"retained", "released"}
            /\ client[u] \in {"got", "lost", "failed"}

\* In addition its user has a result, or will have no other: it may be given up.
Done(u) == fate[u] # "open" /\ Apart(u)

\* The client has the text of a dictation whose audio was committed.
Handed(u) == /\ client[u] \in {"acked", "got"} /\ ~conn[u].retain
             /\ conn[u].end # "error" /\ hnd[u] \in {"none", "committed"}

Stored == {"hidden", "retained", "released"}

\* What the server's thread, the connection and the client know of each other.  Only the
\* daemon that waits for a transcript has a request for audio that is being retained.
ClientTells(u) ==
    /\ hnd[u] \in {"claiming", "transcribing"} => ~conn[u].resp /\ ~conn[u].ack
    /\ hnd[u] \in {"storing", "moved"} => conn[u].retain
    /\ hnd[u] = "answered" /\ conn[u].ack /\ ~conn[u].retain =>
         fate[u] # "open" /\ client[u] \in {"acked", "got"} /\ conn[u].end # "error"
    /\ client[u] \in {"request", "waiting", "acked"} =>
         \/ daemon.pc = "transcribing" /\ daemon.u = u
         \/ ~conn[u].retain /\ file[u] \cap Stored = {}
    /\ daemon.pc = "transcribing" /\ daemon.u = u => conn[u].retain
    /\ u \in recorded => client[u] # "idle"

\* The daemon works on a delivery: in the turn, or at an end of it that gives the audio up;
\* Ending is the part of it after a request to call the delivery terminal or to release it.
Concludes(d) == d.pc = "concluding" /\ ~(d.failed /\ (d.amb \/ d.preserve))
InHand(d) == \/ d.pc \in {"turn", "declined", "fenced", "acted"}
             \/ d.pc = "calling" /\ d.phase \notin {"handoff", "lost"}
             \/ Concludes(d)
Ending(d) == d.pc = "calling" /\ d.phase \in {"harmless", "final", "cleanup", "reap"}

\* A turn runs on a delivery only, and gives it up only when its user has a result, or the daemon
\* has called it harmless.
DaemonTells(u) ==
    /\ daemon.u = u =>
         /\ daemon.pc = "calling" /\ daemon.phase \in {"handoff", "lost"} => client[u] \in {"got", "lost"}
         /\ InHand(daemon) => Apart(u)
         /\ Ending(daemon) => Done(u)
    /\ \A b \in daemon.batch : b.u = u => Apart(u) /\ (b.state = "terminal" => fate[u] # "open")

\* So does whoever calls it terminal or releases it.
TurnTells(u) ==
    /\ DaemonTells(u)
    /\ meta[u] = "terminal" => Done(u)
    /\ \A o \in ops : o.u = u /\ o.op \in {"terminal", "release"} => Done(u)

\* Audio that is given up has a user with a result, or a harmless turn; no error will be
\* reported for it any more.
LossTells(u) ==
    u \in recorded /\ file[u] \subseteq {"delivered", "released"} =>
        fate[u] # "open" /\ (Apart(u) \/ Handed(u))

KeptInv == /\ \A u \in Utterances : ClientTells(u) /\ LossTells(u)
           /\ \A u \in Voice : TurnTells(u)

\* Nothing was recorded, nothing can be lost.
LEMMA InitKept == Init => KeptInv
<1> SUFFICES ASSUME Init PROVE KeptInv
    OBVIOUS
<1>1. ASSUME NEW u \in Utterances PROVE ClientTells(u) /\ LossTells(u)
    BY <1>1, VoiceConstants DEF Init, ClientTells, LossTells, Idle
<1>2. ASSUME NEW u \in Voice PROVE TurnTells(u)
    BY <1>2, VoiceConstants DEF Init, TurnTells, DaemonTells, Idle
<1> QED
    BY <1>1, <1>2 DEF KeptInv

\* What the daemon knows stays true while nobody takes the result or the delivery back.
LEMMA KeepTurn ==
    ASSUME KeptInv, NEW u \in Voice, UNCHANGED <<daemon, ops>>,
           meta'[u] = "terminal" => meta[u] = "terminal",
           client[u] \in {"got", "lost"} => client'[u] \in {"got", "lost"},
           Apart(u) => Apart(u)', Done(u) => Done(u)'
    PROVE  TurnTells(u)'
<1>1. TurnTells(u)
    BY DEF KeptInv
<1>2. ASSUME NEW b \in daemon.batch, b.u = u PROVE Apart(u)' /\ (b.state = "terminal" => fate'[u] # "open")
    BY <1>1, <1>2 DEF TurnTells, DaemonTells, Done
<1> QED
    BY <1>1, <1>2 DEF TurnTells, DaemonTells

\* A step on one utterance leaves what is known of the others.
LEMMA KeptElsewhere ==
    ASSUME KeptInv, NEW v \in Utterances, UNCHANGED <<daemon, ops>>,
           v \in recorded' => v \in recorded,
           file'[v] = file[v], hnd'[v] = hnd[v], meta'[v] = meta[v], client'[v] = client[v],
           conn'[v] = conn[v], fate'[v] = fate[v]
    PROVE  ClientTells(v)' /\ LossTells(v)' /\ (v \in Voice => TurnTells(v)')
<1>1. ClientTells(v) /\ LossTells(v)
    BY DEF KeptInv
<1>2. (Apart(v)' <=> Apart(v)) /\ (Handed(v)' <=> Handed(v)) /\ (Done(v)' <=> Done(v))
    BY DEF Apart, Handed, Done
<1>3. ClientTells(v)'
    BY <1>1 DEF ClientTells
<1>4. LossTells(v)'
    BY <1>1, <1>2 DEF LossTells
<1>5. ASSUME v \in Voice PROVE TurnTells(v)'
    BY <1>2, <1>5, KeepTurn
<1> QED
    BY <1>3, <1>4, <1>5

\* A step of a server thread or of a client keeps the invariant if it does so for its own
\* utterance.
LEMMA KeptByOwner ==
    ASSUME KeptInv, NEW u \in Utterances, UNCHANGED <<daemon, ops>>,
           recorded' \subseteq recorded \cup {u},
           \A v \in Utterances \ {u} :
              /\ file'[v] = file[v] /\ hnd'[v] = hnd[v] /\ meta'[v] = meta[v]
              /\ client'[v] = client[v] /\ conn'[v] = conn[v] /\ fate'[v] = fate[v],
           meta'[u] = "terminal" => meta[u] = "terminal",
           client[u] \in {"got", "lost"} => client'[u] \in {"got", "lost"},
           Apart(u) => Apart(u)', Done(u) => Done(u)',
           ClientTells(u)', LossTells(u)'
    PROVE  KeptInv'
<1>1. ASSUME NEW v \in Utterances PROVE ClientTells(v)' /\ LossTells(v)' /\ (v \in Voice => TurnTells(v)')
    <2>1. CASE v # u
        BY <2>1, KeptElsewhere
    <2>2. CASE v = u
        BY <2>2, KeepTurn
    <2> QED
        BY <2>1, <2>2
<1> QED
    BY <1>1 DEF KeptInv

\* What becomes of a thread's utterance when the thread ends.
LEMMA CloseFacts ==
    ASSUME Inv, NEW u \in Utterances, NEW e, Close(u, e)
    PROVE  /\ hnd'[u] = "none" /\ conn'[u].retain = conn[u].retain /\ conn'[u].ack = conn[u].ack
           /\ conn'[u].end = e \/ (conn'[u] = conn[u] /\ conn[u].end = "gone")
           /\ \A v \in Utterances \ {u} : hnd'[v] = hnd[v] /\ conn'[v] = conn[v]
<1>1. hnd \in [Utterances -> HandlerPcs] /\ conn \in [Utterances -> Conns] /\ conn[u] \in Conns
    BY DEF Inv, TypeOK
<1>2. hnd'[u] = "none" /\ \A v \in Utterances \ {u} : hnd'[v] = hnd[v]
    BY <1>1 DEF Close, HandlerTo
<1>3. CASE conn[u].end = "gone"
    BY <1>2, <1>3 DEF Close, EndAs
<1>4. CASE conn[u].end # "gone"
    <2>1. conn' = [conn EXCEPT ![u].end = e]
        BY <1>4 DEF Close, EndAs
    <2>2. conn'[u] = [conn[u] EXCEPT !.end = e] /\ \A v \in Utterances \ {u} : conn'[v] = conn[v]
        BY <1>1, <2>1
    <2>3. conn'[u].end = e /\ conn'[u].retain = conn[u].retain /\ conn'[u].ack = conn[u].ack
        BY <1>1, <2>2 DEF Conns
    <2> QED
        BY <1>2, <2>2, <2>3
<1> QED
    BY <1>3, <1>4

\* A step of the server's thread: it never takes a delivery back, and gives audio up only
\* when a dictation was acknowledged.
LEMMA HandlerKept ==
    ASSUME Inv, KeptInv, NEW u \in Utterances, UNCHANGED <<daemon, ops, recorded, client, fate>>,
           \A v \in Utterances \ {u} :
              /\ file'[v] = file[v] /\ hnd'[v] = hnd[v] /\ meta'[v] = meta[v] /\ conn'[v] = conn[v],
           hnd[u] # "none", meta'[u] = "terminal" => meta[u] = "terminal",
           conn'[u].retain = conn[u].retain, conn'[u].ack = conn[u].ack,
           hnd'[u] \in {"claiming", "transcribing"} =>
              conn'[u] = conn[u] /\ hnd[u] \in {"claiming", "transcribing"},
           hnd'[u] \in {"storing", "moved"} => conn[u].retain,
           hnd'[u] = "answered" => hnd[u] = "transcribing",
           hnd'[u] = "committed" => conn'[u] = conn[u],
           hnd[u] = "committed" => hnd'[u] = "none" /\ conn'[u].end \in {conn[u].end, "closed"},
           file'[u] \cap Stored # {} => file[u] \cap Stored # {} \/ conn[u].retain,
           file[u] \subseteq {"retained", "released"} => file'[u] \subseteq {"retained", "released"},
           file'[u] \subseteq {"delivered", "released"} =>
              \/ file[u] \subseteq {"delivered", "released"}
              \/ hnd[u] = "answered" /\ conn[u].ack /\ ~conn[u].retain /\ hnd'[u] = "committed"
    PROVE  KeptInv'
<1>1. ClientTells(u) /\ LossTells(u)
    BY DEF KeptInv
<1>2. (Apart(u) => Apart(u)') /\ (Done(u) => Done(u)')
    BY DEF Apart, Done
<1>3. ClientTells(u)'
    BY <1>1 DEF ClientTells
<1>4. LossTells(u)'
    <2> SUFFICES ASSUME u \in recorded, file'[u] \subseteq {"delivered", "released"}
                 PROVE  fate[u] # "open" /\ (Apart(u)' \/ Handed(u)')
        BY DEF LossTells
    <2>1. CASE file[u] \subseteq {"delivered", "released"}
        BY <1>1, <1>2, <2>1 DEF LossTells, Handed
    <2>2. CASE hnd[u] = "answered" /\ conn[u].ack /\ ~conn[u].retain /\ hnd'[u] = "committed"
        BY <1>1, <2>2 DEF ClientTells, Handed
    <2> QED
        BY <2>1, <2>2
<1>5. \A v \in Utterances \ {u} :
        /\ file'[v] = file[v] /\ hnd'[v] = hnd[v] /\ meta'[v] = meta[v]
        /\ client'[v] = client[v] /\ conn'[v] = conn[v] /\ fate'[v] = fate[v]
    OBVIOUS
<1>6. client[u] \in {"got", "lost"} => client'[u] \in {"got", "lost"}
    OBVIOUS
<1> QED
    BY <1>2, <1>3, <1>4, <1>5, <1>6, KeptByOwner

\* Nothing is lost by the claim of a recording.
LEMMA ClaimKept ==
    ASSUME Inv, KeptInv, NEW u \in Utterances, Claim(u)
    PROVE  KeptInv'
<1>1. UNCHANGED <<daemon, ops, recorded, client, fate, meta>> /\ hnd[u] = "claiming"
    BY DEF Claim, NotServer, ghost
<1>2. file \in [Utterances -> SUBSET Places] /\ hnd \in [Utterances -> HandlerPcs]
    BY DEF Inv, TypeOK
<1>3. CASE slot = None /\ "generation" \in file[u]
    <2>1. file'[u] = (file[u] \ {"generation"}) \cup {"processing"} /\ hnd'[u] = "transcribing" /\ conn' = conn
          /\ \A v \in Utterances \ {u} : file'[v] = file[v] /\ hnd'[v] = hnd[v]
        BY <1>2, <1>3 DEF Claim, Move, HandlerTo
    <2> QED
        BY <1>1, <1>3, <2>1, HandlerKept DEF Stored
<1>4. CASE ~(slot = None /\ "generation" \in file[u])
    <2>1. file' = file /\ (Close(u, "busy") \/ Close(u, "error"))
        BY <1>4 DEF Claim
    <2>2. /\ hnd'[u] = "none" /\ conn'[u].retain = conn[u].retain /\ conn'[u].ack = conn[u].ack
          /\ \A v \in Utterances \ {u} : hnd'[v] = hnd[v] /\ conn'[v] = conn[v]
        BY <2>1, CloseFacts
    <2> QED
        BY <1>1, <2>1, <2>2, HandlerKept
<1> QED
    BY <1>3, <1>4

\* Nothing is lost by the transcript that is sent.
LEMMA TranscribedKept ==
    ASSUME Inv, KeptInv, NEW u \in Utterances, Transcribed(u)
    PROVE  KeptInv'
<1>1. UNCHANGED <<daemon, ops, recorded, client, fate, meta, file>> /\ hnd[u] = "transcribing"
    BY DEF Transcribed, NotServer, ghost, audio
<1>2. hnd \in [Utterances -> HandlerPcs] /\ conn \in [Utterances -> Conns] /\ conn[u] \in Conns
    BY DEF Inv, TypeOK
<1>3. /\ hnd'[u] \in {"restoring", "answered"}
      /\ conn'[u].retain = conn[u].retain /\ conn'[u].ack = conn[u].ack
      /\ \A v \in Utterances \ {u} : hnd'[v] = hnd[v] /\ conn'[v] = conn[v]
    BY <1>2 DEF Transcribed, HandlerTo, Conns
<1> QED
    BY <1>1, <1>3, HandlerKept

\* Nothing is lost by a transcription, a commit or an acknowledgement that fails.
LEMMA GivesUpKept ==
    ASSUME Inv, KeptInv, NEW u \in Utterances,
           TranscriptionFails(u) \/ CommitFails(u) \/ AckTimeout(u)
    PROVE  KeptInv'
<1>1. UNCHANGED <<daemon, ops, recorded, client, fate, meta, file, conn>>
      /\ hnd[u] \in {"transcribing", "answered"} /\ HandlerTo(u, "restoring")
    BY DEF TranscriptionFails, CommitFails, AckTimeout, NotServer, ghost, audio
<1>2. hnd'[u] = "restoring" /\ \A v \in Utterances \ {u} : hnd'[v] = hnd[v]
    BY <1>1 DEF HandlerTo, Inv, TypeOK
<1> QED
    BY <1>1, <1>2, HandlerKept

\* Only an acknowledged dictation is committed.
LEMMA AckReadKept ==
    ASSUME Inv, KeptInv, NEW u \in Utterances, AckRead(u)
    PROVE  KeptInv'
<1>1. UNCHANGED <<daemon, ops, recorded, client, fate, meta, conn>>
      /\ hnd[u] = "answered" /\ conn[u].ack
    BY DEF AckRead, NotServer, ghost
<1>2. file \in [Utterances -> SUBSET Places] /\ hnd \in [Utterances -> HandlerPcs]
    BY DEF Inv, TypeOK
<1>3. CASE conn[u].retain
    <2>1. file' = file /\ hnd'[u] = "storing" /\ \A v \in Utterances \ {u} : hnd'[v] = hnd[v]
        BY <1>2, <1>3 DEF AckRead, HandlerTo
    <2> QED
        BY <1>1, <1>3, <2>1, HandlerKept
<1>4. CASE ~conn[u].retain
    <2>1. file[u] = {"processing"}
        BY <1>1 DEF Inv, TurnInv, FileShape
    <2>2. /\ file'[u] = {"delivered"} /\ hnd'[u] = "committed"
          /\ \A v \in Utterances \ {u} : file'[v] = file[v] /\ hnd'[v] = hnd[v]
        BY <1>2, <1>4, <2>1 DEF AckRead, HandlerTo, Move
    <2> QED
        BY <1>1, <1>4, <2>1, <2>2, HandlerKept DEF Stored
<1> QED
    BY <1>3, <1>4

\* Deleting what was delivered loses nothing the client does not have.
LEMMA DeleteDeliveredKept ==
    ASSUME Inv, KeptInv, NEW u \in Utterances, DeleteDelivered(u)
    PROVE  KeptInv'
<1>1. UNCHANGED <<daemon, ops, recorded, client, fate, meta>> /\ hnd[u] = "committed"
    BY DEF DeleteDelivered, NotServer, ghost
<1>2. /\ hnd'[u] = "none" /\ conn'[u].retain = conn[u].retain /\ conn'[u].ack = conn[u].ack
      /\ conn'[u].end \in {conn[u].end, "closed"}
      /\ \A v \in Utterances \ {u} : hnd'[v] = hnd[v] /\ conn'[v] = conn[v]
    BY CloseFacts DEF DeleteDelivered
<1>3. file[u] = {"delivered"}
    BY <1>1 DEF Inv, TurnInv, FileShape
<1>4. file'[u] = {} /\ \A v \in Utterances \ {u} : file'[v] = file[v]
    BY <1>3 DEF DeleteDelivered, Inv, TypeOK
<1> QED
    BY <1>1, <1>2, <1>3, <1>4, HandlerKept

\* Retained audio is moved, not lost.
LEMMA StoreAudioKept ==
    ASSUME Inv, KeptInv, NEW u \in Utterances, StoreAudio(u)
    PROVE  KeptInv'
<1>1. UNCHANGED <<daemon, ops, recorded, client, fate, conn>> /\ hnd[u] = "storing"
    BY DEF StoreAudio, NotServer, ghost
<1>2. file[u] = {"processing"} /\ conn[u].retain
    BY <1>1 DEF Inv, TurnInv, FileShape, KeptInv, ClientTells
<1>3. /\ file'[u] = {"hidden"} /\ hnd'[u] = "moved" /\ meta'[u] = "ambiguous"
      /\ \A v \in Utterances \ {u} : file'[v] = file[v] /\ hnd'[v] = hnd[v] /\ meta'[v] = meta[v]
    BY <1>2 DEF StoreAudio, Move, HandlerTo, Inv, TypeOK
<1> QED
    BY <1>1, <1>2, <1>3, HandlerKept

\* Publishing a delivery loses nothing.
LEMMA PublishRetainedKept ==
    ASSUME Inv, KeptInv, NEW u \in Utterances, PublishRetained(u)
    PROVE  KeptInv'
<1>1. UNCHANGED <<daemon, ops, recorded, client, fate, meta>> /\ hnd[u] = "moved"
    BY DEF PublishRetained, NotServer, ghost
<1>2. /\ hnd'[u] = "none" /\ conn'[u].retain = conn[u].retain /\ conn'[u].ack = conn[u].ack
      /\ \A v \in Utterances \ {u} : hnd'[v] = hnd[v] /\ conn'[v] = conn[v]
    BY CloseFacts DEF PublishRetained
<1>3. CASE "hidden" \in file[u]
    <2>1. file'[u] = (file[u] \ {"hidden"}) \cup {"retained"}
          /\ \A v \in Utterances \ {u} : file'[v] = file[v]
        BY <1>3 DEF PublishRetained, Move, Inv, TypeOK
    <2> QED
        BY <1>1, <1>2, <1>3, <2>1, HandlerKept DEF Stored
<1>4. CASE "hidden" \notin file[u]
    BY <1>1, <1>2, <1>4, HandlerKept DEF PublishRetained
<1> QED
    BY <1>3, <1>4

\* Audio that could not be retained is moved back.
LEMMA RetentionFailsKept ==
    ASSUME Inv, KeptInv, NEW u \in Utterances, RetentionFails(u)
    PROVE  KeptInv'
<1>1. UNCHANGED <<daemon, ops, recorded, client, fate, conn>>
      /\ hnd[u] \in {"storing", "moved"} /\ HandlerTo(u, "restoring")
    BY DEF RetentionFails, NotServer, ghost
<1>2. hnd'[u] = "restoring" /\ \A v \in Utterances \ {u} : hnd'[v] = hnd[v]
    BY <1>1 DEF HandlerTo, Inv, TypeOK
<1>3. CASE file' = file /\ meta' = meta
    BY <1>1, <1>2, <1>3, HandlerKept
<1>4. CASE "hidden" \in file[u] /\ Move(u, "hidden", "processing") /\ meta' = [meta EXCEPT ![u] = "none"]
    <2>1. /\ file'[u] = (file[u] \ {"hidden"}) \cup {"processing"} /\ meta'[u] = "none"
          /\ \A v \in Utterances \ {u} : file'[v] = file[v] /\ meta'[v] = meta[v]
        BY <1>4 DEF Move, Inv, TypeOK
    <2> QED
        BY <1>1, <1>2, <1>4, <2>1, HandlerKept DEF Stored
<1> QED
    BY <1>3, <1>4 DEF RetentionFails

\* A thread that gives up without touching the audio loses nothing.
LEMMA LeavesKept ==
    ASSUME Inv, KeptInv, NEW u \in Utterances, RollbackFails(u) \/ RestoreFails(u)
    PROVE  KeptInv'
<1>1. UNCHANGED <<daemon, ops, recorded, client, fate, meta, file>>
      /\ hnd[u] \in {"moved", "restoring"} /\ (Close(u, "error") \/ Close(u, Outcome(u)))
    BY DEF RollbackFails, RestoreFails, NotServer, ghost, audio
<1>2. /\ hnd'[u] = "none" /\ conn'[u].retain = conn[u].retain /\ conn'[u].ack = conn[u].ack
      /\ \A v \in Utterances \ {u} : hnd'[v] = hnd[v] /\ conn'[v] = conn[v]
    BY <1>1, CloseFacts
<1> QED
    BY <1>1, <1>2, HandlerKept

\* The link of a restore adds a place.
LEMMA RestoreLinkKept ==
    ASSUME Inv, KeptInv, NEW u \in Utterances, RestoreLink(u)
    PROVE  KeptInv'
<1>1. UNCHANGED <<daemon, ops, recorded, client, fate, meta, conn>> /\ hnd[u] = "restoring"
    BY DEF RestoreLink, NotServer, ghost
<1>2. file[u] = {"processing"}
    BY <1>1 DEF Inv, TurnInv, FileShape
<1>3. /\ file'[u] = {"generation", "processing"} /\ hnd'[u] = "linked"
      /\ \A v \in Utterances \ {u} : file'[v] = file[v] /\ hnd'[v] = hnd[v]
    BY <1>2 DEF RestoreLink, Link, HandlerTo, Inv, TypeOK
<1> QED
    BY <1>1, <1>2, <1>3, HandlerKept DEF Stored

\* The unlink of a restore, and a quarantine, leave one place.
LEMMA RestoredKept ==
    ASSUME Inv, KeptInv, NEW u \in Utterances, RestoreUnlink(u) \/ RestoreQuarantines(u)
    PROVE  KeptInv'
<1>1. UNCHANGED <<daemon, ops, recorded, client, fate, meta>>
      /\ hnd[u] \in {"linked", "restoring"} /\ Close(u, Outcome(u))
    BY DEF RestoreUnlink, RestoreQuarantines, NotServer, ghost
<1>2. /\ hnd'[u] = "none" /\ conn'[u].retain = conn[u].retain /\ conn'[u].ack = conn[u].ack
      /\ \A v \in Utterances \ {u} : hnd'[v] = hnd[v] /\ conn'[v] = conn[v]
    BY <1>1, CloseFacts
<1>3. /\ hnd[u] = "linked" => file[u] = {"generation", "processing"}
      /\ hnd[u] = "restoring" => file[u] = {"processing"}
    BY DEF Inv, TurnInv, FileShape
<1>4. /\ file[u] \cap (Stored \cup {"delivered"}) = {} /\ file'[u] \in {{"generation"}, {"quarantine"}}
      /\ \A v \in Utterances \ {u} : file'[v] = file[v]
    BY <1>3 DEF RestoreUnlink, RestoreQuarantines, Unlink, Move, Stored, Inv, TypeOK
<1>5. file[u] # {} /\ ~(file[u] \subseteq {"retained", "released"}) /\ file'[u] \cap Stored = {}
      /\ ~(file'[u] \subseteq {"delivered", "released"})
    BY <1>1, <1>3, <1>4 DEF Stored
<1> QED
    BY <1>1, <1>2, <1>4, <1>5, HandlerKept

\* A starting server puts stranded audio back, and deletes only what was delivered.
LEMMA RecoverStrandedKept ==
    ASSUME Inv, KeptInv, NEW u \in Utterances, RecoverStranded(u)
    PROVE  KeptInv'
<1>1. UNCHANGED <<daemon, ops, recorded, client, fate, meta, hnd, conn>> /\ ~up
    BY DEF RecoverStranded, NotServer, thread, ghost
<1>2. ClientTells(u) /\ LossTells(u) /\ FileShape(u)
    BY DEF KeptInv, Inv, TurnInv
<1>3. hnd[u] = "none"
    BY <1>1, <1>2 DEF FileShape
<1>4. \/ /\ file'[u] = file[u] \cup {"generation"} /\ "processing" \in file[u]
      \/ /\ file'[u] = file[u] \ {"processing"} /\ "processing" \in file[u] /\ "generation" \in file[u]
      \/ /\ file'[u] = {} /\ file[u] = {"delivered"}
    <2>1. "delivered" \in file[u] => file[u] = {"delivered"}
        BY OnePlace
    <2> QED
        BY <2>1 DEF RecoverStranded, Link, Unlink, Inv, TypeOK
<1>5. \A v \in Utterances \ {u} : file'[v] = file[v]
    BY DEF RecoverStranded, Link, Unlink, Inv, TypeOK
<1>6. ~Apart(u)
    BY <1>4 DEF Apart
<1>7. file'[u] \cap Stored \subseteq file[u] \cap Stored
    BY <1>4 DEF Stored
<1>8. ClientTells(u)'
    BY <1>1, <1>2, <1>3, <1>7 DEF ClientTells
<1>9. LossTells(u)'
    <2>1. file'[u] \subseteq {"delivered", "released"} => file[u] = {"delivered"}
        BY <1>4
    <2> QED
        BY <1>1, <1>2, <1>6, <2>1 DEF LossTells, Handed
<1> QED
    BY <1>1, <1>5, <1>6, <1>8, <1>9, KeptByOwner DEF Done

\* A crash of the server ends threads and connections, and touches no audio.
LEMMA ServerCrashKept ==
    ASSUME Inv, KeptInv, ServerCrash
    PROVE  KeptInv'
<1>1. UNCHANGED <<daemon, recorded, client, fate, meta, file>> /\ ops' = {}
    BY DEF ServerCrash, audio, ghost
<1>2. ASSUME NEW u \in Utterances
      PROVE  /\ hnd'[u] = "none" /\ conn'[u].retain = conn[u].retain
             /\ conn'[u].end = "error" => conn[u].end = "error"
    <2>1. conn[u] \in Conns
        BY DEF Inv, TypeOK
    <2>2. hnd'[u] = "none" /\ conn'[u] = IF conn[u].end = "open" THEN [conn[u] EXCEPT !.end = "closed"]
                                         ELSE conn[u]
        BY DEF ServerCrash
    <2> QED
        BY <2>1, <2>2 DEF Conns
<1>3. ASSUME NEW u \in Utterances PROVE ClientTells(u)' /\ LossTells(u)'
    <2>1. ClientTells(u) /\ LossTells(u)
        BY DEF KeptInv
    <2>2. (Apart(u)' <=> Apart(u)) /\ (Handed(u) => Handed(u)')
        BY <1>1, <1>2 DEF Apart, Handed
    <2>3. ClientTells(u)'
        BY <1>1, <1>2, <2>1 DEF ClientTells
    <2> QED
        BY <1>1, <2>1, <2>2, <2>3 DEF LossTells
<1>4. ASSUME NEW u \in Voice PROVE TurnTells(u)'
    <2>1. TurnTells(u)
        BY DEF KeptInv
    <2>2. (Apart(u)' <=> Apart(u)) /\ (Done(u)' <=> Done(u))
        BY <1>1 DEF Apart, Done
    <2> QED
        BY <1>1, <2>1, <2>2 DEF TurnTells, DaemonTells
<1> QED
    BY <1>3, <1>4 DEF KeptInv

\* What a step of the client must leave true; the audio does not move.
LEMMA ClientKept ==
    ASSUME Inv, KeptInv, NEW u \in Utterances, UNCHANGED <<daemon, ops, recorded, file, meta>>,
           \A v \in Utterances \ {u} : /\ hnd'[v] = hnd[v] /\ client'[v] = client[v]
                                       /\ conn'[v] = conn[v] /\ fate'[v] = fate[v],
           client[u] \notin {"got", "lost", "failed"},
           ClientTells(u)', LossTells(u)'
    PROVE  KeptInv'
<1>1. ~Apart(u) /\ ~Done(u)
    BY DEF Apart, Done
<1> QED
    BY <1>1, KeptByOwner

\* A request of the client: the server's thread starts with a new connection.
LEMMA RequestKept ==
    ASSUME Inv, KeptInv, NEW u \in Utterances, Request(u)
    PROVE  KeptInv'
<1>1. UNCHANGED <<daemon, ops, recorded, file, meta, fate>> /\ client[u] = "request"
    BY DEF Request, NotClient, audio, ghost
<1>2. ClientTells(u) /\ LossTells(u)
    BY DEF KeptInv
<1>3. ~(u \in recorded /\ file[u] \subseteq {"delivered", "released"})
    BY <1>1, <1>2 DEF LossTells, Apart, Handed
<1>4. client \in [Utterances -> ClientPcs] /\ hnd \in [Utterances -> HandlerPcs] /\ conn \in [Utterances -> Conns]
    BY DEF Inv, TypeOK
<1>5. \A v \in Utterances \ {u} : hnd'[v] = hnd[v] /\ client'[v] = client[v] /\ conn'[v] = conn[v]
    BY <1>4 DEF Request, ClientTo, HandlerTo
<1>6. \/ /\ client'[u] = "waiting" /\ hnd'[u] = "claiming"
         /\ ~conn'[u].resp /\ ~conn'[u].ack /\ conn'[u].retain = conn[u].retain
      \/ client'[u] = "failed" /\ hnd'[u] = hnd[u] /\ conn'[u] = conn[u]
    BY <1>4 DEF Request, ClientTo, HandlerTo, Connection
<1>7. ClientTells(u)'
    BY <1>1, <1>2, <1>6 DEF ClientTells
<1>8. LossTells(u)'
    BY <1>1, <1>3 DEF LossTells
<1> QED
    BY <1>1, <1>5, <1>7, <1>8, ClientKept

\* The client acknowledges a transcript it has.
LEMMA ReadTranscriptKept ==
    ASSUME Inv, KeptInv, NEW u \in Utterances, ReadTranscript(u)
    PROVE  KeptInv'
<1>1. UNCHANGED <<daemon, ops, recorded, file, meta, hnd>> /\ client[u] = "waiting"
      /\ conn[u].end = "open" /\ conn[u].resp
      /\ fate' = IF conn[u].retain THEN fate ELSE [fate EXCEPT ![u] = "settled"]
    BY DEF ReadTranscript, NotClient, audio
<1>2. ClientTells(u) /\ LossTells(u)
    BY DEF KeptInv
<1>3. ~(u \in recorded /\ file[u] \subseteq {"delivered", "released"})
    BY <1>1, <1>2 DEF LossTells, Apart, Handed
<1>4. client \in [Utterances -> ClientPcs] /\ conn \in [Utterances -> Conns] /\ conn[u] \in Conns
    BY DEF Inv, TypeOK
<1>5. /\ client'[u] = "acked" /\ conn'[u] = [conn[u] EXCEPT !.ack = TRUE]
      /\ \A v \in Utterances \ {u} : client'[v] = client[v] /\ conn'[v] = conn[v]
    BY <1>4 DEF ReadTranscript, ClientTo
<1>6. conn'[u].retain = conn[u].retain /\ conn'[u].resp = conn[u].resp /\ conn'[u].end = conn[u].end
    BY <1>4, <1>5 DEF Conns
<1>9. ~conn[u].retain => fate'[u] # "open"
    BY <1>1 DEF Inv, TypeOK
<1>7. ClientTells(u)'
    BY <1>1, <1>2, <1>5, <1>6, <1>9 DEF ClientTells
<1>8. LossTells(u)'
    BY <1>1, <1>3 DEF LossTells
<1> QED
    BY <1>1, <1>5, <1>7, <1>8, ClientKept

\* The client asks again.
LEMMA TryAgainKept ==
    ASSUME Inv, KeptInv, NEW u \in Utterances, TryAgain(u)
    PROVE  KeptInv'
<1>1. UNCHANGED <<daemon, ops, recorded, file, meta, hnd, fate>> /\ client[u] = "waiting"
    BY DEF TryAgain, NotClient, audio, ghost
<1>2. ClientTells(u) /\ LossTells(u)
    BY DEF KeptInv
<1>3. ~(u \in recorded /\ file[u] \subseteq {"delivered", "released"})
    BY <1>1, <1>2 DEF LossTells, Apart, Handed
<1>4. client \in [Utterances -> ClientPcs] /\ conn \in [Utterances -> Conns] /\ conn[u] \in Conns
    BY DEF Inv, TypeOK
<1>5. /\ client'[u] = "request" /\ conn'[u] \in {conn[u], [conn[u] EXCEPT !.legacy = TRUE]}
      /\ \A v \in Utterances \ {u} : client'[v] = client[v] /\ conn'[v] = conn[v]
    BY <1>4 DEF TryAgain, ClientTo
<1>6. /\ conn'[u].retain = conn[u].retain /\ conn'[u].resp = conn[u].resp /\ conn'[u].ack = conn[u].ack
      /\ conn'[u].end = conn[u].end
    BY <1>4, <1>5 DEF Conns
<1>7. ClientTells(u)'
    BY <1>1, <1>2, <1>5, <1>6 DEF ClientTells
<1>8. LossTells(u)'
    BY <1>1, <1>3 DEF LossTells
<1> QED
    BY <1>1, <1>5, <1>7, <1>8, ClientKept

\* A transcript that came is good.
LEMMA ReadEndKept ==
    ASSUME Inv, KeptInv, NEW u \in Utterances, ReadEnd(u)
    PROVE  KeptInv'
<1>1. UNCHANGED <<daemon, ops, recorded, file, meta, hnd, conn>> /\ client[u] \in {"acked", "waiting"}
      /\ fate' = IF conn[u].retain THEN fate ELSE [fate EXCEPT ![u] = "settled"]
    BY DEF ReadEnd, NotClient, audio
<1>2. ClientTells(u) /\ LossTells(u)
    BY DEF KeptInv
<1>3. /\ client'[u] = "got" /\ \A v \in Utterances \ {u} : client'[v] = client[v]
    BY DEF ReadEnd, ClientTo, Inv, TypeOK
<1>4. ClientTells(u)'
    BY <1>1, <1>2, <1>3 DEF ClientTells
<1>5. LossTells(u)'
    BY <1>1, <1>2, <1>3 DEF LossTells, Apart, Handed
<1> QED
    BY <1>1, <1>3, <1>4, <1>5, ClientKept

\* An error is read only for audio that was put back or kept.
LEMMA ReadErrorKept ==
    ASSUME Inv, KeptInv, NEW u \in Utterances, ReadError(u)
    PROVE  KeptInv'
<1>1. UNCHANGED <<daemon, ops, recorded, file, meta, hnd, conn>> /\ fate' = [fate EXCEPT ![u] = "open"]
      /\ ((client[u] = "acked" /\ conn[u].end = "error") \/ client[u] = "waiting")
    BY DEF ReadError, NotClient, audio
<1>2. ClientTells(u) /\ LossTells(u)
    BY DEF KeptInv
<1>3. /\ client'[u] = "failed" /\ \A v \in Utterances \ {u} : client'[v] = client[v]
    BY DEF ReadError, ClientTo, Inv, TypeOK
<1>4. ClientTells(u)'
    BY <1>1, <1>2, <1>3 DEF ClientTells
<1>5. LossTells(u)'
    BY <1>1, <1>2 DEF LossTells, Apart, Handed
<1> QED
    BY <1>1, <1>3, <1>4, <1>5, ClientKept

\* A client that gives up leaves the audio to the server.
LEMMA ClientTimeoutKept ==
    ASSUME Inv, KeptInv, NEW u \in Utterances, ClientTimeout(u)
    PROVE  KeptInv'
<1>1. UNCHANGED <<daemon, ops, recorded, file, meta, hnd, fate>>
      /\ client[u] \in {"request", "waiting", "acked"}
    BY DEF ClientTimeout, NotClient, audio, ghost
<1>2. ClientTells(u) /\ LossTells(u)
    BY DEF KeptInv
<1>3. client \in [Utterances -> ClientPcs] /\ conn \in [Utterances -> Conns] /\ conn[u] \in Conns
    BY DEF Inv, TypeOK
<1>4. /\ conn'[u] = [conn[u] EXCEPT !.end = "gone"]
      /\ client'[u] = IF client[u] # "acked" THEN "failed" ELSE IF conn[u].retain THEN "lost" ELSE "got"
      /\ \A v \in Utterances \ {u} : client'[v] = client[v] /\ conn'[v] = conn[v]
    BY <1>3 DEF ClientTimeout, ClientTo
<1>5. /\ conn'[u].retain = conn[u].retain /\ conn'[u].resp = conn[u].resp /\ conn'[u].ack = conn[u].ack
      /\ conn'[u].end = "gone"
    BY <1>3, <1>4 DEF Conns
<1>6. ClientTells(u)'
    BY <1>1, <1>2, <1>4, <1>5 DEF ClientTells
<1>7. LossTells(u)'
    BY <1>1, <1>2, <1>4, <1>5 DEF LossTells, Apart, Handed
<1> QED
    BY <1>1, <1>4, <1>6, <1>7, ClientKept

\* A dictation, or a retry, has its recording.
LEMMA DictateKept ==
    ASSUME Inv, KeptInv, NEW u \in Utterances, Dictate(u)
    PROVE  KeptInv'
<1>1. UNCHANGED <<daemon, ops, meta, hnd, fate>> /\ recorded' \subseteq recorded \cup {u}
    BY DEF Dictate, ghost
<1>2. ClientTells(u) /\ LossTells(u) /\ FileShape(u) /\ UnrecordedShape(u)
    BY DEF KeptInv, Inv, TurnInv
<1>3. client \in [Utterances -> ClientPcs] /\ conn \in [Utterances -> Conns]
      /\ file \in [Utterances -> SUBSET Places]
    BY DEF Inv, TypeOK
<1>4. /\ "generation" \in file'[u] /\ file'[u] \cap Stored = {} /\ hnd[u] = "none" /\ daemon.u # u
      /\ client[u] \in {"idle", "failed"} /\ (client[u] = "failed" => "generation" \in file[u])
      /\ \A v \in Utterances \ {u} : file'[v] = file[v]
    <2>1. CASE u \notin recorded /\ file' = [file EXCEPT ![u] = {"generation"}]
        BY <1>2, <1>3, <2>1 DEF UnrecordedShape, Stored
    <2>2. CASE /\ client[u] = "failed" /\ daemon.u # u /\ hnd[u] = "none" /\ "generation" \in file[u]
               /\ UNCHANGED <<recorded, file>>
        <3>1. ASSUME NEW a \in file[u] PROVE a \notin Stored
            <4>1. a = "generation" \/ {a, "generation"} = {"generation", "processing"}
                BY <1>2, <2>2, <3>1 DEF FileShape
            <4> QED
                BY <4>1 DEF Stored
        <3> QED
            BY <2>2, <3>1
    <2> QED
        BY <2>1, <2>2 DEF Dictate
<1>5. /\ client'[u] = "request" /\ ~conn'[u].retain
      /\ \A v \in Utterances \ {u} : client'[v] = client[v] /\ conn'[v] = conn[v]
    BY <1>3 DEF Dictate, ClientTo, Connection
<1>6. ~Apart(u) /\ ~Done(u)
    BY <1>4 DEF Apart, Done
<1>7. ClientTells(u)'
    BY <1>1, <1>4, <1>5 DEF ClientTells
<1>8. LossTells(u)'
    BY <1>4 DEF LossTells
<1> QED
    BY <1>1, <1>4, <1>5, <1>6, <1>7, <1>8, KeptByOwner

\* A step of the daemon or of a delivery request: it takes no result back, and audio
\* that it gives up, calls terminal or releases has one.
LEMMA TurnStep ==
    ASSUME Inv, KeptInv, UNCHANGED <<recorded, hnd, conn, client>>,
           (\A v \in Utterances : fate[v] # "open" => fate'[v] # "open"),
           \A u \in Utterances :
              /\ file'[u] \cap Stored # {} => file[u] \cap Stored # {}
              /\ file[u] \subseteq {"retained", "released"} => file'[u] \subseteq {"retained", "released"}
              /\ file'[u] \subseteq {"delivered", "released"} =>
                   file[u] \subseteq {"delivered", "released"} \/ Done(u),
           daemon'.pc = "transcribing" => daemon' = daemon,
           daemon.pc = "transcribing" =>
              daemon' = daemon \/ client[daemon.u] \notin {"request", "waiting", "acked"},
           \A u \in Voice : meta'[u] = "terminal" => meta[u] = "terminal" \/ Done(u),
           \A o \in ops' : o.op \in {"terminal", "release"} =>
              \/ \E p \in ops : p.u = o.u /\ p.op = o.op
              \/ Done(o.u)',
           \A u \in Voice : DaemonTells(u)'
    PROVE  KeptInv'
<1>1. ASSUME NEW u \in Utterances PROVE (Apart(u) => Apart(u)') /\ (Done(u) => Done(u)')
    BY DEF Apart, Done
<1>2. ASSUME NEW u \in Utterances PROVE ClientTells(u)'
    <2>1. ClientTells(u)
        BY DEF KeptInv
    <2> QED
        BY <2>1 DEF ClientTells
<1>3. ASSUME NEW u \in Utterances PROVE LossTells(u)'
    <2>1. LossTells(u)
        BY DEF KeptInv
    <2>2. Handed(u) => Handed(u)'
        BY DEF Handed
    <2> QED
        BY <1>1, <2>1, <2>2 DEF LossTells, Done
<1>4. ASSUME NEW u \in Voice PROVE TurnTells(u)'
    <2>1. TurnTells(u)
        BY DEF KeptInv
    <2>2. ASSUME NEW o \in ops', o.u = u, o.op \in {"terminal", "release"} PROVE Done(u)'
        BY <1>1, <2>1, <2>2 DEF TurnTells
    <2> QED
        BY <1>1, <2>1, <2>2 DEF TurnTells
<1> QED
    BY <1>2, <1>3, <1>4 DEF KeptInv

\* The same for a step that moves no audio and writes no state.
LEMMA StillStep ==
    ASSUME Inv, KeptInv, UNCHANGED <<recorded, hnd, conn, client, file, meta>>,
           (\A v \in Utterances : fate[v] # "open" => fate'[v] # "open"),
           daemon'.pc = "transcribing" => daemon' = daemon,
           daemon.pc = "transcribing" =>
              daemon' = daemon \/ client[daemon.u] \notin {"request", "waiting", "acked"},
           \A o \in ops' : o.op \in {"terminal", "release"} =>
              \/ \E p \in ops : p.u = o.u /\ p.op = o.op
              \/ Done(o.u)',
           \A u \in Voice : DaemonTells(u)'
    PROVE  KeptInv'
<1>1. \A u \in Utterances :
        /\ file'[u] \cap Stored # {} => file[u] \cap Stored # {}
        /\ file[u] \subseteq {"retained", "released"} => file'[u] \subseteq {"retained", "released"}
        /\ file'[u] \subseteq {"delivered", "released"} =>
             file[u] \subseteq {"delivered", "released"} \/ Done(u)
    OBVIOUS
<1>2. \A u \in Voice : meta'[u] = "terminal" => meta[u] = "terminal" \/ Done(u)
    OBVIOUS
<1> QED
    BY <1>1, <1>2, TurnStep

\* A delivery request of the daemon's.
LEMMA CallFacts ==
    ASSUME Inv, NEW op, NEW phase, Call(op, phase)
    PROVE  /\ daemon'.u = daemon.u /\ daemon'.pc = "calling" /\ daemon'.phase = phase
           /\ daemon'.batch = daemon.batch
           /\ \A o \in ops' : o \in ops \/ (o.u = daemon.u /\ o.op = op)
BY DEF Call, Send, Inv, TypeOK, Daemons

\* What a step of the daemon on its own utterance has to show: for the others, less is known
\* than before.
LEMMA OwnTells ==
    ASSUME Inv, KeptInv, UNCHANGED <<client, file>>, (\A v \in Utterances : fate[v] # "open" => fate'[v] # "open"),
           daemon'.u \in {daemon.u, None}, daemon'.batch \subseteq daemon.batch,
           NEW u \in Voice,
           daemon'.u = u =>
              /\ daemon'.pc = "calling" /\ daemon'.phase \in {"handoff", "lost"} => client[u] \in {"got", "lost"}
              /\ InHand(daemon') => Apart(u)
              /\ Ending(daemon') => Apart(u) /\ fate'[u] # "open"
    PROVE  DaemonTells(u)'
<1>1. (Apart(u)' <=> Apart(u)) /\ DaemonTells(u)
    BY DEF Apart, KeptInv, TurnTells
<1>2. ASSUME NEW b \in daemon'.batch, b.u = u PROVE Apart(u)' /\ (b.state = "terminal" => fate'[u] # "open")
    BY <1>1, <1>2 DEF DaemonTells
<1> QED
    BY <1>1, <1>2 DEF DaemonTells, Done

\* The transcript begins a turn, or the request for it has ended.
LEMMA TranscriptKept ==
    ASSUME Inv, KeptInv, Transcript
    PROVE  KeptInv'
<1>1. UNCHANGED <<recorded, hnd, conn, client, file, meta, fate>> /\ daemon.pc = "transcribing"
    BY DEF Transcript, NotDaemon, ghost
<1>2. daemon.u \in Voice
    BY <1>1, InTurn
<1>3. client[daemon.u] \in {"got", "lost", "failed"}
    BY DEF Transcript
<1>4. ASSUME NEW op, NEW phase \in {"handoff", "lost"}, op \notin {"terminal", "release"},
             Call(op, phase), client[daemon.u] \in {"got", "lost"}
      PROVE  KeptInv'
    <2>1. /\ daemon'.u = daemon.u /\ daemon'.pc = "calling" /\ daemon'.phase = phase
          /\ daemon'.batch = daemon.batch
          /\ \A o \in ops' : o \in ops \/ (o.u = daemon.u /\ o.op = op)
        BY <1>4, CallFacts
    <2>2. ~InHand(daemon') /\ ~Ending(daemon')
        BY <1>4, <2>1 DEF InHand, Ending, Concludes
    <2>3. \A u \in Voice : DaemonTells(u)'
        BY <1>1, <1>4, <2>1, <2>2, OwnTells
    <2> QED
        BY <1>1, <1>3, <1>4, <2>1, <2>3, StillStep
<1>5. ASSUME daemon' = [Idle EXCEPT !.paused = daemon.paused], UNCHANGED ops PROVE KeptInv'
    <2>1. daemon'.u = None /\ daemon'.pc = "loop" /\ daemon'.batch = {}
        BY <1>5 DEF Idle
    <2>2. \A u \in Voice : DaemonTells(u)'
        BY <1>1, <2>1, VoiceConstants, OwnTells
    <2> QED
        BY <1>1, <1>3, <1>5, <2>1, <2>2, StillStep
<1> QED
    BY <1>4, <1>5 DEF Transcript

\* A turn in hand runs on a delivery.
LEMMA HandApart ==
    ASSUME Inv, KeptInv, daemon.pc \in {"turn", "declined", "fenced", "acted"}
    PROVE  daemon.u \in Voice /\ Apart(daemon.u)
<1>1. daemon.u \in Voice
    BY InTurn
<1> QED
    BY <1>1 DEF KeptInv, TurnTells, DaemonTells, InHand

\* The steps of a turn: one whose delivery is called terminal before its end is harmless.
LEMMA TurnKept ==
    ASSUME Inv, KeptInv, Turn
    PROVE  KeptInv'
<1>1. UNCHANGED <<recorded, hnd, conn, client, file, meta>>
      /\ daemon.pc \in {"turn", "declined", "fenced", "acted"}
      /\ \A v \in Utterances : fate[v] # "open" => fate'[v] # "open"
    BY InTurn DEF Turn, TerminalizeNonSideEffect, FenceSideEffect, Act, TurnEnds, NotDaemon, ghost, Inv, TypeOK
<1>2. daemon.u \in Voice /\ Apart(daemon.u)
    BY <1>1, HandApart
<1>3. CASE TerminalizeNonSideEffect
    <2>1. Call("terminal", "harmless") /\ fate'[daemon.u] # "open"
        BY <1>2, <1>3 DEF TerminalizeNonSideEffect, Inv, TypeOK
    <2>2. /\ daemon'.u = daemon.u /\ daemon'.pc = "calling" /\ daemon'.phase = "harmless"
          /\ daemon'.batch = daemon.batch
          /\ \A o \in ops' : o \in ops \/ (o.u = daemon.u /\ o.op = "terminal")
        BY <2>1, CallFacts
    <2>3. \A u \in Voice : DaemonTells(u)'
        BY <1>1, <1>2, <2>1, <2>2, OwnTells
    <2>4. Done(daemon.u)'
        BY <1>1, <1>2, <2>1, <2>2 DEF Done, Apart
    <2>5. \A o \in ops' : o.op \in {"terminal", "release"} =>
             (\E p \in ops : p.u = o.u /\ p.op = o.op) \/ Done(o.u)'
        BY <2>2, <2>4
    <2> QED
        BY <1>1, <2>2, <2>3, <2>5, StillStep
<1>4. CASE FenceSideEffect
    <2>1. /\ daemon'.u = daemon.u /\ daemon'.pc = "calling" /\ daemon'.phase = "fence"
          /\ daemon'.batch = daemon.batch
          /\ \A o \in ops' : o \in ops \/ (o.u = daemon.u /\ o.op = "ambiguous")
        BY <1>4, CallFacts DEF FenceSideEffect
    <2>2. \A u \in Voice : DaemonTells(u)'
        BY <1>1, <1>2, <2>1, OwnTells DEF Ending
    <2> QED
        BY <1>1, <2>1, <2>2, StillStep
<1>5. CASE Act \/ TurnEnds
    <2>1. /\ daemon'.u = daemon.u /\ daemon'.pc \in {"acted", "concluding"}
          /\ daemon'.batch = daemon.batch /\ UNCHANGED <<ops, fate>>
        BY <1>5 DEF Act, TurnEnds, TurnFailed, ghost, Inv, TypeOK, Daemons
    <2>2. \A u \in Voice : DaemonTells(u)'
        BY <1>1, <1>2, <2>1, OwnTells DEF Ending
    <2> QED
        BY <1>1, <2>1, <2>2, StillStep
<1> QED
    BY <1>3, <1>4, <1>5 DEF Turn

\* The end of a turn: its user has the answer before its delivery is made terminal or released.
LEMMA ConcludeKept ==
    ASSUME Inv, KeptInv, Conclude
    PROVE  KeptInv'
<1>1. UNCHANGED <<recorded, hnd, conn, client, file, meta>> /\ daemon.pc = "concluding"
    BY DEF Conclude, NotDaemon
<1>2. daemon.u \in Voice /\ daemon \in Daemons
    BY <1>1, InTurn DEF Inv, TypeOK
<1>5. fate'[daemon.u] # "open" /\ \A v \in Utterances : fate[v] # "open" => fate'[v] # "open"
    BY <1>2 DEF Conclude, Inv, TypeOK
<1>3. CASE daemon.failed /\ (daemon.amb \/ daemon.preserve)
    <2>1. daemon' \in Over(daemon) /\ UNCHANGED ops
        BY <1>3 DEF Conclude
    <2>2. daemon'.u = None /\ daemon'.pc \in {"loop", "interrupted"} /\ daemon'.batch \subseteq daemon.batch
        BY <1>2, <2>1, OverFacts
    <2>3. \A u \in Voice : DaemonTells(u)'
        BY <1>1, <1>5, <2>2, VoiceConstants, OwnTells
    <2> QED
        BY <1>1, <1>5, <2>1, <2>2, <2>3, StillStep
<1>4. CASE ~(daemon.failed /\ (daemon.amb \/ daemon.preserve))
    <2>2. Apart(daemon.u)
        BY <1>1, <1>2, <1>4 DEF KeptInv, TurnTells, DaemonTells, InHand, Concludes
    <2>3. Call("release", "cleanup") \/ Call("terminal", "final")
        BY <1>4 DEF Conclude
    <2>4. /\ daemon'.u = daemon.u /\ daemon'.pc = "calling" /\ daemon'.phase \in {"cleanup", "final"}
          /\ daemon'.batch = daemon.batch
          /\ \A o \in ops' : o \in ops \/ o.u = daemon.u
        BY <2>3, CallFacts
    <2>5. \A u \in Voice : DaemonTells(u)'
        BY <1>1, <1>5, <2>2, <2>4, OwnTells
    <2>6. \A o \in ops' : o.op \in {"terminal", "release"} =>
             (\E p \in ops : p.u = o.u /\ p.op = o.op) \/ Done(o.u)'
        BY <1>1, <1>5, <2>2, <2>4 DEF Done, Apart
    <2> QED
        BY <1>1, <1>5, <2>4, <2>5, <2>6, StillStep
<1> QED
    BY <1>3, <1>4

\* What the daemon makes of an answer: a turn goes on only with an answered handoff, and is
\* about to give its audio up only when it was before.
LEMMA AfterTells ==
    ASSUME Inv, daemon.pc = "calling", NEW ok \in BOOLEAN, NEW d \in After(ok)
    PROVE  /\ d.u \in {daemon.u, None} /\ d.batch \subseteq daemon.batch
           /\ d.pc \notin {"transcribing", "calling"}
           /\ d.u = daemon.u /\ InHand(d) =>
                daemon.phase \in {"fence", "harmless", "final"} \/ (daemon.phase = "handoff" /\ ok)
<1>1. daemon \in Daemons /\ daemon.phase \in Phases \ {"none"} /\ daemon.u # None /\ daemon.u \in Voice
    BY VoiceConstants DEF Inv, TypeOK, TurnInv, CallShape, Daemons
<1>2. AfterFacts(d, ok)
    BY AfterShape
<1>3. d.u \in {daemon.u, None} /\ d.batch \subseteq daemon.batch /\ d.pc \notin {"transcribing", "calling"}
    BY <1>1, <1>2 DEF AfterFacts
<1>4. CASE daemon.phase \in {"handoff", "lost"}
    <2>1. Evidence(daemon).pc = "concluding" /\ Evidence(daemon).failed /\ Evidence(daemon).preserve
        BY <1>1 DEF Evidence, TurnFailed, Daemons
    <2>2. d = Evidence(daemon) \/ (daemon.phase = "handoff" /\ ok /\ d = [daemon EXCEPT !.pc = "turn"])
        BY <1>4 DEF After
    <2>3. [daemon EXCEPT !.pc = "turn"].pc = "turn"
        BY <1>1 DEF Daemons
    <2> QED
        BY <1>3, <1>4, <2>1, <2>2, <2>3 DEF InHand, Ending, Concludes
<1>5. CASE daemon.phase = "fence"
    <2> DEFINE e == [daemon EXCEPT !.preserve = TRUE, !.paused = TRUE]
    <2>1. e \in Daemons /\ e.preserve
        BY <1>1 DEF Daemons
    <2>2. \/ d = [e EXCEPT !.pc = "fenced", !.amb = TRUE]
          \/ d = [e EXCEPT !.pc = "concluding", !.failed = TRUE]
          \/ d = [e EXCEPT !.pc = "declined"]
        BY <1>5 DEF After, Unfenced, TurnFailed
    <2> HIDE DEF e
    <2>3. d.pc \in {"fenced", "declined"} \/ (d.pc = "concluding" /\ d.failed /\ d.preserve)
        BY <2>1, <2>2 DEF Daemons
    <2> QED
        BY <1>3, <1>5, <2>3 DEF Ending, Concludes
<1>6. CASE daemon.phase \in {"harmless", "final"}
    <2>1. CASE daemon.phase = "harmless"
        <3>1. d \in {[[daemon EXCEPT !.term = TRUE, !.preserve = FALSE] EXCEPT !.pc = "concluding"],
                     TurnFailed([daemon EXCEPT !.term = TRUE, !.preserve = FALSE]), Evidence(daemon)}
            BY <2>1 DEF After
        <3>2. d.pc = "concluding"
            BY <1>1, <3>1 DEF TurnFailed, Evidence, Daemons
        <3> QED
            BY <1>3, <1>6, <3>2
    <2>2. CASE daemon.phase = "final"
        <3>1. d = [daemon EXCEPT !.term = TRUE, !.pc = "concluding"] \/ d \in Over([daemon EXCEPT !.paused = TRUE])
            BY <2>2 DEF After
        <3>2. [daemon EXCEPT !.paused = TRUE] \in Daemons
            BY <1>1 DEF Daemons
        <3>3. d.pc = "concluding" \/ d.pc \in {"loop", "interrupted"}
            BY <1>1, <3>1, <3>2, OverFacts DEF Daemons
        <3> QED
            BY <1>3, <1>6, <3>3 DEF InHand
    <2> QED
        BY <1>6, <2>1, <2>2
<1>7. CASE daemon.phase \in {"cleanup", "reap"}
    <2>1. d \in Over([daemon EXCEPT !.paused = ~ok])
          \/ d = [Idle EXCEPT !.paused = ~ok, !.batch = IF ok THEN daemon.batch ELSE {}]
        BY <1>7 DEF After
    <2>2. [daemon EXCEPT !.paused = ~ok] \in Daemons
        BY <1>1 DEF Daemons
    <2>3. d.u = None
        BY <2>1, <2>2, OverFacts DEF Idle
    <2> QED
        BY <1>1, <1>3, <2>3
<1> QED
    BY <1>1, <1>4, <1>5, <1>6, <1>7 DEF Phases

\* The daemon gets its answer, or none.
LEMMA AnswerTells ==
    ASSUME Inv, KeptInv, daemon.pc = "calling", NEW ok \in BOOLEAN, daemon' \in After(ok),
           UNCHANGED <<client, fate>>, NEW u \in Voice, Apart(u) => Apart(u)',
           daemon.u = u /\ daemon.phase = "handoff" /\ ok => Apart(u)'
    PROVE  DaemonTells(u)'
<1>1. DaemonTells(u) /\ u # None
    BY VoiceConstants DEF KeptInv, TurnTells
<1>2. /\ daemon'.u \in {daemon.u, None} /\ daemon'.batch \subseteq daemon.batch
      /\ daemon'.pc \notin {"transcribing", "calling"}
      /\ daemon'.u = daemon.u /\ InHand(daemon') =>
           daemon.phase \in {"fence", "harmless", "final"} \/ (daemon.phase = "handoff" /\ ok)
    BY AfterTells
<1>3. Done(u) => Done(u)'
    BY DEF Done
<1>4. ASSUME NEW b \in daemon'.batch, b.u = u PROVE Apart(u)' /\ (b.state = "terminal" => fate'[u] # "open")
    BY <1>1, <1>2, <1>4 DEF DaemonTells
<1>5. ASSUME daemon'.u = u, InHand(daemon') PROVE Apart(u)'
    <2>1. daemon.u = u /\ (daemon.phase \in {"fence", "harmless", "final"} \/ (daemon.phase = "handoff" /\ ok))
        BY <1>1, <1>2, <1>5
    <2>2. daemon.phase \in {"fence", "harmless", "final"} => InHand(daemon)
        BY DEF InHand
    <2> QED
        BY <1>1, <2>1, <2>2 DEF DaemonTells
<1>6. ~Ending(daemon')
    BY <1>2 DEF Ending
<1> QED
    BY <1>2, <1>4, <1>5, <1>6 DEF DaemonTells

\* No answer: the turn gives nothing up.
LEMMA CallFailsKept ==
    ASSUME Inv, KeptInv, CallFails
    PROVE  KeptInv'
<1>1. UNCHANGED <<recorded, hnd, conn, client, file, meta, fate>>
      /\ daemon.pc = "calling" /\ daemon' \in After(FALSE)
    BY DEF CallFails, NotDaemon, ghost
<1>2. \A u \in Voice : DaemonTells(u)'
    BY <1>1, AnswerTells DEF Apart
<1>3. \A o \in ops' : \E p \in ops : p.u = o.u /\ p.op = o.op
    <2>1. ASSUME NEW p \in ops
          PROVE  [p EXCEPT !.late = TRUE].u = p.u /\ [p EXCEPT !.late = TRUE].op = p.op
        BY DEF Inv, TypeOK, Ops
    <2>2. ASSUME NEW o \in ops' PROVE o \in ops \/ \E p \in ops : o = [p EXCEPT !.late = TRUE]
        BY DEF CallFails
    <2> QED
        BY <2>1, <2>2
<1>4. daemon'.pc # "transcribing"
    BY <1>1, AfterTells
<1> QED
    BY <1>1, <1>2, <1>3, <1>4, StillStep

\* A request that ends for a daemon that waits, or for nobody.
LEMMA FinishTells ==
    ASSUME Inv, KeptInv, NEW o \in ops, NEW ok \in BOOLEAN, Finish(o, ok), UNCHANGED <<client, fate>>,
           \A u \in Voice : Apart(u) => Apart(u)',
           ok /\ o.op = "pending" => Apart(o.u)'
    PROVE  /\ \A u \in Voice : DaemonTells(u)'
           /\ daemon' = daemon \/ (daemon.pc = "calling" /\ daemon'.pc # "transcribing")
<1>1. CASE o.late
    <2>1. daemon' = daemon
        BY <1>1 DEF Finish
    <2>2. ASSUME NEW u \in Voice PROVE DaemonTells(u)'
        <3>1. DaemonTells(u) /\ (Apart(u) => Apart(u)') /\ (Done(u) => Done(u)')
            BY DEF KeptInv, TurnTells, Done
        <3> QED
            BY <2>1, <3>1 DEF DaemonTells
    <2> QED
        BY <2>1, <2>2
<1>2. CASE ~o.late
    <2>1. daemon' \in After(ok)
        BY <1>2 DEF Finish
    <2>2. daemon.pc = "calling" /\ daemon.u = o.u /\ o.op = Asked[daemon.phase]
        BY <1>2 DEF Inv, TurnInv, CallShape
    <2>3. daemon.phase = "handoff" => o.op = "pending"
        BY <2>2 DEF Asked
    <2>4. \A u \in Voice : DaemonTells(u)'
        BY <2>1, <2>2, <2>3, AnswerTells
    <2>5. daemon'.pc # "transcribing"
        BY <2>1, <2>2, AfterTells
    <2> QED
        BY <2>2, <2>4, <2>5
<1> QED
    BY <1>1, <1>2

\* A delivery request of the server's reads the delivery; a release takes it out of use.
LEMMA LoadDeliveryKept ==
    ASSUME Inv, KeptInv, NEW o \in ops, LoadDelivery(o)
    PROVE  KeptInv'
<1>1. UNCHANGED <<recorded, hnd, conn, client, fate>> /\ o.seen = "unread"
    BY DEF LoadDelivery, NotOps, ghost
<1>2. o.u \in Voice /\ o \in Ops
    BY DEF Inv, TypeOK, Ops
<1>3. CASE Retained(o.u) /\ o.op # "release" /\ meta[o.u] # "terminal"
    <2>1. ops' = (ops \ {o}) \cup {[o EXCEPT !.seen = "loaded"]} /\ UNCHANGED <<file, meta, daemon>>
        BY <1>3 DEF LoadDelivery, GoesOn
    <2>2. [o EXCEPT !.seen = "loaded"].u = o.u /\ [o EXCEPT !.seen = "loaded"].op = o.op
        BY <1>2 DEF Ops
    <2>3. \A p \in ops' : \E q \in ops : q.u = p.u /\ q.op = p.op
        BY <2>1, <2>2
    <2>4. \A u \in Voice : DaemonTells(u)'
        BY <1>1, <2>1 DEF KeptInv, TurnTells, DaemonTells, Apart, Done
    <2> QED
        BY <1>1, <2>1, <2>3, <2>4, StillStep
<1>4. CASE Retained(o.u) /\ o.op = "release"
    <2>1. /\ Move(o.u, "retained", "released") /\ meta' = [meta EXCEPT ![o.u] = "none"]
          /\ ops' = (ops \ {o}) \cup {[o EXCEPT !.seen = "renamed"]} /\ UNCHANGED daemon
        BY <1>4 DEF LoadDelivery, GoesOn
    <2>2. [o EXCEPT !.seen = "renamed"].u = o.u /\ [o EXCEPT !.seen = "renamed"].op = o.op
        BY <1>2 DEF Ops
    <2>3. \A p \in ops' : \E q \in ops : q.u = p.u /\ q.op = p.op
        BY <2>1, <2>2
    <2>4. Done(o.u)
        BY <1>2, <1>4 DEF KeptInv, TurnTells
    <2>5. /\ file'[o.u] = (file[o.u] \ {"retained"}) \cup {"released"} /\ meta'[o.u] = "none"
          /\ \A v \in Utterances \ {o.u} : file'[v] = file[v] /\ meta'[v] = meta[v]
        BY <1>2, <2>1 DEF Move, Inv, TypeOK
    <2>6. \A u \in Utterances :
            /\ file'[u] \cap Stored # {} => file[u] \cap Stored # {}
            /\ file[u] \subseteq {"retained", "released"} => file'[u] \subseteq {"retained", "released"}
            /\ file'[u] \subseteq {"delivered", "released"} =>
                 file[u] \subseteq {"delivered", "released"} \/ Done(u)
        BY <1>4, <2>4, <2>5 DEF Stored, Retained
    <2>7. \A u \in Voice : (Apart(u) => Apart(u)') /\ (Done(u) => Done(u)')
        BY <1>1, <2>6 DEF Apart, Done
    <2>8. \A u \in Voice : DaemonTells(u)'
        BY <1>1, <2>1, <2>7 DEF KeptInv, TurnTells, DaemonTells
    <2>9. \A u \in Voice : meta'[u] = "terminal" => meta[u] = "terminal" \/ Done(u)
        BY <2>5
    <2> QED
        BY <1>1, <2>1, <2>3, <2>6, <2>8, <2>9, TurnStep
<1>5. CASE ~(Retained(o.u) /\ o.op # "release" /\ meta[o.u] # "terminal") /\ ~(Retained(o.u) /\ o.op = "release")
    <2> DEFINE ok == Retained(o.u) /\ o.op = "terminal"
    <2>1. Finish(o, ok) /\ UNCHANGED <<file, meta>>
        BY <1>5 DEF LoadDelivery
    <2>2. ok \in BOOLEAN /\ ~(ok /\ o.op = "pending")
        OBVIOUS
    <2> HIDE DEF ok
    <2>3. \A u \in Voice : Apart(u) => Apart(u)'
        BY <1>1, <2>1 DEF Apart
    <2>4. /\ \A u \in Voice : DaemonTells(u)'
          /\ daemon' = daemon \/ (daemon.pc = "calling" /\ daemon'.pc # "transcribing")
        BY <1>1, <2>1, <2>2, <2>3, FinishTells
    <2>5. ops' \subseteq ops
        BY <2>1 DEF Finish
    <2> QED
        BY <1>1, <2>1, <2>4, <2>5, StillStep
<1> QED
    BY <1>3, <1>4, <1>5

\* A replacement is written next to delivery.json, or its directory has gone.
LEMMA WriteReplacementKept ==
    ASSUME Inv, KeptInv, NEW o \in ops, WriteReplacement(o)
    PROVE  KeptInv'
<1>1. UNCHANGED <<recorded, hnd, conn, client, fate, file, meta>>
    BY DEF WriteReplacement, NotOps, ghost
<1>2. CASE Retained(o.u)
    <2>1. ops' = (ops \ {o}) \cup {[o EXCEPT !.seen = "written"]} /\ UNCHANGED daemon
        BY <1>2 DEF WriteReplacement, GoesOn
    <2>2. [o EXCEPT !.seen = "written"].u = o.u /\ [o EXCEPT !.seen = "written"].op = o.op
        BY DEF Inv, TypeOK, Ops
    <2>3. \A p \in ops' : \E q \in ops : q.u = p.u /\ q.op = p.op
        BY <2>1, <2>2
    <2>4. \A u \in Voice : DaemonTells(u)'
        BY <1>1, <2>1 DEF KeptInv, TurnTells, DaemonTells, Apart, Done
    <2> QED
        BY <1>1, <2>1, <2>3, <2>4, StillStep
<1>3. CASE ~Retained(o.u)
    <2>1. Finish(o, FALSE)
        BY <1>3 DEF WriteReplacement
    <2>2. \A u \in Voice : Apart(u) => Apart(u)'
        BY <1>1 DEF Apart
    <2>3. /\ \A u \in Voice : DaemonTells(u)'
          /\ daemon' = daemon \/ (daemon.pc = "calling" /\ daemon'.pc # "transcribing")
        BY <1>1, <2>1, <2>2, FinishTells
    <2>4. ops' \subseteq ops
        BY <2>1 DEF Finish
    <2> QED
        BY <1>1, <2>3, <2>4, StillStep
<1> QED
    BY <1>2, <1>3

\* Only what has a result is written down as terminal.
LEMMA WriteStateKept ==
    ASSUME Inv, KeptInv, NEW o \in ops, WriteState(o)
    PROVE  KeptInv'
<1>1. UNCHANGED <<recorded, hnd, conn, client, fate, file>> /\ o.seen \in {"loaded", "written"}
      /\ Finish(o, Retained(o.u))
    BY DEF WriteState, NotOps, ghost
<1>2. o.u \in Voice
    BY DEF Inv, TypeOK, Ops
<1>3. \A u \in Utterances : Apart(u)' <=> Apart(u)
    BY <1>1 DEF Apart
<1>4. Retained(o.u) \in BOOLEAN /\ ops' \subseteq ops
    BY <1>1 DEF Retained, Finish
<1>5. ASSUME Retained(o.u), o.op = "pending" PROVE Apart(o.u)
    <2>1. file[o.u] = {"retained"}
        BY <1>2, <1>5, OnePlace DEF Retained
    <2>2. client[o.u] \in {"got", "lost", "failed"}
        <3>1. ClientTells(o.u) /\ FenceShape(o.u) /\ UnrecordedShape(o.u) /\ client[o.u] \in ClientPcs
            BY <1>2 DEF KeptInv, Inv, TurnInv, TypeOK
        <3>2. Pendings(o.u) # {}
            BY <1>5 DEF Pendings
        <3>3. ~(daemon.u = o.u /\ daemon.pc = "transcribing")
            BY <3>1, <3>2 DEF FenceShape
        <3>4. client[o.u] \notin {"request", "waiting", "acked"}
            BY <2>1, <3>1, <3>3 DEF ClientTells, Stored
        <3>5. client[o.u] # "idle"
            BY <2>1, <3>1 DEF ClientTells, UnrecordedShape
        <3> QED
            BY <3>1, <3>4, <3>5 DEF ClientPcs
    <2> QED
        BY <2>1, <2>2 DEF Apart
<1>6. /\ \A u \in Voice : DaemonTells(u)'
      /\ daemon' = daemon \/ (daemon.pc = "calling" /\ daemon'.pc # "transcribing")
    BY <1>1, <1>2, <1>3, <1>4, <1>5, FinishTells
<1>7. ASSUME NEW u \in Voice, meta'[u] = "terminal" PROVE meta[u] = "terminal" \/ Done(u)
    <2>1. meta'[u] = meta[u] \/ (u = o.u /\ o.op = "terminal")
        BY <1>2, <1>7 DEF WriteState, Inv, TypeOK
    <2> QED
        BY <1>7, <2>1 DEF KeptInv, TurnTells
<1>8. \A u \in Utterances :
        /\ file'[u] \cap Stored # {} => file[u] \cap Stored # {}
        /\ file[u] \subseteq {"retained", "released"} => file'[u] \subseteq {"retained", "released"}
        /\ file'[u] \subseteq {"delivered", "released"} =>
             file[u] \subseteq {"delivered", "released"} \/ Done(u)
    BY <1>1
<1> QED
    BY <1>1, <1>4, <1>6, <1>7, <1>8, TurnStep

\* What a release removes has a result.
LEMMA RemoveReleasedKept ==
    ASSUME Inv, KeptInv, NEW o \in ops, RemoveReleased(o)
    PROVE  KeptInv'
<1>1. UNCHANGED <<recorded, hnd, conn, client, fate, meta>> /\ o.seen = "renamed"
      /\ Finish(o, "released" \in file[o.u] /\ o.u \notin litter)
    BY DEF RemoveReleased, NotOps, ghost
<1>2. o.u \in Voice
    BY DEF Inv, TypeOK, Ops
<1>3. o.op = "release"
    BY <1>1 DEF Inv, TurnInv, CallShape
<1>4. Done(o.u)
    BY <1>2, <1>3 DEF KeptInv, TurnTells
<1>5. file'[o.u] \in {file[o.u], file[o.u] \ {"released"}} /\ \A v \in Utterances \ {o.u} : file'[v] = file[v]
    BY <1>2 DEF RemoveReleased, Inv, TypeOK
<1>6. \A u \in Utterances :
        /\ file'[u] \cap Stored # {} => file[u] \cap Stored # {}
        /\ file[u] \subseteq {"retained", "released"} => file'[u] \subseteq {"retained", "released"}
        /\ file'[u] \subseteq {"delivered", "released"} =>
             file[u] \subseteq {"delivered", "released"} \/ Done(u)
    BY <1>4, <1>5 DEF Stored
<1>7. \A u \in Voice : Apart(u) => Apart(u)'
    BY <1>1, <1>6 DEF Apart
<1>8. /\ \A u \in Voice : DaemonTells(u)'
      /\ daemon' = daemon \/ (daemon.pc = "calling" /\ daemon'.pc # "transcribing")
    <2>1. ("released" \in file[o.u] /\ o.u \notin litter) \in BOOLEAN
        OBVIOUS
    <2> QED
        BY <1>1, <1>3, <1>7, <2>1, FinishTells
<1>9. ops' \subseteq ops
    BY <1>1 DEF Finish
<1>10. \A u \in Voice : meta'[u] = "terminal" => meta[u] = "terminal" \/ Done(u)
    BY <1>1
<1> QED
    BY <1>1, <1>6, <1>8, <1>9, <1>10, TurnStep

\* A request that fails does nothing.
LEMMA OperationFailsKept ==
    ASSUME Inv, KeptInv, NEW o \in ops, OperationFails(o)
    PROVE  KeptInv'
<1>1. UNCHANGED <<recorded, hnd, conn, client, fate, meta, file>> /\ Finish(o, FALSE)
    BY DEF OperationFails, NotOps, ghost
<1>2. \A u \in Voice : Apart(u) => Apart(u)'
    BY <1>1 DEF Apart
<1>3. /\ \A u \in Voice : DaemonTells(u)'
      /\ daemon' = daemon \/ (daemon.pc = "calling" /\ daemon'.pc # "transcribing")
    BY <1>1, <1>2, FinishTells
<1>4. ops' \subseteq ops
    BY <1>1 DEF Finish
<1> QED
    BY <1>1, <1>3, <1>4, StillStep

\* The next delivery of a recovery: a terminal one is released, a pending one run.
LEMMA NextRetainedKept ==
    ASSUME Inv, KeptInv, NextRetained
    PROVE  KeptInv'
<1>1. UNCHANGED <<recorded, hnd, conn, client, fate, meta, file>> /\ daemon.pc = "loop"
    BY DEF NextRetained, NotDaemon, ghost
<1>2. daemon \in Daemons
    BY DEF Inv, TypeOK
<1>3. PICK b \in Oldest :
          \/ /\ b.state = "terminal" /\ Send(b.u, "release")
             /\ daemon' = [Recovering(b) EXCEPT !.pc = "calling", !.phase = "reap"]
          \/ b.state = "ambiguous" /\ daemon' = Idle /\ UNCHANGED ops
          \/ /\ b.state = "pending" /\ UNCHANGED ops
             /\ daemon' = [Recovering(b) EXCEPT !.pc = "turn"]
    BY DEF NextRetained
<1>4. b \in daemon.batch /\ b.u \in Voice
    BY <1>2 DEF Oldest, Daemons
<1>5. Apart(b.u) /\ (b.state = "terminal" => fate[b.u] # "open")
    BY <1>4 DEF KeptInv, TurnTells, DaemonTells
<1>6. \A u \in Voice : Apart(u)' <=> Apart(u)
    BY <1>1 DEF Apart
<1>7. /\ daemon'.batch \subseteq daemon.batch /\ daemon'.pc # "transcribing"
      /\ \/ daemon'.u = None
         \/ daemon'.u = b.u /\ daemon'.pc = "turn" /\ UNCHANGED ops
         \/ /\ daemon'.u = b.u /\ daemon'.pc = "calling" /\ daemon'.phase = "reap"
            /\ b.state = "terminal"
    <2>1. CASE /\ b.state = "terminal" /\ Send(b.u, "release")
               /\ daemon' = [Recovering(b) EXCEPT !.pc = "calling", !.phase = "reap"]
        BY <2>1 DEF Recovering, Idle
    <2>2. CASE b.state = "ambiguous" /\ daemon' = Idle /\ UNCHANGED ops
        BY <2>2 DEF Idle
    <2>3. CASE /\ b.state = "pending" /\ UNCHANGED ops
               /\ daemon' = [Recovering(b) EXCEPT !.pc = "turn"]
        BY <2>3 DEF Recovering, Idle
    <2> QED
        BY <1>3, <2>1, <2>2, <2>3
<1>8. ASSUME NEW u \in Voice PROVE DaemonTells(u)'
    <2>1. ASSUME NEW c \in daemon'.batch, c.u = u PROVE Apart(u)' /\ (c.state = "terminal" => fate'[u] # "open")
        BY <1>1, <1>6, <1>7, <2>1 DEF KeptInv, TurnTells, DaemonTells
    <2>2. ASSUME daemon'.u = u
          PROVE  /\ ~(daemon'.pc = "calling" /\ daemon'.phase \in {"handoff", "lost"})
                 /\ Apart(u)' /\ (Ending(daemon') => fate'[u] # "open")
        <3>1. u # None
            BY VoiceConstants
        <3> QED
            BY <1>1, <1>5, <1>6, <1>7, <2>2, <3>1 DEF Ending, Concludes
    <2> QED
        BY <2>1, <2>2 DEF DaemonTells, Done
<1>9. \A o \in ops' : o.op \in {"terminal", "release"} =>
         (\E p \in ops : p.u = o.u /\ p.op = o.op) \/ Done(o.u)'
    <2>1. \A o \in ops' : o \in ops \/ (o.u = b.u /\ b.state = "terminal")
        BY <1>3 DEF Send
    <2> QED
        BY <1>1, <1>4, <1>5, <1>6, <2>1 DEF Done
<1> QED
    BY <1>1, <1>7, <1>8, <1>9, StillStep

\* A recovery publishes what is hidden, removes what was released, and reports the rest.
LEMMA RetryRetainedRecoveryKept ==
    ASSUME Inv, KeptInv, RetryRetainedRecovery
    PROVE  KeptInv'
<1>1. UNCHANGED <<recorded, hnd, conn, client, fate, meta, ops>> /\ daemon.pc = "loop"
      /\ \E left \in SUBSET Released : file' = Published(left)
    BY DEF RetryRetainedRecovery, NotDaemon, ghost
<1>2. daemon.u = None
    BY <1>1 DEF Inv, TurnInv, CallShape
<1>3. ASSUME NEW u \in Utterances
      PROVE  /\ "hidden" \in file[u] => file'[u] = (file[u] \ {"hidden"}) \cup {"retained"}
             /\ "hidden" \notin file[u] => file'[u] \in {file[u], file[u] \ {"released"}}
    BY <1>1 DEF Published
<1>4. \A u \in Utterances :
        /\ file'[u] \cap Stored # {} => file[u] \cap Stored # {}
        /\ file[u] \subseteq {"retained", "released"} => file'[u] \subseteq {"retained", "released"}
        /\ file'[u] \subseteq {"delivered", "released"} =>
             file[u] \subseteq {"delivered", "released"} \/ Done(u)
    BY <1>3 DEF Stored
<1>5. \A u \in Voice : (Apart(u) => Apart(u)') /\ (Done(u) => Done(u)')
    BY <1>1, <1>4 DEF Apart, Done
<1>6. ASSUME NEW u \in Voice, file[u] \cap {"hidden", "retained"} # {} PROVE Apart(u)'
    <2>1. ClientTells(u) /\ UnrecordedShape(u) /\ client[u] \in ClientPcs /\ u # None
        BY VoiceConstants DEF KeptInv, Inv, TurnInv, TypeOK
    <2>2. client[u] \in {"got", "lost", "failed"}
        BY <1>1, <1>2, <1>6, <2>1 DEF ClientTells, UnrecordedShape, Stored, ClientPcs
    <2>3. file[u] \in {{"hidden"}, {"retained"}}
        BY <1>6, OnePlace
    <2>4. file'[u] = {"retained"}
        BY <1>3, <2>3
    <2> QED
        BY <1>1, <2>2, <2>4 DEF Apart
<1>7. daemon' = daemon \/ daemon' = [Idle EXCEPT !.paused = FALSE, !.batch = Reported]
    BY DEF RetryRetainedRecovery
<1>8. ASSUME NEW u \in Voice PROVE DaemonTells(u)'
    <2>1. CASE daemon' = daemon
        BY <1>1, <1>5, <2>1 DEF KeptInv, TurnTells, DaemonTells, Done
    <2>2. CASE daemon' = [Idle EXCEPT !.paused = FALSE, !.batch = Reported]
        <3>1. daemon'.u = None /\ daemon'.batch = Reported /\ u # None
            BY <2>2, VoiceConstants DEF Idle
        <3>2. ASSUME NEW b \in Reported, b.u = u PROVE Apart(u)' /\ (b.state = "terminal" => fate'[u] # "open")
            <4>1. file[u] \cap {"hidden", "retained"} # {} /\ b.state = meta[u]
                BY <3>2 DEF Reported
            <4> QED
                BY <1>1, <1>6, <4>1 DEF KeptInv, TurnTells, Done
        <3> QED
            BY <3>1, <3>2 DEF DaemonTells
    <2> QED
        BY <1>7, <2>1, <2>2
<1>9. daemon'.pc = "loop"
    BY <1>1, <1>7 DEF Idle
<1>10. \A u \in Voice : meta'[u] = "terminal" => meta[u] = "terminal" \/ Done(u)
    BY <1>1
<1> QED
    BY <1>1, <1>4, <1>8, <1>9, <1>10, TurnStep

\* The daemon is idle again.
LEMMA NothingMoreSaidKept ==
    ASSUME Inv, KeptInv, NothingMoreSaid
    PROVE  KeptInv'
<1>1. UNCHANGED <<recorded, hnd, conn, client, fate, meta, file, ops>> /\ daemon.pc = "interrupted"
    BY DEF NothingMoreSaid, NotDaemon, ghost
<1>2. daemon'.u = None /\ daemon'.pc = "loop" /\ daemon'.batch = {}
    BY DEF NothingMoreSaid, Idle
<1>3. \A u \in Voice : DaemonTells(u)'
    BY <1>1, <1>2, VoiceConstants, OwnTells
<1> QED
    BY <1>1, <1>2, <1>3, StillStep

\* A recording begins a request for retention.
LEMMA RecordKept ==
    ASSUME Inv, KeptInv, NEW u \in Voice, Record(u)
    PROVE  KeptInv'
<1>1. /\ UNCHANGED <<hnd, fate, meta, ops>> /\ daemon.pc \in {"loop", "interrupted"}
      /\ u \notin recorded /\ recorded' = recorded \cup {u}
    BY DEF Record, NotDaemon, ghost
<1>2. daemon.u = None
    BY <1>1 DEF Inv, TurnInv, CallShape
<1>3. daemon'.u = u /\ daemon'.pc = "transcribing" /\ daemon'.batch = {}
    BY DEF Record, Idle
<1>4. /\ file'[u] = {"generation"} /\ client'[u] = "request" /\ conn'[u].retain
      /\ \A v \in Utterances \ {u} : file'[v] = file[v] /\ client'[v] = client[v] /\ conn'[v] = conn[v]
    BY DEF Record, ClientTo, Connection, Inv, TypeOK
<1>5. hnd[u] = "none" /\ meta[u] = "none" /\ \A o \in ops : o.u # u
    BY <1>1 DEF Inv, TurnInv, UnrecordedShape
<1>6. ASSUME NEW v \in Utterances PROVE ClientTells(v)' /\ LossTells(v)'
    <2>1. ClientTells(v) /\ LossTells(v) /\ v # None
        BY VoiceConstants DEF KeptInv
    <2>2. CASE v = u
        BY <1>1, <1>3, <1>4, <1>5, <2>2 DEF ClientTells, LossTells
    <2>3. CASE v # u
        <3>1. (Apart(v)' <=> Apart(v)) /\ (Handed(v)' <=> Handed(v))
            BY <1>1, <1>4, <2>3 DEF Apart, Handed
        <3>2. ClientTells(v)'
            BY <1>1, <1>2, <1>3, <1>4, <2>1, <2>3 DEF ClientTells
        <3> QED
            BY <1>1, <1>4, <2>1, <2>3, <3>1, <3>2 DEF LossTells
    <2> QED
        BY <2>2, <2>3
<1>7. ASSUME NEW v \in Voice PROVE TurnTells(v)'
    <2>1. CASE v = u
        BY <1>1, <1>3, <1>5, <2>1 DEF TurnTells, DaemonTells, InHand, Ending, Concludes
    <2>2. CASE v # u
        <3>1. (Apart(v)' <=> Apart(v)) /\ (Done(v)' <=> Done(v))
            BY <1>1, <1>4, <2>2 DEF Apart, Done
        <3> QED
            BY <1>1, <1>3, <2>2, <3>1 DEF KeptInv, TurnTells, DaemonTells
    <2> QED
        BY <2>1, <2>2
<1> QED
    BY <1>6, <1>7 DEF KeptInv

\* A daemon that dies hangs up, and its delivery request goes on.
LEMMA DaemonCrashKept ==
    ASSUME Inv, KeptInv, DaemonCrash
    PROVE  KeptInv'
<1>1. UNCHANGED <<recorded, hnd, meta, file>>
      /\ \A v \in Utterances : fate[v] # "open" <=> fate'[v] # "open"
    BY DEF DaemonCrash, NotDaemon
<1>2. daemon'.u = None /\ daemon'.pc = "loop" /\ daemon'.batch = {}
    BY DEF DaemonCrash, Idle
<1>3. \A o \in ops' : \E p \in ops : p.u = o.u /\ p.op = o.op
    BY DEF DaemonCrash, Inv, TypeOK, Ops
<1>4. ASSUME NEW u \in Utterances
      PROVE  \/ ~(daemon.pc = "transcribing" /\ daemon.u = u) /\ client'[u] = client[u] /\ conn'[u] = conn[u]
             \/ /\ daemon.pc = "transcribing" /\ daemon.u = u /\ client'[u] = "failed"
                /\ conn'[u].retain = conn[u].retain /\ conn'[u].resp = conn[u].resp
                /\ conn'[u].ack = conn[u].ack /\ conn'[u].end = "gone"
    <2>1. conn[u] \in Conns /\ conn \in [Utterances -> Conns] /\ client \in [Utterances -> ClientPcs]
        BY DEF Inv, TypeOK
    <2> QED
        BY <2>1 DEF DaemonCrash, ClientTo, Conns
<1>5. ASSUME NEW u \in Utterances PROVE Apart(u) => Apart(u)'
    BY <1>1, <1>4 DEF Apart
<1>6. ASSUME NEW u \in Utterances PROVE ClientTells(u)' /\ LossTells(u)'
    <2>1. ClientTells(u) /\ LossTells(u) /\ u # None
        BY VoiceConstants DEF KeptInv
    <2>2. ClientTells(u)'
        BY <1>1, <1>2, <1>4, <2>1 DEF ClientTells
    <2>3. Handed(u) => Handed(u)'
        BY <1>1, <1>4, <2>1 DEF Handed, ClientTells
    <2> QED
        BY <1>1, <1>5, <2>1, <2>2, <2>3 DEF LossTells
<1>7. ASSUME NEW u \in Voice PROVE TurnTells(u)'
    <2>1. TurnTells(u) /\ u # None /\ (Done(u) => Done(u)')
        BY <1>1, <1>5, VoiceConstants DEF KeptInv, Done
    <2>2. ASSUME NEW o \in ops', o.u = u, o.op \in {"terminal", "release"} PROVE Done(u)'
        BY <1>3, <2>1, <2>2 DEF TurnTells
    <2> QED
        BY <1>1, <1>2, <2>1, <2>2 DEF TurnTells, DaemonTells
<1> QED
    BY <1>6, <1>7 DEF KeptInv

\* No step loses audio.
LEMMA NextKept == Inv /\ KeptInv /\ [Next]_vars => KeptInv'
<1> SUFFICES ASSUME Inv, KeptInv, [Next]_vars PROVE KeptInv'
    OBVIOUS
<1>1. ASSUME NEW u \in Utterances, Handler(u) PROVE KeptInv'
    BY <1>1, ClaimKept, TranscribedKept, AckReadKept, DeleteDeliveredKept, StoreAudioKept,
       PublishRetainedKept, RestoreLinkKept, RestoredKept, GivesUpKept, RetentionFailsKept
    DEF Handler
<1>2. ASSUME NEW u \in Utterances,
             \/ TranscriptionFails(u) \/ CommitFails(u) \/ RestoreQuarantines(u)
             \/ RestoreFails(u) \/ RollbackFails(u)
      PROVE  KeptInv'
    BY <1>2, GivesUpKept, RestoredKept, LeavesKept
<1>3. ASSUME NEW u \in Utterances, Dictate(u) \/ Client(u) \/ ClientTimeout(u) PROVE KeptInv'
    BY <1>3, DictateKept, RequestKept, ReadTranscriptKept, TryAgainKept, ReadEndKept, ReadErrorKept,
       ClientTimeoutKept DEF Client
<1>4. ASSUME NEW u \in Voice, Record(u) PROVE KeptInv'
    BY <1>4, RecordKept
<1>5. ASSUME NEW o \in ops, Operation(o) \/ OperationFails(o) PROVE KeptInv'
    BY <1>5, LoadDeliveryKept, WriteReplacementKept, WriteStateKept, RemoveReleasedKept, OperationFailsKept DEF Operation
<1>6. ASSUME Daemon PROVE KeptInv'
    BY <1>6, TranscriptKept, TurnKept, ConcludeKept, CallFailsKept, NextRetainedKept,
       RetryRetainedRecoveryKept, NothingMoreSaidKept
    DEF Daemon
<1>7. ASSUME Recover PROVE KeptInv'
    <2>1. CASE ServerReady
        <3>1. UNCHANGED <<recorded, hnd, conn, client, file, meta, fate, daemon, ops>>
            BY <2>1 DEF ServerReady, audio, thread, ghost
        <3> QED
            BY <3>1 DEF KeptInv, ClientTells, LossTells, TurnTells, DaemonTells, Apart, Handed, Done
    <2> QED
        BY <1>7, <2>1, RecoverStrandedKept DEF Recover
<1>8. ASSUME ServerCrash \/ DaemonCrash PROVE KeptInv'
    BY <1>8, ServerCrashKept, DaemonCrashKept
<1>9. ASSUME UNCHANGED vars PROVE KeptInv'
    <2>1. UNCHANGED <<recorded, hnd, conn, client, file, meta, fate, daemon, ops>>
        BY <1>9 DEF vars, audio, thread, ghost
    <2> QED
        BY <2>1 DEF KeptInv, ClientTells, LossTells, TurnTells, DaemonTells, Apart, Handed, Done
<1> QED
    BY <1>1, <1>2, <1>3, <1>4, <1>5, <1>6, <1>7, <1>8, <1>9 DEF Next

(***************************************************************************)
(* What became of a harmless turn: until it is concluded, its delivery is  *)
(* kept.  A delivery is released only when its turn was called terminal,   *)
(* and then nobody makes it pending or runs it again.                      *)
(***************************************************************************)

Releases(u) == {o \in ops : o.u = u /\ o.op = "release"}

\* The turn runs: it has not come to its conclusion.
TurnOn(d) == \/ d.pc \in {"turn", "declined", "fenced", "acted"}
             \/ d.pc = "calling" /\ d.phase \in {"fence", "harmless"}

\* The turn was called terminal, or its delivery is being released.
Ended(u) ==
    \/ Releases(u) # {}
    \/ [u |-> u, state |-> "terminal"] \in daemon.batch
    \/ daemon.u = u /\ (daemon.term \/ (daemon.pc = "calling" /\ daemon.phase \in {"cleanup", "reap"}))

HeldShape(u) ==
    /\ Ended(u) => meta[u] # "pending" /\ Replayable(u) \notin daemon.batch /\ Pendings(u) = {}
    /\ Replayable(u) \in daemon.batch => Retained(u)
    /\ daemon.u = u /\ daemon.pc = "transcribing" => ~daemon.term
    /\ daemon.u = u /\ TurnOn(daemon) => Retained(u) /\ Releases(u) = {}
    /\ fate[u] = "harmless" => /\ daemon.u = u /\ (TurnOn(daemon) \/ daemon.pc = "concluding")
                               /\ Retained(u) /\ Releases(u) = {}

HeldInv == /\ \A u \in Voice : HeldShape(u)
           /\ \A u \in Utterances \ Voice : fate[u] # "harmless"

\* In the initial state nothing is held.
LEMMA InitHeld == Init => HeldInv
<1> SUFFICES ASSUME Init PROVE HeldInv
    OBVIOUS
<1>1. /\ daemon.u = None /\ daemon.batch = {} /\ ops = {}
      /\ \A u \in Utterances : fate[u] = "open"
    BY DEF Init, Idle
<1>2. \A u \in Voice : u # None /\ u \in Utterances
    BY VoiceConstants DEF Utterances
<1> QED
    BY <1>1, <1>2 DEF HeldInv, HeldShape, Ended, Releases, Replayable

\* A step that leaves the daemon alone, makes no delivery pending and takes none away that
\* is not being released.
LEMMA HeldSame ==
    ASSUME NEW u \in Voice, HeldShape(u), UNCHANGED daemon,
           \A o \in ops' : o.u = u => \E p \in ops : p.u = u /\ p.op = o.op,
           meta'[u] = "pending" => ~Ended(u),
           Retained(u) /\ Releases(u) = {} => Retained(u)',
           fate'[u] = "harmless" => fate[u] = "harmless"
    PROVE  HeldShape(u)'
<1>1. (Pendings(u)' # {} => Pendings(u) # {}) /\ (Releases(u)' # {} => Releases(u) # {})
    BY DEF Pendings, Releases
<1>2. (Ended(u)' => Ended(u)) /\ (Releases(u) # {} => Ended(u)) /\ Replayable(u)' = Replayable(u)
    BY <1>1 DEF Ended, Replayable
<1>3. TurnOn(daemon)' = TurnOn(daemon)
    BY DEF TurnOn
<1>5. CASE Releases(u) = {}
    BY <1>1, <1>2, <1>3, <1>5 DEF HeldShape
<1>4. CASE Releases(u) # {}
    <2>1. /\ Ended(u) /\ fate'[u] # "harmless" /\ ~(daemon.u = u /\ TurnOn(daemon))
          /\ Replayable(u) \notin daemon.batch
        BY <1>2, <1>4 DEF HeldShape
    <2> QED
        BY <1>1, <1>2, <1>3, <2>1 DEF HeldShape
<1> QED
    BY <1>4, <1>5

\* A step of the daemon that has nothing to do with the utterance any more, or had not.
LEMMA HeldOther ==
    ASSUME NEW u \in Voice, HeldShape(u), daemon'.u # u, daemon'.batch \subseteq daemon.batch,
           \A o \in ops' : o.u = u => \E p \in ops : p.u = u /\ p.op = o.op,
           meta'[u] = "pending" => ~Ended(u),
           Retained(u) /\ Releases(u) = {} => Retained(u)',
           fate'[u] # "harmless"
    PROVE  HeldShape(u)'
<1>1. (Pendings(u)' # {} => Pendings(u) # {}) /\ (Releases(u)' # {} => Releases(u) # {})
    BY DEF Pendings, Releases
<1>2. (Ended(u)' => Ended(u)) /\ (Releases(u) # {} => Ended(u)) /\ Replayable(u)' = Replayable(u)
    BY <1>1 DEF Ended, Replayable
<1> QED
    BY <1>1, <1>2 DEF HeldShape

\* A step of the daemon on its utterance: it starts no turn without the delivery, and calls
\* a turn ended only when nobody can make its delivery pending.
LEMMA HeldOwn ==
    ASSUME NEW u \in Voice, HeldShape(u), daemon.u = u, daemon'.u = u,
           daemon'.pc # "transcribing",
           \A b \in daemon'.batch : b.u # u,
           \A o \in ops' : o.u = u =>
              \/ \E p \in ops : p.u = u /\ p.op = o.op
              \/ o.op \in {"ambiguous", "terminal"}
              \/ /\ o.op = "release" /\ Ended(u)
                 /\ ~TurnOn(daemon') /\ daemon'.pc # "concluding",
           meta'[u] = "pending" => ~Ended(u),
           daemon'.term => Ended(u) \/ (meta'[u] # "pending" /\ Pendings(u)' = {}),
           daemon'.pc = "calling" /\ daemon'.phase \in {"cleanup", "reap"} => Ended(u),
           Retained(u) /\ Releases(u) = {} => Retained(u)',
           TurnOn(daemon') => TurnOn(daemon) \/ (Retained(u)' /\ Releases(u)' = {}),
           fate'[u] = "harmless" => /\ fate[u] = "harmless" \/ TurnOn(daemon)
                                    /\ TurnOn(daemon') \/ daemon'.pc = "concluding"
    PROVE  HeldShape(u)'
<1>1. Pendings(u)' # {} => Pendings(u) # {}
    BY DEF Pendings
<1>2. Releases(u)' # {} => Releases(u) # {} \/ (Ended(u) /\ ~TurnOn(daemon') /\ daemon'.pc # "concluding")
    BY DEF Releases
<1>3. Ended(u)' => Ended(u) \/ (meta'[u] # "pending" /\ Pendings(u)' = {})
    BY <1>2 DEF Ended
<1>4. Replayable(u)' \notin daemon'.batch
    BY DEF Replayable
<1>5. TurnOn(daemon)' <=> TurnOn(daemon')
    BY DEF TurnOn
<1>6. TurnOn(daemon)' => Retained(u)' /\ Releases(u)' = {}
    BY <1>2, <1>5 DEF HeldShape
<1>7. fate'[u] = "harmless" => Retained(u) /\ Releases(u) = {}
    BY DEF HeldShape
<1> QED
    BY <1>1, <1>2, <1>3, <1>4, <1>5, <1>6, <1>7 DEF HeldShape

\* A step of a server thread or of a client leaves the daemon and the requests alone.
LEMMA HeldAside ==
    ASSUME HeldInv, UNCHANGED <<daemon, ops>>,
           \A u \in Voice : /\ meta'[u] = "pending" => meta[u] = "pending"
                            /\ Retained(u) => Retained(u)',
           \A u \in Utterances : fate'[u] = "harmless" => fate[u] = "harmless"
    PROVE  HeldInv'
<1>1. ASSUME NEW u \in Voice PROVE HeldShape(u)'
    <2>1. HeldShape(u) /\ u \in Utterances
        BY DEF HeldInv, Utterances
    <2>2. meta'[u] = "pending" => ~Ended(u)
        BY <2>1 DEF HeldShape
    <2> QED
        BY <2>1, <2>2, HeldSame
<1>2. \A u \in Utterances \ Voice : fate'[u] # "harmless"
    BY DEF HeldInv
<1> QED
    BY <1>1, <1>2 DEF HeldInv

\* The server's threads, its recovery and the clients move no retained audio.
LEMMA AsideHeld ==
    ASSUME Inv, HeldInv, NEW u \in Utterances,
           \/ Handler(u) \/ TranscriptionFails(u) \/ CommitFails(u) \/ RestoreQuarantines(u)
           \/ RestoreFails(u) \/ RollbackFails(u) \/ RecoverStranded(u)
           \/ Dictate(u) \/ Client(u) \/ ClientTimeout(u)
    PROVE  HeldInv'
<1>1. /\ file \in [Utterances -> SUBSET Places] /\ meta \in [Utterances -> States \cup {"none"}]
      /\ fate \in [Utterances -> Fates] /\ \A v \in Voice : v \in Utterances
    BY DEF Inv, TypeOK, Utterances
<1>2. CASE Claim(u) \/ AckRead(u) \/ DeleteDelivered(u) \/ PublishRetained(u) \/ RestoreLink(u)
           \/ RestoreUnlink(u) \/ RestoreQuarantines(u) \/ RecoverStranded(u)
    <2>1. UNCHANGED <<daemon, ops, meta, fate>>
        BY <1>2 DEF Claim, AckRead, DeleteDelivered, PublishRetained, RestoreLink, RestoreUnlink,
                    RestoreQuarantines, RecoverStranded, NotServer, ghost
    <2>2. \/ file' = file
          \/ \E a \in Places \ {"retained"}, b \in Places : Move(u, a, b)
          \/ \E a \in Places \ {"retained"} : file' = [file EXCEPT ![u] = @ \ {a}]
          \/ Link(u)
        BY <1>2 DEF Claim, AckRead, DeleteDelivered, PublishRetained, RestoreLink, RestoreUnlink,
                    RestoreQuarantines, RecoverStranded, Unlink, Places
    <2>3. \A v \in Voice : Retained(v) => Retained(v)'
        BY <1>1, <2>2 DEF Retained, Move, Link
    <2> QED
        BY <2>1, <2>3, HeldAside
<1>3. CASE StoreAudio(u) \/ RetentionFails(u)
    <2>1. UNCHANGED <<daemon, ops, fate>>
        BY <1>3 DEF StoreAudio, RetentionFails, NotServer, ghost
    <2>2. \A v \in Voice : Retained(v) => Retained(v)'
        BY <1>1, <1>3 DEF StoreAudio, RetentionFails, Retained, Move
    <2>3. \A v \in Voice : meta'[v] = "pending" => meta[v] = "pending"
        BY <1>1, <1>3 DEF StoreAudio, RetentionFails
    <2> QED
        BY <2>1, <2>2, <2>3, HeldAside
<1>4. CASE Dictate(u)
    <2>1. UNCHANGED <<daemon, ops, meta, fate>>
        BY <1>4 DEF Dictate, ghost
    <2>2. \A v \in Voice : Retained(v) => Retained(v)'
        BY <1>1, <1>4, VoiceConstants DEF Dictate, Retained
    <2> QED
        BY <2>1, <2>2, HeldAside
<1>5. CASE Transcribed(u) \/ AckTimeout(u) \/ TranscriptionFails(u) \/ CommitFails(u) \/ RestoreFails(u)
           \/ RollbackFails(u) \/ Request(u) \/ TryAgain(u) \/ ClientTimeout(u)
    <2>1. UNCHANGED <<daemon, ops, file, meta, fate>>
        BY <1>5 DEF Transcribed, AckTimeout, TranscriptionFails, CommitFails, RestoreFails,
                    RollbackFails, Request, TryAgain, ClientTimeout, NotServer, NotClient, audio, ghost
    <2> QED
        BY <2>1, HeldAside DEF Retained
<1>6. CASE ReadTranscript(u) \/ ReadEnd(u) \/ ReadError(u)
    <2>1. UNCHANGED <<daemon, ops, file, meta>>
        BY <1>6 DEF ReadTranscript, ReadEnd, ReadError, NotClient, audio
    <2>2. \A v \in Utterances : fate'[v] = "harmless" => fate[v] = "harmless"
        BY <1>1, <1>6 DEF ReadTranscript, ReadEnd, ReadError
    <2> QED
        BY <2>1, <2>2, HeldAside DEF Retained
<1> QED
    BY <1>2, <1>3, <1>4, <1>5, <1>6 DEF Handler, Client

\* A recording begins with a daemon that has no turn.
LEMMA RecordHeld ==
    ASSUME Inv, HeldInv, NEW u \in Voice, Record(u)
    PROVE  HeldInv'
<1>1. /\ UNCHANGED <<meta, ops, fate>> /\ daemon.pc \in {"loop", "interrupted"} /\ u \notin recorded
      /\ daemon'.u = u /\ daemon'.pc = "transcribing" /\ daemon'.batch = {} /\ ~daemon'.term
    BY DEF Record, Idle, ghost
<1>2. daemon.u = None
    BY <1>1 DEF Inv, TurnInv, CallShape
<1>3. meta[u] = "none" /\ \A o \in ops : o.u # u
    BY <1>1 DEF Inv, TurnInv, UnrecordedShape, Utterances
<1>4. \A v \in Voice \ {u} : Retained(v) => Retained(v)'
    BY DEF Record, Retained, Inv, TypeOK, Utterances
<1>5. \A v \in Voice : HeldShape(v) /\ v # None /\ fate[v] # "harmless"
    BY <1>2, VoiceConstants DEF HeldInv, HeldShape, Utterances
<1>6. ASSUME NEW v \in Voice PROVE HeldShape(v)'
    <2>1. CASE v = u
        <3>1. Pendings(v)' = {} /\ Releases(v)' = {}
            BY <1>1, <1>3, <2>1 DEF Pendings, Releases
        <3>2. ~TurnOn(daemon)'
            BY <1>1 DEF TurnOn
        <3> QED
            BY <1>1, <1>3, <1>5, <2>1, <3>1, <3>2 DEF HeldShape
    <2>2. CASE v # u
        <3>1. meta'[v] = "pending" => ~Ended(v)
            BY <1>1, <1>5 DEF HeldShape
        <3> QED
            BY <1>1, <1>4, <1>5, <2>2, <3>1, HeldOther
    <2> QED
        BY <2>1, <2>2
<1> QED
    BY <1>1, <1>6 DEF HeldInv

\* A transcript is handed over when no request for its delivery was ever sent.
LEMMA TranscriptHeld ==
    ASSUME Inv, HeldInv, Transcript
    PROVE  HeldInv'
<1>1. UNCHANGED <<file, meta, fate>> /\ daemon.pc = "transcribing"
    BY DEF Transcript, ghost
<1>2. daemon.u \in Voice /\ daemon \in Daemons
    BY <1>1, InTurn DEF Inv, TypeOK
<1>3. /\ meta[daemon.u] \notin {"pending", "terminal"}
      /\ (\A o \in ops : o.u # daemon.u) /\ (\A b \in daemon.batch : b.u # daemon.u)
    BY <1>1, <1>2 DEF Inv, TurnInv, FenceShape
<1>4. ~daemon.term /\ ~TurnOn(daemon) /\ \A v \in Voice : HeldShape(v) /\ fate[v] # "harmless"
    BY <1>1, <1>2 DEF HeldInv, HeldShape, TurnOn
<1>5. ASSUME NEW v \in Voice PROVE HeldShape(v)'
    <2>1. CASE daemon' = [Idle EXCEPT !.paused = daemon.paused] /\ UNCHANGED ops
        <3>1. daemon'.u # v /\ daemon'.batch = {}
            BY <2>1, VoiceConstants DEF Idle
        <3> QED
            BY <1>1, <1>4, <2>1, <3>1, HeldOther DEF Retained, HeldShape
    <2>2. ASSUME NEW op \in {"pending", "ambiguous"}, NEW phase \in {"handoff", "lost"}, Call(op, phase)
          PROVE  HeldShape(v)'
        <3>1. /\ daemon'.u = daemon.u /\ daemon'.pc = "calling" /\ daemon'.phase = phase
              /\ daemon'.batch = daemon.batch /\ daemon'.term = daemon.term
              /\ \A o \in ops' : o \in ops \/ (o.u = daemon.u /\ o.op = op)
            BY <1>2, <2>2, CallFacts DEF Call, Daemons
        <3>2. CASE v = daemon.u
            <4>1. Releases(v)' = {} /\ ~TurnOn(daemon)' /\ Replayable(v)' \notin daemon'.batch
                BY <1>3, <3>1, <3>2 DEF Releases, TurnOn, Replayable
            <4>2. ~Ended(v)'
                BY <1>3, <1>4, <3>1, <3>2, <4>1 DEF Ended
            <4> QED
                BY <1>1, <1>4, <3>1, <3>2, <4>1, <4>2 DEF HeldShape
        <3>3. CASE v # daemon.u
            BY <1>1, <1>4, <3>1, <3>3, HeldOther DEF Retained, HeldShape
        <3> QED
            BY <3>2, <3>3
    <2> QED
        BY <2>1, <2>2 DEF Transcript
<1> QED
    BY <1>1, <1>5 DEF HeldInv

\* What a turn does: only the delivery request of its own is new.
LEMMA TurnHeld ==
    ASSUME Inv, HeldInv, Turn \/ Conclude
    PROVE  HeldInv'
<1>1. UNCHANGED <<file, meta>> /\ daemon.pc \in {"turn", "declined", "fenced", "acted", "concluding"}
      /\ \A v \in Utterances \ {daemon.u} : fate'[v] = fate[v]
    BY InTurn DEF Turn, TerminalizeNonSideEffect, FenceSideEffect, Act, TurnEnds, Conclude, ghost, Inv, TypeOK
<1>2. daemon.u \in Voice /\ daemon \in Daemons /\ fate \in [Utterances -> Fates] /\ daemon.u \in Utterances
    BY <1>1, InTurn DEF Inv, TypeOK, Utterances
<1>3. \A b \in daemon.batch : b.u # daemon.u
    BY <1>2 DEF Inv, TurnInv, FenceShape
<1>4. \A v \in Voice : HeldShape(v) /\ (fate[v] = "harmless" => daemon.u = v)
    BY DEF HeldInv, HeldShape
<1>5. ASSUME daemon'.u \in {daemon.u, None}, daemon'.batch \subseteq daemon.batch,
             \A o \in ops' : o \in ops \/ o.u = daemon.u,
             NEW v \in Voice, v # daemon.u
      PROVE  HeldShape(v)'
    <2>1. daemon'.u # v /\ fate'[v] # "harmless"
        BY <1>1, <1>4, <1>5, VoiceConstants DEF Utterances
    <2>2. \A o \in ops' : o.u = v => \E p \in ops : p.u = v /\ p.op = o.op
        BY <1>5
    <2> QED
        BY <1>1, <1>4, <1>5, <2>1, <2>2, HeldOther DEF Retained, HeldShape
<1>0. PICK u \in Voice : u = daemon.u
    BY <1>2
<1>6. CASE Turn
    <2>1. TurnOn(daemon) /\ Retained(u) /\ Releases(u) = {}
        BY <1>0, <1>1, <1>2, <1>4, <1>6 DEF Turn, TerminalizeNonSideEffect, FenceSideEffect, Act, TurnEnds,
                                      TurnOn, HeldShape
    <2>2. /\ daemon'.u = u /\ daemon'.batch = daemon.batch /\ daemon'.term = daemon.term
          /\ TurnOn(daemon') \/ daemon'.pc = "concluding"
          /\ daemon'.pc # "transcribing"
          /\ ~(daemon'.pc = "calling" /\ daemon'.phase \in {"cleanup", "reap"})
          /\ \A o \in ops' : o \in ops \/ (o.u = u /\ o.op \in {"ambiguous", "terminal"})
        <3>1. CASE TerminalizeNonSideEffect \/ FenceSideEffect
            <4>1. PICK op \in {"terminal", "ambiguous"}, phase \in {"harmless", "fence"} : Call(op, phase)
                BY <3>1 DEF TerminalizeNonSideEffect, FenceSideEffect
            <4>2. daemon'.term = daemon.term
                BY <1>2, <4>1 DEF Call, Daemons
            <4> QED
                BY <1>0, <4>1, <4>2, CallFacts DEF TurnOn
        <3>2. CASE Act \/ TurnEnds
            BY <1>0, <1>2, <3>2 DEF Act, TurnEnds, TurnFailed, ghost, TurnOn, Daemons
        <3> QED
            BY <1>0, <1>6, <3>1, <3>2 DEF Turn
    <2>3. HeldShape(u)'
        <3>1. \A o \in ops' : o.u = u => (\E p \in ops : p.u = u /\ p.op = o.op) \/ o.op \in {"ambiguous", "terminal"}
            BY <2>2
        <3>2. \A b \in daemon'.batch : b.u # u
            BY <1>0, <1>3, <2>2
        <3>3. (meta'[u] = "pending" => ~Ended(u)) /\ (daemon'.term => Ended(u))
            BY <1>0, <1>1, <1>2, <1>4, <2>2 DEF HeldShape, Ended
        <3>4. Retained(u)'
            BY <1>0, <1>1, <2>1 DEF Retained
        <3> QED
            BY <1>0, <1>2, <1>4, <2>1, <2>2, <3>1, <3>2, <3>3, <3>4, HeldOwn
    <2> QED
        BY <1>0, <1>1, <1>2, <1>5, <2>2, <2>3 DEF HeldInv
<1>7. CASE Conclude
    <2>1. fate'[u] = "settled" /\ daemon.pc = "concluding"
        BY <1>0, <1>2, <1>7 DEF Conclude
    <2>2. CASE daemon' \in Over(daemon) /\ UNCHANGED ops
        <3>1. daemon'.u = None /\ daemon'.batch \subseteq daemon.batch
            BY <1>0, <1>2, <2>2, OverFacts
        <3>2. daemon'.u # u /\ fate'[u] # "harmless"
            BY <1>0, <1>2, <2>1, <3>1, VoiceConstants
        <3>3. HeldShape(u)'
            BY <1>0, <1>1, <1>2, <1>4, <2>2, <3>1, <3>2, HeldOther DEF Retained, HeldShape
        <3> QED
            BY <1>0, <1>1, <1>2, <1>5, <2>2, <3>1, <3>3 DEF HeldInv
    <2>3. ASSUME NEW op, NEW phase, Call(op, phase),
                 \/ op = "release" /\ phase = "cleanup" /\ daemon.term
                 \/ op = "terminal" /\ phase = "final"
          PROVE  HeldInv'
        <3>1. /\ daemon'.u = u /\ daemon'.pc = "calling" /\ daemon'.phase = phase
              /\ daemon'.batch = daemon.batch /\ daemon'.term = daemon.term
              /\ \A o \in ops' : o \in ops \/ (o.u = u /\ o.op = op)
            BY <1>0, <1>2, <2>3, CallFacts DEF Call, Daemons
        <3>2. daemon.term => Ended(u)
            BY <1>0 DEF Ended
        <3>3. ~TurnOn(daemon')
            BY <2>3, <3>1 DEF TurnOn
        <3>4. \A o \in ops' : o.u = u => \/ \E p \in ops : p.u = u /\ p.op = o.op
                                         \/ o.op \in {"ambiguous", "terminal"}
                                         \/ o.op = "release" /\ Ended(u)
            BY <2>3, <3>1, <3>2
        <3>5. meta'[u] = "pending" => ~Ended(u)
            BY <1>0, <1>1, <1>2, <1>4 DEF HeldShape
        <3>6. \A b \in daemon'.batch : b.u # u
            BY <1>0, <1>3, <3>1
        <3>7. Retained(u) => Retained(u)'
            BY <1>0, <1>1 DEF Retained
        <3>8. HeldShape(u)'
            BY <1>0, <1>2, <1>4, <2>1, <2>3, <3>1, <3>2, <3>3, <3>4, <3>5, <3>6, <3>7, HeldOwn
        <3> QED
            BY <1>0, <1>1, <1>2, <1>5, <3>1, <3>8 DEF HeldInv
    <2> QED
        BY <1>0, <1>7, <2>2, <2>3 DEF Conclude
<1> QED
    BY <1>6, <1>7

\* What an answer, or none, makes of a turn: it runs on when the handoff was answered or the
\* fence failed, and is over only when the server called it terminal.
LEMMA AfterHeld ==
    ASSUME Inv, daemon.pc = "calling", NEW ok \in BOOLEAN, NEW d \in After(ok)
    PROVE  /\ d.u \in {daemon.u, None} /\ d.batch \subseteq daemon.batch
           /\ d.pc \notin {"transcribing", "calling"}
           /\ d.u = daemon.u /\ TurnOn(d) => daemon.phase = "fence" \/ (daemon.phase = "handoff" /\ ok)
           /\ d.u = daemon.u /\ d.term => daemon.term \/ (daemon.phase \in {"harmless", "final"} /\ ok)
           /\ daemon.phase \in {"fence", "harmless"} =>
                d.u = daemon.u /\ (TurnOn(d) \/ d.pc = "concluding")
<1>1. daemon \in Daemons /\ daemon.phase \in Phases \ {"none"} /\ daemon.u # None
    BY DEF Inv, TypeOK, TurnInv, CallShape, Daemons
<1>2. AfterFacts(d, ok)
    BY AfterShape
<1>3. d.u \in {daemon.u, None} /\ d.batch \subseteq daemon.batch /\ d.pc \notin {"transcribing", "calling"}
    BY <1>1, <1>2 DEF AfterFacts
<1>4. CASE daemon.phase \in {"handoff", "lost"}
    <2>1. Evidence(daemon).pc = "concluding" /\ Evidence(daemon).term = daemon.term
        BY <1>1 DEF Evidence, TurnFailed, Daemons
    <2>2. d = Evidence(daemon) \/ (daemon.phase = "handoff" /\ ok /\ d = [daemon EXCEPT !.pc = "turn"])
        BY <1>4 DEF After
    <2>3. [daemon EXCEPT !.pc = "turn"].term = daemon.term
        BY <1>1 DEF Daemons
    <2> QED
        BY <1>3, <1>4, <2>1, <2>2, <2>3 DEF TurnOn
<1>5. CASE daemon.phase = "fence"
    <2> DEFINE e == [daemon EXCEPT !.preserve = TRUE, !.paused = TRUE]
    <2>1. e \in Daemons /\ e.term = daemon.term /\ e.u = daemon.u
        BY <1>1 DEF Daemons
    <2>2. \/ d = [e EXCEPT !.pc = "fenced", !.amb = TRUE]
          \/ d = [e EXCEPT !.pc = "concluding", !.failed = TRUE]
          \/ d = [e EXCEPT !.pc = "declined"]
        BY <1>5 DEF After, Unfenced, TurnFailed
    <2> HIDE DEF e
    <2>3. d.pc \in {"fenced", "declined", "concluding"} /\ d.term = daemon.term /\ d.u = daemon.u
        BY <2>1, <2>2 DEF Daemons
    <2> QED
        BY <1>3, <1>5, <2>3 DEF TurnOn
<1>6. CASE daemon.phase = "harmless"
    <2>1. \/ ok /\ d \in {[[daemon EXCEPT !.term = TRUE, !.preserve = FALSE] EXCEPT !.pc = "concluding"],
                          TurnFailed([daemon EXCEPT !.term = TRUE, !.preserve = FALSE])}
          \/ d = Evidence(daemon)
        BY <1>6 DEF After
    <2>2. d.pc = "concluding" /\ d.u = daemon.u /\ (d.term => daemon.term \/ ok)
        BY <1>1, <2>1 DEF TurnFailed, Evidence, Daemons
    <2> QED
        BY <1>3, <1>6, <2>2 DEF TurnOn
<1>7. CASE daemon.phase = "final"
    <2>1. \/ ok /\ d = [daemon EXCEPT !.term = TRUE, !.pc = "concluding"]
          \/ d \in Over([daemon EXCEPT !.paused = TRUE])
        BY <1>7 DEF After
    <2>2. [daemon EXCEPT !.paused = TRUE] \in Daemons
        BY <1>1 DEF Daemons
    <2>3. (ok /\ d.pc = "concluding") \/ d.u = None
        BY <1>1, <2>1, <2>2, OverFacts DEF Daemons
    <2> QED
        BY <1>1, <1>3, <1>7, <2>3 DEF TurnOn
<1>8. CASE daemon.phase \in {"cleanup", "reap"}
    <2>1. d \in Over([daemon EXCEPT !.paused = ~ok])
          \/ d = [Idle EXCEPT !.paused = ~ok, !.batch = IF ok THEN daemon.batch ELSE {}]
        BY <1>8 DEF After
    <2>2. [daemon EXCEPT !.paused = ~ok] \in Daemons
        BY <1>1 DEF Daemons
    <2>3. d.u = None
        BY <2>1, <2>2, OverFacts DEF Idle
    <2> QED
        BY <1>1, <1>3, <1>8, <2>3
<1> QED
    BY <1>1, <1>4, <1>5, <1>6, <1>7, <1>8 DEF Phases

\* The daemon gets its answer, or none.
LEMMA AnswerHeld ==
    ASSUME Inv, HeldInv, daemon.pc = "calling", NEW ok \in BOOLEAN, daemon' \in After(ok),
           UNCHANGED fate, NEW u \in Voice,
           \A o \in ops' : o.u = u => \E p \in ops : p.u = u /\ p.op = o.op,
           meta'[u] = "pending" => ~Ended(u),
           Retained(u) /\ Releases(u) = {} => Retained(u)',
           daemon.u = u /\ daemon.phase = "handoff" /\ ok => Retained(u)' /\ Releases(u)' = {},
           daemon.u = u /\ daemon.phase \in {"harmless", "final"} /\ ok =>
              meta'[u] # "pending" /\ Pendings(u)' = {}
    PROVE  HeldShape(u)'
<1>1. /\ daemon'.u \in {daemon.u, None} /\ daemon'.batch \subseteq daemon.batch
      /\ daemon'.pc \notin {"transcribing", "calling"}
      /\ daemon'.u = daemon.u /\ TurnOn(daemon') => daemon.phase = "fence" \/ (daemon.phase = "handoff" /\ ok)
      /\ daemon'.u = daemon.u /\ daemon'.term => daemon.term \/ (daemon.phase \in {"harmless", "final"} /\ ok)
      /\ daemon.phase \in {"fence", "harmless"} =>
           daemon'.u = daemon.u /\ (TurnOn(daemon') \/ daemon'.pc = "concluding")
    BY AfterHeld
<1>2. HeldShape(u) /\ FenceShape(u) /\ u # None
    BY VoiceConstants DEF HeldInv, Inv, TurnInv
<1>3. fate'[u] = "harmless" => /\ daemon.u = u /\ TurnOn(daemon)
                               /\ daemon'.u = u /\ (TurnOn(daemon') \/ daemon'.pc = "concluding")
    BY <1>1, <1>2 DEF HeldShape, TurnOn
<1>4. CASE daemon'.u # u
    BY <1>1, <1>2, <1>3, <1>4, HeldOther
<1>5. CASE daemon'.u = u
    <2>1. daemon.u = u
        BY <1>1, <1>2, <1>5
    <2>2. \A b \in daemon'.batch : b.u # u
        BY <1>1, <1>2, <2>1 DEF FenceShape
    <2>3. daemon'.term => Ended(u) \/ (meta'[u] # "pending" /\ Pendings(u)' = {})
        BY <1>1, <1>5, <2>1 DEF Ended
    <2>4. TurnOn(daemon') => TurnOn(daemon) \/ (Retained(u)' /\ Releases(u)' = {})
        BY <1>1, <1>5, <2>1 DEF TurnOn
    <2> QED
        BY <1>1, <1>2, <1>3, <1>5, <2>1, <2>2, <2>3, <2>4, HeldOwn
<1> QED
    BY <1>4, <1>5

\* No answer: the requests under way stay what they are.
LEMMA CallFailsHeld ==
    ASSUME Inv, HeldInv, CallFails
    PROVE  HeldInv'
<1>1. UNCHANGED <<file, meta, fate>> /\ daemon.pc = "calling" /\ daemon' \in After(FALSE)
    BY DEF CallFails, NotDaemon, ghost
<1>2. \A o \in ops' : \E p \in ops : p.u = o.u /\ p.op = o.op
    <2>1. ASSUME NEW p \in ops
          PROVE  [p EXCEPT !.late = TRUE].u = p.u /\ [p EXCEPT !.late = TRUE].op = p.op
        BY DEF Inv, TypeOK, Ops
    <2>2. ASSUME NEW o \in ops' PROVE o \in ops \/ \E p \in ops : o = [p EXCEPT !.late = TRUE]
        BY DEF CallFails
    <2> QED
        BY <2>1, <2>2
<1>3. ASSUME NEW u \in Voice PROVE HeldShape(u)'
    <2>1. meta'[u] = "pending" => ~Ended(u)
        BY <1>1 DEF HeldInv, HeldShape
    <2>2. Retained(u) => Retained(u)'
        BY <1>1 DEF Retained
    <2>3. \A o \in ops' : o.u = u => \E p \in ops : p.u = u /\ p.op = o.op
        BY <1>2
    <2> QED
        BY <1>1, <2>1, <2>2, <2>3, AnswerHeld
<1> QED
    BY <1>1, <1>3 DEF HeldInv

\* A request that ends for a daemon that waits, or for nobody.  Only a request to make a
\* delivery pending does so, and one that is answered with success finds the delivery.
LEMMA FinishHeld ==
    ASSUME Inv, HeldInv, NEW o \in ops, NEW ok \in BOOLEAN, Finish(o, ok), UNCHANGED fate,
           \A u \in Voice : /\ meta'[u] = "pending" => meta[u] = "pending" \/ (u = o.u /\ o.op = "pending")
                            /\ Retained(u) /\ Releases(u) = {} => Retained(u)',
           ok /\ o.op = "pending" => Retained(o.u)',
           ok /\ o.op = "terminal" => meta'[o.u] = "terminal"
    PROVE  HeldInv'
<1>1. o.u \in Voice /\ ops' = ops \ {o}
    BY DEF Finish, Inv, TypeOK, Ops
<1>2. ASSUME NEW u \in Voice PROVE HeldShape(u)'
    <2>1. HeldShape(u) /\ FenceShape(u)
        BY DEF HeldInv, Inv, TurnInv
    <2>2. \A p \in ops' : p.u = u => \E q \in ops : q.u = u /\ q.op = p.op
        BY <1>1
    <2>3. u = o.u /\ o.op = "pending" => Pendings(u) # {} /\ Releases(u) = {} /\ Releases(u)' = {}
        BY <1>1, <2>1 DEF Pendings, Releases, FenceShape
    <2>4. u = o.u /\ o.op = "terminal" => Pendings(u)' = {}
        BY <1>1, <2>1 DEF Pendings, FenceShape
    <2>5. meta'[u] = "pending" => ~Ended(u)
        BY <2>1, <2>3 DEF HeldShape
    <2>6. CASE o.late
        <3>1. UNCHANGED daemon
            BY <2>6 DEF Finish
        <3> QED
            BY <2>1, <2>2, <2>5, <3>1, HeldSame
    <2>7. CASE ~o.late
        <3>1. daemon' \in After(ok)
            BY <2>7 DEF Finish
        <3>2. daemon.pc = "calling" /\ daemon.u = o.u /\ o.op = Asked[daemon.phase]
            BY <2>7 DEF Inv, TurnInv, CallShape
        <3>3. /\ daemon.phase = "handoff" => o.op = "pending"
              /\ daemon.phase \in {"harmless", "final"} => o.op = "terminal"
            BY <3>2 DEF Asked
        <3> QED
            BY <2>2, <2>3, <2>4, <2>5, <3>1, <3>2, <3>3, AnswerHeld
    <2> QED
        BY <2>6, <2>7
<1> QED
    BY <1>2 DEF HeldInv

\* A request that goes on: a delivery is taken away by a release only.
LEMMA GoesOnHeld ==
    ASSUME Inv, HeldInv, NEW o \in ops, NEW seen, GoesOn(o, seen), UNCHANGED fate,
           \A u \in Voice : /\ meta'[u] = "pending" => meta[u] = "pending"
                            /\ Retained(u) => Retained(u)' \/ (u = o.u /\ o.op = "release")
    PROVE  HeldInv'
<1>1. UNCHANGED daemon /\ ops' = (ops \ {o}) \cup {[o EXCEPT !.seen = seen]}
    BY DEF GoesOn
<1>2. [o EXCEPT !.seen = seen].u = o.u /\ [o EXCEPT !.seen = seen].op = o.op
    BY DEF Inv, TypeOK, Ops
<1>3. ASSUME NEW u \in Voice PROVE HeldShape(u)'
    <2>1. HeldShape(u)
        BY DEF HeldInv
    <2>2. \A p \in ops' : p.u = u => \E q \in ops : q.u = u /\ q.op = p.op
        BY <1>1, <1>2
    <2>3. Releases(u) = {} => ~(u = o.u /\ o.op = "release")
        BY DEF Releases
    <2>4. meta'[u] = "pending" => ~Ended(u)
        BY <2>1 DEF HeldShape
    <2>5. Retained(u) /\ Releases(u) = {} => Retained(u)'
        BY <2>3
    <2> QED
        BY <1>1, <2>1, <2>2, <2>4, <2>5, HeldSame
<1> QED
    BY <1>3 DEF HeldInv

\* The server's thread of a delivery request.
LEMMA OperationHeld ==
    ASSUME Inv, HeldInv, NEW o \in ops, Operation(o) \/ OperationFails(o)
    PROVE  HeldInv'
<1>1. UNCHANGED fate /\ o.u \in Voice
    BY DEF Operation, LoadDelivery, WriteReplacement, WriteState, RemoveReleased, OperationFails, NotOps,
           ghost, Inv, TypeOK, Ops
<1>2. /\ file \in [Utterances -> SUBSET Places] /\ meta \in [Utterances -> States \cup {"none"}]
      /\ o.u \in Utterances
    BY <1>1 DEF Inv, TypeOK, Utterances
<1>3. CASE LoadDelivery(o)
    <2>1. CASE Retained(o.u) /\ o.op # "release" /\ meta[o.u] # "terminal"
        <3>1. GoesOn(o, "loaded") /\ UNCHANGED <<file, meta>>
            BY <1>3, <2>1 DEF LoadDelivery
        <3> QED
            BY <1>1, <3>1, GoesOnHeld DEF Retained
    <2>2. CASE Retained(o.u) /\ o.op = "release"
        <3>1. Move(o.u, "retained", "released") /\ meta' = [meta EXCEPT ![o.u] = "none"]
              /\ GoesOn(o, "renamed")
            BY <1>3, <2>2 DEF LoadDelivery
        <3>2. \A u \in Voice : /\ meta'[u] = "pending" => meta[u] = "pending"
                               /\ Retained(u) => Retained(u)' \/ u = o.u
            BY <1>2, <3>1 DEF Move, Retained
        <3> QED
            BY <1>1, <2>2, <3>1, <3>2, GoesOnHeld
    <2>3. CASE ~(Retained(o.u) /\ o.op # "release" /\ meta[o.u] # "terminal") /\ ~(Retained(o.u) /\ o.op = "release")
        <3> DEFINE ok == Retained(o.u) /\ o.op = "terminal"
        <3>1. Finish(o, ok) /\ UNCHANGED <<file, meta>>
            BY <1>3, <2>3 DEF LoadDelivery
        <3>2. ok \in BOOLEAN /\ ~(ok /\ o.op = "pending") /\ (ok => meta[o.u] = "terminal")
            BY <2>3
        <3> HIDE DEF ok
        <3> QED
            BY <1>1, <3>1, <3>2, FinishHeld DEF Retained
    <2> QED
        BY <2>1, <2>2, <2>3
<1>4. CASE WriteReplacement(o)
    <2>1. UNCHANGED <<file, meta>> /\ (GoesOn(o, "written") \/ Finish(o, FALSE))
        BY <1>4 DEF WriteReplacement
    <2> QED
        BY <1>1, <2>1, GoesOnHeld, FinishHeld DEF Retained
<1>5. CASE WriteState(o)
    <2>1. /\ Finish(o, Retained(o.u)) /\ UNCHANGED file
          /\ meta' = IF Retained(o.u) THEN [meta EXCEPT ![o.u] = o.op] ELSE meta
        BY <1>5 DEF WriteState
    <2>2. /\ \A u \in Voice : meta'[u] = "pending" => meta[u] = "pending" \/ (u = o.u /\ o.op = "pending")
          /\ Retained(o.u) /\ o.op = "terminal" => meta'[o.u] = "terminal"
        BY <1>2, <2>1
    <2>3. Retained(o.u) \in BOOLEAN /\ \A u \in Voice : Retained(u)' = Retained(u)
        BY <2>1 DEF Retained
    <2> QED
        BY <1>1, <2>1, <2>2, <2>3, FinishHeld
<1>6. CASE RemoveReleased(o)
    <2>1. /\ Finish(o, "released" \in file[o.u] /\ o.u \notin litter) /\ UNCHANGED meta
          /\ o.seen = "renamed"
        BY <1>6 DEF RemoveReleased
    <2>2. o.op = "release"
        BY <2>1 DEF Inv, TurnInv, CallShape
    <2>3. \A u \in Voice : Retained(u) => Retained(u)'
        BY <1>2, <1>6 DEF RemoveReleased, Retained
    <2>4. ("released" \in file[o.u] /\ o.u \notin litter) \in BOOLEAN
        OBVIOUS
    <2> QED
        BY <1>1, <2>1, <2>2, <2>3, <2>4, FinishHeld
<1>7. CASE OperationFails(o)
    <2>1. Finish(o, FALSE) /\ UNCHANGED <<file, meta>>
        BY <1>7 DEF OperationFails
    <2> QED
        BY <1>1, <2>1, FinishHeld DEF Retained
<1> QED
    BY <1>3, <1>4, <1>5, <1>6, <1>7 DEF Operation

\* The next delivery of a recovery: nobody releases one that is run.
LEMMA NextRetainedHeld ==
    ASSUME Inv, HeldInv, NextRetained
    PROVE  HeldInv'
<1>1. UNCHANGED <<meta, file, fate>> /\ daemon.pc = "loop" /\ daemon.u = None
    BY DEF NextRetained, NotDaemon, ghost, Inv, TurnInv, CallShape
<1>2. PICK b \in Oldest :
          \/ /\ b.state = "terminal" /\ Send(b.u, "release")
             /\ daemon' = [Recovering(b) EXCEPT !.pc = "calling", !.phase = "reap"]
          \/ b.state = "ambiguous" /\ daemon' = Idle /\ UNCHANGED ops
          \/ /\ b.state = "pending" /\ UNCHANGED ops
             /\ daemon' = [Recovering(b) EXCEPT !.pc = "turn"]
    BY DEF NextRetained
<1>3. b \in daemon.batch /\ b.u \in Voice /\ b = [u |-> b.u, state |-> b.state]
      /\ \A c \in daemon.batch : c.u = b.u => c = b
    BY DEF Oldest, Daemons, Inv, TypeOK, TurnInv, CallShape
<1>4. \A u \in Voice : HeldShape(u) /\ u # None /\ fate[u] # "harmless"
    BY <1>1, VoiceConstants DEF HeldInv, HeldShape
<1>5. /\ ~daemon'.term /\ daemon'.pc # "transcribing"
      /\ \/ daemon'.u = None /\ daemon'.batch = {} /\ UNCHANGED ops
         \/ /\ daemon'.u = b.u /\ daemon'.pc = "turn" /\ daemon'.batch = daemon.batch \ {b}
            /\ b.state = "pending" /\ UNCHANGED ops
         \/ /\ daemon'.u = b.u /\ daemon'.pc = "calling" /\ daemon'.phase = "reap"
            /\ daemon'.batch = daemon.batch \ {b} /\ b.state = "terminal"
            /\ \A o \in ops' : o \in ops \/ (o.u = b.u /\ o.op = "release")
    <2>1. CASE /\ b.state = "terminal" /\ Send(b.u, "release")
               /\ daemon' = [Recovering(b) EXCEPT !.pc = "calling", !.phase = "reap"]
        BY <2>1 DEF Recovering, Idle, Send
    <2>2. CASE b.state = "ambiguous" /\ daemon' = Idle /\ UNCHANGED ops
        BY <2>2 DEF Idle
    <2>3. CASE /\ b.state = "pending" /\ UNCHANGED ops
               /\ daemon' = [Recovering(b) EXCEPT !.pc = "turn"]
        BY <2>3 DEF Recovering, Idle
    <2> QED
        BY <1>2, <2>1, <2>2, <2>3
<1>6. ASSUME NEW u \in Voice PROVE HeldShape(u)'
    <2>1. HeldShape(u) /\ u # None /\ fate'[u] # "harmless" /\ (meta'[u] = "pending" => ~Ended(u))
          /\ Retained(u)' = Retained(u)
        BY <1>1, <1>4 DEF HeldShape, Retained
    <2>2. CASE daemon'.u # u
        <3>1. daemon'.batch \subseteq daemon.batch
            BY <1>5
        <3>2. \A o \in ops' : o.u = u => \E p \in ops : p.u = u /\ p.op = o.op
            BY <1>5, <2>1, <2>2
        <3> QED
            BY <2>1, <2>2, <3>1, <3>2, HeldOther
    <2>3. CASE daemon'.u = u
        <3>1. u = b.u /\ daemon'.batch = daemon.batch \ {b}
            BY <1>5, <2>1, <2>3
        <3>2. Replayable(u)' \notin daemon'.batch /\ [u |-> u, state |-> "terminal"] \notin daemon'.batch
            BY <1>3, <3>1 DEF Replayable
        <3>3. CASE daemon'.pc = "turn" /\ b.state = "pending" /\ UNCHANGED ops
            <4>1. Replayable(u) \in daemon.batch
                BY <1>3, <3>1, <3>3 DEF Replayable
            <4>2. Retained(u) /\ ~Ended(u)
                BY <2>1, <4>1 DEF HeldShape
            <4>3. Releases(u)' = {} /\ ~Ended(u)'
                BY <1>5, <3>2, <3>3, <4>2 DEF Ended, Releases
            <4> QED
                BY <2>1, <3>2, <3>3, <4>2, <4>3 DEF HeldShape
        <3>4. CASE /\ daemon'.pc = "calling" /\ daemon'.phase = "reap" /\ b.state = "terminal"
                   /\ \A o \in ops' : o \in ops \/ (o.u = b.u /\ o.op = "release")
            <4>1. Ended(u)
                BY <1>3, <3>1, <3>4 DEF Ended
            <4>2. meta[u] # "pending" /\ Pendings(u) = {}
                BY <2>1, <4>1 DEF HeldShape
            <4>3. Pendings(u)' = {} /\ ~TurnOn(daemon)'
                BY <3>4, <4>2 DEF Pendings, TurnOn
            <4> QED
                BY <1>1, <2>1, <3>2, <3>4, <4>2, <4>3 DEF HeldShape
        <3> QED
            BY <1>5, <2>1, <2>3, <3>3, <3>4
    <2> QED
        BY <2>2, <2>3
<1> QED
    BY <1>1, <1>6 DEF HeldInv

\* A recovery reports a delivery as it is; the one that it calls pending is there.
LEMMA RetryRetainedRecoveryHeld ==
    ASSUME Inv, HeldInv, RetryRetainedRecovery
    PROVE  HeldInv'
<1>1. UNCHANGED <<fate, meta, ops>> /\ daemon.pc = "loop" /\ daemon.u = None
      /\ \E left \in SUBSET Released : file' = Published(left)
    BY DEF RetryRetainedRecovery, NotDaemon, ghost, Inv, TurnInv, CallShape
<1>2. ASSUME NEW u \in Utterances
      PROVE  /\ "hidden" \in file[u] => file'[u] = (file[u] \ {"hidden"}) \cup {"retained"}
             /\ "hidden" \notin file[u] => file'[u] \in {file[u], file[u] \ {"released"}}
    BY <1>1 DEF Published
<1>3. \A u \in Voice : file[u] \cap {"hidden", "retained"} # {} => Retained(u)'
    BY <1>2 DEF Retained, Utterances
<1>4. CASE daemon' = daemon
    BY <1>1, <1>3, <1>4, HeldAside DEF Retained
<1>5. CASE daemon' = [Idle EXCEPT !.paused = FALSE, !.batch = Reported]
    <2>1. daemon'.u = None /\ daemon'.pc = "loop" /\ daemon'.batch = Reported
        BY <1>5 DEF Idle
    <2>2. ASSUME NEW u \in Voice PROVE HeldShape(u)'
        <3>1. HeldShape(u) /\ FenceShape(u) /\ u # None
            BY VoiceConstants DEF HeldInv, Inv, TurnInv
        <3>2. ASSUME NEW state, [u |-> u, state |-> state] \in Reported
              PROVE  state = meta[u] /\ Retained(u)'
            <4>1. PICK v \in Voice : /\ file[v] \cap {"hidden", "retained"} # {}
                                     /\ [u |-> u, state |-> state] = [u |-> v, state |-> meta[v]]
                BY <3>2 DEF Reported
            <4> QED
                BY <1>3, <4>1
        <3>3. Pendings(u)' = Pendings(u) /\ Releases(u)' = Releases(u) /\ Replayable(u)' = Replayable(u)
            BY <1>1 DEF Pendings, Releases, Replayable
        <3>4. ASSUME Ended(u)' PROVE meta[u] # "pending" /\ Pendings(u) = {}
            <4>1. CASE Releases(u) # {}
                BY <3>1, <4>1 DEF HeldShape, Ended
            <4>2. CASE [u |-> u, state |-> "terminal"] \in Reported
                BY <3>1, <3>2, <4>2 DEF FenceShape
            <4> QED
                BY <2>1, <3>1, <3>3, <3>4, <4>1, <4>2 DEF Ended
        <3>5. Replayable(u) \in Reported => meta[u] = "pending" /\ Retained(u)'
            BY <3>2 DEF Replayable
        <3>6. fate[u] # "harmless"
            BY <1>1, <3>1 DEF HeldShape
        <3> QED
            BY <1>1, <2>1, <3>1, <3>3, <3>4, <3>5, <3>6 DEF HeldShape
    <2> QED
        BY <1>1, <2>2 DEF HeldInv
<1> QED
    BY <1>4, <1>5 DEF RetryRetainedRecovery

\* A daemon that has no turn any more holds nothing; the turn of one that died is unanswered.
LEMMA IdleHeld ==
    ASSUME Inv, HeldInv, NothingMoreSaid \/ DaemonCrash
    PROVE  HeldInv'
<1>1. UNCHANGED <<meta, file>> /\ daemon'.u = None /\ daemon'.batch = {}
    BY DEF NothingMoreSaid, DaemonCrash, Idle
<1>2. \A o \in ops' : \E p \in ops : p.u = o.u /\ p.op = o.op
    BY DEF NothingMoreSaid, DaemonCrash, Inv, TypeOK, Ops
<1>3. \A u \in Utterances : fate'[u] # "harmless"
    <2>1. \A u \in Utterances : fate[u] = "harmless" => u = daemon.u /\ daemon.u # None
        BY VoiceConstants DEF HeldInv, HeldShape
    <2>2. CASE NothingMoreSaid
        BY <2>1, <2>2 DEF NothingMoreSaid, ghost, Inv, TurnInv, CallShape
    <2>3. CASE DaemonCrash
        BY <2>1, <2>3 DEF DaemonCrash
    <2> QED
        BY <2>2, <2>3
<1>4. ASSUME NEW u \in Voice PROVE HeldShape(u)'
    <2>1. HeldShape(u) /\ u # None /\ fate'[u] # "harmless"
        BY <1>3, VoiceConstants DEF HeldInv, Utterances
    <2>2. meta'[u] = "pending" => ~Ended(u)
        BY <1>1, <2>1 DEF HeldShape
    <2>3. \A o \in ops' : o.u = u => \E p \in ops : p.u = u /\ p.op = o.op
        BY <1>2
    <2> QED
        BY <1>1, <2>1, <2>2, <2>3, HeldOther DEF Retained
<1> QED
    BY <1>3, <1>4 DEF HeldInv

\* Every step keeps the deliveries of harmless turns.
LEMMA NextHeld == Inv /\ HeldInv /\ [Next]_vars => HeldInv'
<1> SUFFICES ASSUME Inv, HeldInv, [Next]_vars PROVE HeldInv'
    OBVIOUS
<1>1. ASSUME NEW u \in Utterances,
             \/ Handler(u) \/ TranscriptionFails(u) \/ CommitFails(u) \/ RestoreQuarantines(u)
             \/ RestoreFails(u) \/ RollbackFails(u) \/ Dictate(u) \/ Client(u) \/ ClientTimeout(u)
      PROVE  HeldInv'
    BY <1>1, AsideHeld
<1>2. ASSUME NEW u \in Voice, Record(u) PROVE HeldInv'
    BY <1>2, RecordHeld
<1>3. ASSUME NEW o \in ops, Operation(o) \/ OperationFails(o) PROVE HeldInv'
    BY <1>3, OperationHeld
<1>4. ASSUME Daemon \/ DaemonCrash PROVE HeldInv'
    BY <1>4, TranscriptHeld, TurnHeld, CallFailsHeld, NextRetainedHeld, RetryRetainedRecoveryHeld, IdleHeld
    DEF Daemon
<1>5. ASSUME Recover PROVE HeldInv'
    <2>1. CASE ServerReady
        <3>1. UNCHANGED <<daemon, ops, meta, file, fate>>
            BY <2>1 DEF ServerReady, audio, ghost
        <3> QED
            BY <3>1, HeldAside DEF Retained
    <2> QED
        BY <1>5, <2>1, AsideHeld DEF Recover
<1>6. ASSUME ServerCrash PROVE HeldInv'
    <2>1. UNCHANGED <<daemon, meta, file, fate>> /\ ops' = {}
        BY <1>6 DEF ServerCrash, ghost
    <2>2. ASSUME NEW u \in Voice PROVE HeldShape(u)'
        <3>1. HeldShape(u) /\ (meta'[u] = "pending" => ~Ended(u))
            BY <2>1 DEF HeldInv, HeldShape
        <3> QED
            BY <2>1, <3>1, HeldSame DEF Retained
    <2> QED
        BY <2>1, <2>2 DEF HeldInv
<1>7. ASSUME UNCHANGED vars PROVE HeldInv'
    <2>1. UNCHANGED <<daemon, ops, meta, file, fate>>
        BY <1>7 DEF vars, audio, ghost
    <2> QED
        BY <2>1, HeldAside DEF Retained
<1> QED
    BY <1>1, <1>2, <1>3, <1>4, <1>5, <1>6, <1>7 DEF Next

\* Audio is given up only for an utterance whose text, answer or failure its user has, or for a
\* turn without side effect whose daemon died before it answered: for any number of utterances,
\* crashes of either process between any two file operations, clients that hang up and requests
\* that come late (_restore_claim_locked, _release_retained_delivery).
THEOREM NoAudioLost == Spec => []AudioNeverLost
<1>1. Init => KeptInv /\ HeldInv
    BY InitKept, InitHeld
<1>2. Inv /\ KeptInv /\ HeldInv /\ [Next]_vars => (KeptInv /\ HeldInv)'
    BY NextKept, NextHeld
<1>3. Spec => [](KeptInv /\ HeldInv)
    BY <1>1, <1>2, InvAlways, PTL DEF Spec
<1>4. Inv /\ KeptInv /\ HeldInv => AudioNeverLost
    <2> SUFFICES ASSUME Inv, KeptInv, HeldInv, NEW u \in recorded,
                        file[u] \subseteq {"delivered", "released"}
                 PROVE  fate[u] \in {"settled", "unanswered"}
        BY DEF AudioNeverLost
    <2>1. u \in Utterances /\ fate[u] \in Fates
        BY DEF Inv, TypeOK
    <2>2. fate[u] # "open"
        BY <2>1 DEF KeptInv, LossTells
    <2>3. fate[u] # "harmless"
        BY <2>1 DEF HeldInv, HeldShape, Retained, Utterances
    <2> QED
        BY <2>1, <2>2, <2>3 DEF Fates
<1> QED
    BY <1>3, <1>4, InvAlways, PTL

=============================================================================
