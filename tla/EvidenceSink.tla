---------------------------- MODULE EvidenceSink ----------------------------
(***************************************************************************)
(* The sinks that record a run's evidence in an event stream, from the     *)
(* calls of the simulation to what a later reader may conclude.            *)
(*                                                                         *)
(*   "checkpoint"  multivenue's checkpointSink over binaryEvidence: typed  *)
(*                 payloads, substitutes for those that cannot be encoded, *)
(*                 a buffered file, checkpoints of the digest, and the     *)
(*                 attestation closeEvidence publishes;                    *)
(*   "repeated"    experiment/repeatedspot's Recorder;                     *)
(*   "pilot"       experiment/executionpilot's Recorder.                   *)
(*                                                                         *)
(* Every sink serialises its callers with a mutex, so a call is one step.  *)
(* What another process sees of the file while a call runs, and what a     *)
(* crash leaves of it, is any prefix of the file not shorter than stable,  *)
(* the cells known to have left every buffer.  After the process stops the *)
(* stored file may lose, repeat or alter parts.                            *)
(***************************************************************************)
EXTENDS EventStream

CONSTANTS
    Scenarios,      \* [kind, codec, calls, rooms, zips, aux, faults, queries, interval, final, readers]
    MaxCalls,       \* bound on Record calls
    Unlimited       \* a room no call can fill

VARIABLES
    env,        \* the scenario, chosen once
    writer,     \* the evstream.Writer
    file,       \* the cells the writer's output accepted
    stable,     \* how many of them are certainly in the file
    sink,       \* the state of the sink
    offered,    \* the Record calls made before the sink was finished
    sidecar,    \* the persisted index: a count and the descriptors that landed
    up,         \* the recording process runs
    faults,     \* storage faults so far
    reading     \* the outcome of a read; reading changes nothing else, so nothing follows it

vars == <<env, writer, file, stable, sink, offered, sidecar, up, faults, reading>>

NoReading == [by |-> "none"]
NoIdentity == [issued |-> FALSE]

NewSink ==
    [err |-> Ok, failed |-> FALSE, closed |-> FALSE, events |-> 0, unencodable |-> 0,
     identity |-> NoIdentity, sequences |-> <<>>,
     first |-> TRUE, nextBound |-> 0, lastSimTime |-> 0, lastCheckpointAt |-> 0,
     observed |-> 0, checkpoints |-> <<>>]

\* Every step but a read.
Unread == reading = NoReading /\ UNCHANGED reading

Init ==
    /\ env \in Scenarios
    /\ writer = NewWriter(env.codec)
    /\ file = <<>> /\ stable = 0
    /\ sink = NewSink
    /\ offered = <<>>
    /\ sidecar = [count |-> 0, body |-> <<>>]
    /\ up = TRUE /\ faults = 0
    /\ reading = NoReading

(***************************************************************************)
(* binaryEvidence.                                                         *)
(***************************************************************************)
\* An optional string: reference zero when absent, without touching the writer.
InternOptional(c, str) == IF str = "" THEN [c EXCEPT !.ret = Ok, !.id = 0] ELSE Intern(c, str)

\* recordFrame once the envelope's strings are interned: the typed payload, or the
\* opaque substitute for one that does not marshal or whose encoding fails.
AppendEnvelope(c, b, e, refs, venue) ==
    LET Frame(schema, body) ==
            [NoFrame EXCEPT !.ts = e.ts, !.client = e.client, !.ref = venue,
                            !.schema = schema, !.body = body]
        Opaque(t) == AppendInterning(t, Frame(SchemaOpaqueJSON, "unencodable"), refs, <<>>)
        Recorded(t, substituted) ==
            [call |-> t,
             b |-> IF t.ret # Ok THEN [b EXCEPT !.err = t.ret]
                   ELSE [b EXCEPT !.events = @ + 1,
                                  !.unencodable = IF substituted THEN @ + 1 ELSE @]]
        Retried(t) == IF t.ret = Ok \/ e.required THEN Recorded(t, ~e.marshals)
                      ELSE Recorded(Opaque(t), TRUE)
    IN  Retried(IF e.marshals THEN AppendInterning(c, Frame(e.schema, e.body), refs, e.names)
                ELSE Opaque(c))

recordFrame(c, b, e) ==
    LET Fails(t) == [call |-> t, b |-> [b EXCEPT !.err = t.ret]]
        Routed(ro, event, venue) ==
            IF ro.ret # Ok THEN Fails(ro)
            ELSE AppendEnvelope(ro, b, e, <<ro.id, event>>, venue)
        Placed(ve, event) ==
            IF ve.ret # Ok THEN Fails(ve) ELSE Routed(InternOptional(ve, e.route), event, ve.id)
        Named(ev) ==
            IF ev.ret # Ok THEN Fails(ev) ELSE Placed(InternOptional(ev, e.venue), ev.id)
    IN  IF b.err # Ok THEN [call |-> Returns(c, b.err), b |-> b]
        ELSE IF ~e.marshals /\ e.required THEN Fails(Returns(c, "marshal"))
        ELSE Named(Intern(c, e.event))


shouldWriteScheduledCheckpoint(b, ts) ==
    /\ env.interval > 0 /\ ts >= b.nextBound
    /\ env.final <= 0 \/ b.nextBound < env.final

\* works says whether the line reaches the checkpoint file.
writeCheckpoint(b, at, w, works) ==
    IF env.interval = 0 \/ at <= b.lastCheckpointAt \/ b.failed THEN b
    ELSE IF ~works THEN [b EXCEPT !.failed = TRUE]
    ELSE [b EXCEPT !.lastCheckpointAt = at,
                   !.checkpoints = Append(@, [at |-> at, events |-> b.observed, digest |-> w.hashed])]

observeCompletedBinaryRecord(b, ts, w, works) ==
    LET bound == (ts - (ts % env.interval)) + env.interval
        n == [b EXCEPT !.lastSimTime = ts, !.observed = @ + 1]
        s == IF n.first /\ env.interval > 0 THEN [n EXCEPT !.nextBound = bound, !.first = FALSE] ELSE n
    IN  IF shouldWriteScheduledCheckpoint(s, ts)
        THEN [writeCheckpoint(s, s.nextBound, w, works) EXCEPT !.nextBound = bound]
        ELSE s

\* observe and, for a required event, observeRequiredCanonicalEvent.
ObserveCheckpoint(c, e, works) ==
    LET Sequenced(o, seq) ==
            IF e.required /\ ~o.failed
            THEN [o EXCEPT !.sequences = Append(@, <<Len(offered) + 1, seq>>)] ELSE o
        Observed(r) ==
            [call |-> r.call,
             b |-> IF r.call.ret # Ok THEN [r.b EXCEPT !.failed = TRUE]
                   ELSE IF sink.closed THEN [r.b EXCEPT !.failed = @ \/ e.required]
                   ELSE Sequenced(observeCompletedBinaryRecord(r.b, e.ts, r.call.w, works),
                                  r.call.w.seq)]
    IN  IF e.required /\ (sink.closed \/ sink.failed \/ e.route = "")
        THEN [call |-> Returns(c, "refused"), b |-> sink]
        ELSE Observed(recordFrame(c, sink, e))

\* The frame both experiments' recorders append: an opaque envelope, nothing interned.
AppendOpaque(c, e) ==
    AppendInterning(c, [NoFrame EXCEPT !.ts = e.ts, !.client = e.client,
                                       !.schema = SchemaOpaqueJSON, !.body = e.body],
                    <<>>, <<>>)

Silenced(err) == [sink EXCEPT !.err = err]

\* Mutant: an append that fails is not remembered.
RecordRepeatedForgets(c, e) ==
    IF sink.err # Ok \/ sink.closed THEN [call |-> Returns(c, Ok), b |-> sink]
    ELSE IF ~e.complete \/ ~e.marshals THEN [call |-> Returns(c, Ok), b |-> Silenced("incomplete")]
    ELSE [call |-> AppendOpaque(c, e), b |-> sink]

\* repeatedspot's Record: the first error silences the recorder.
RecordRepeated(c, e) ==
    LET Kept(a) == [call |-> a, b |-> IF a.ret # Ok THEN Silenced(a.ret) ELSE sink]
    IN  IF sink.err # Ok \/ sink.closed THEN [call |-> Returns(c, Ok), b |-> sink]
        ELSE IF ~e.complete THEN [call |-> Returns(c, Ok), b |-> Silenced("incomplete")]
        ELSE IF ~e.marshals \/ e.body = "null" THEN [call |-> Returns(c, Ok), b |-> Silenced("marshal")]
        ELSE Kept(AppendOpaque(c, e))

\* executionpilot's Record: the same, but a payload that marshals to null is recorded.
RecordPilot(c, e) ==
    LET Kept(a) == [call |-> a, b |-> IF a.ret # Ok THEN Silenced(a.ret) ELSE sink]
    IN  IF sink.err # Ok \/ sink.closed THEN [call |-> Returns(c, Ok), b |-> sink]
        ELSE IF ~e.complete THEN [call |-> Returns(c, Ok), b |-> Silenced("incomplete")]
        ELSE IF ~e.marshals THEN [call |-> Returns(c, Ok), b |-> Silenced("marshal")]
        ELSE Kept(AppendOpaque(c, e))

\* What a call leaves behind.
Leaves(r) ==
    /\ writer' = r.call.w
    /\ file' = r.call.out
    /\ sink' = r.b

Record(e) ==
    /\ up
    /\ Len(offered) < MaxCalls
    /\ \A i \in DOMAIN offered : offered[i].ts <= e.ts     \* simulated time never goes back
    /\ \E room \in env.rooms, zips \in env.zips, works \in env.aux :
         LET c == Call(writer, file, room, zips)
         IN  Leaves(CASE env.kind = "checkpoint" -> ObserveCheckpoint(c, e, works)
                      [] env.kind = "repeated" -> RecordRepeated(c, e)
                      [] env.kind = "pilot" -> RecordPilot(c, e))
    /\ offered' = IF sink.closed THEN offered ELSE Append(offered, e)
    /\ stable' = IF env.kind = "checkpoint" THEN stable ELSE Len(file)
    /\ Unread
    /\ UNCHANGED <<env, sidecar, up, faults>>

\* binaryEvidence.flush and Writer.Flush: the open block leaves for the output.
FlushSink ==
    /\ up /\ env.kind = "checkpoint" /\ sink.err = Ok
    /\ \E room \in env.rooms, zips \in env.zips :
         Leaves([call |-> Flush(Call(writer, file, room, zips)), b |-> sink])
    /\ Unread
    /\ UNCHANGED <<env, stable, offered, sidecar, up, faults>>

Identity(w, b) ==
    [issued |-> TRUE, digest |-> w.hashed, frames |-> w.seq, events |-> b.events,
     unencodable |-> b.unencodable]

\* checkpointSink.close and the attestation of closeEvidence: the stream is sealed,
\* the buffer and the file flushed and closed, the last checkpoint written.
CloseCheckpoint(c, works) ==
    LET Attested(d, n) ==
            [call |-> d, b |-> IF n.failed THEN n ELSE [n EXCEPT !.identity = Identity(d.w, n)]]
        Closed(d) ==
            Attested(d, writeCheckpoint([sink EXCEPT !.closed = TRUE,
                                                     !.failed = @ \/ d.ret # Ok \/ ~works],
                                        IF env.final = 0 THEN sink.lastSimTime ELSE env.final,
                                        d.w, works))
    IN  Closed(IF sink.err # Ok THEN Returns(c, sink.err) ELSE Close(c))

Finished(c) ==
    LET b == [sink EXCEPT !.closed = TRUE]
    IN  [call |-> c,
         b |-> IF sink.err = Ok /\ c.ret = Ok THEN [b EXCEPT !.identity = Identity(c.w, b)] ELSE b]

\* repeatedspot's Finish seals the stream even after an error, but issues no identity then.
FinishRepeated(c) == Finished(Close(c))

\* executionpilot's Finish leaves the stream of a failed recorder unsealed.
FinishPilot(c) == Finished(IF sink.err # Ok THEN c ELSE Close(c))

Finish ==
    /\ up /\ ~sink.closed
    /\ \E room \in env.rooms, zips \in env.zips, works \in env.aux :
         LET c == Call(writer, file, room, zips)
             Ends(r) ==
                 /\ Leaves(r)
                 /\ stable' = IF env.kind # "checkpoint" THEN Len(file)
                              ELSE IF works /\ r.call.ret = Ok THEN Len(r.call.out) ELSE stable
         IN  Ends(CASE env.kind = "checkpoint" -> CloseCheckpoint(c, works)
                    [] env.kind = "repeated" -> FinishRepeated(c)
                    [] env.kind = "pilot" -> FinishPilot(c))
    /\ Unread
    /\ UNCHANGED <<env, offered, sidecar, up, faults>>

\* Index.WriteTo of the block directory built so far; the write may be cut short.
WriteIndex ==
    /\ up
    /\ \E n \in 0..Len(writer.index) :
         /\ n < Len(writer.index) => FALSE \in env.aux
         /\ sidecar' = [count |-> Len(writer.index), body |-> SubSeq(writer.index, 1, n)]
    /\ Unread
    /\ UNCHANGED <<env, writer, file, stable, sink, offered, up, faults>>

(***************************************************************************)
(* The end of the process, and the stored file afterwards.                 *)
(***************************************************************************)
\* The process ends: with all its output written, or in the middle of its latest call,
\* whose result nobody then has.
Stop ==
    /\ up
    /\ \E n \in stable..Len(file) :
         /\ file' = SubSeq(file, 1, n)
         /\ sink' = IF n < Len(file) THEN [sink EXCEPT !.identity = NoIdentity] ELSE sink
         /\ stable' = n
    /\ up' = FALSE
    /\ Unread
    /\ UNCHANGED <<env, writer, offered, sidecar, faults>>

\* Where the stream header, a block or the trailer begins, and the end of the file.
Boundaries ==
    {i \in DOMAIN file : file[i].kind \in {"stream", "block", "trailer"}} \cup {Len(file) + 1}

Damaged(files) ==
    /\ ~up
    /\ faults < env.faults
    /\ faults' = faults + 1
    /\ file' \in files \ {file}
    /\ stable' = Len(file')
    /\ Unread
    /\ UNCHANGED <<env, writer, sink, offered, sidecar, up>>

\* Two different boundaries, the earlier first.
Parts == {p \in Boundaries \X Boundaries : p[1] < p[2]}

LosePart == Damaged({SubSeq(file, 1, p[1] - 1) \o SubSeq(file, p[2], Len(file)) : p \in Parts})

RepeatPart == Damaged({SubSeq(file, 1, p[2] - 1) \o SubSeq(file, p[1], Len(file)) : p \in Parts})

AlterCell ==
    Damaged({ReplaceAt(file, i, [kind |-> "junk"]) : i \in DOMAIN file}
              \cup {ReplaceAt(file, i, [file[i] EXCEPT !.count = @ + d]) :
                      i \in {k \in DOMAIN file : file[k].kind \in {"block", "trailer"}}, d \in {-1, 1}})

(***************************************************************************)
(* Readers.                                                                *)
(***************************************************************************)
\* opts.live says whether the reader opens the file while the recorder runs or after it.
ReadStream(opts) ==
    /\ opts.live = up
    /\ reading = NoReading
    /\ \E n \in stable..Len(file) :
         reading' = [by |-> "range", seen |-> n, run |-> Read(SubSeq(file, 1, n), opts)]
    /\ UNCHANGED <<env, writer, file, stable, sink, offered, sidecar, up, faults>>

\* A selective query through the persisted index, with the dictionary of a full pass.
\* ReadIndex refuses an index whose descriptors did not all land.
Query(q) ==
    /\ ~up /\ sidecar.count > 0
    /\ reading = NoReading
    /\ reading' = [by |-> "query", q |-> q, seen |-> Len(file),
                   run |-> IF Len(sidecar.body) < sidecar.count
                           THEN [ret |-> "short", visited |-> <<>>]
                           ELSE RangeSelected(file, env.codec, writer.dict, sidecar.body, q)]
    /\ UNCHANGED <<env, writer, file, stable, sink, offered, sidecar, up, faults>>

Next ==
    \/ \E e \in env.calls : Record(e)
    \/ FlushSink \/ Finish \/ WriteIndex
    \/ Stop
    \/ LosePart \/ RepeatPart \/ AlterCell
    \/ \E opts \in env.readers : ReadStream(opts)
    \/ \E q \in env.queries : Query(q)

Spec == Init /\ [][Next]_vars

(***************************************************************************)
(* Properties.                                                             *)
(***************************************************************************)
Frames == [seq : Nat, ts : Nat, schema : Nat, client : Nat, ref : Nat, refs : Seq(Nat), body : STRING]

\* The types of the writer, the sink and the latest read.
TypeOK ==
    /\ writer.frames \in Seq(Frames) /\ writer.hashed \in Seq(Frames)
    /\ writer.seq = Len(writer.hashed) /\ writer.dict \in Seq(STRING)
    /\ writer.closed \in BOOLEAN /\ writer.wroteHdr \in BOOLEAN /\ writer.offset \in Nat
    /\ Len(writer.frames) <= BlockFrames
    /\ stable \in 0..Len(file) /\ faults \in 0..env.faults /\ up \in BOOLEAN
    /\ sink.events \in Nat /\ sink.unencodable \in 0..sink.events
    /\ offered \in Seq(env.calls)
    /\ Len(sidecar.body) <= sidecar.count
    /\ reading.by \in {"none", "range", "query"}

\* What a reader that resolves every reference makes of the frames the writer hashed.
Logged(n) ==
    LET events == Events(SubSeq(writer.hashed, 1, n))
    IN  [i \in DOMAIN events |-> Visited(events[i], writer.dict)]

Ranged == reading.by = "range"

\* Whatever a crash or one or two storage faults leave of the stream, a reader hands its
\* visitor a prefix of the events that were appended, in order and with every reference
\* resolved: it stops at the damage, and never reports an event twice or one that was not written.
ReadIsPrefix ==
    Ranged => IsPrefix(reading.run.visited, Logged(writer.seq))

\* A reader that met a valid completion trailer read every event of a stream its writer
\* sealed, even when a part of the file was lost or repeated (a second fault needs VerifyHash).
TerminatedIsWhole ==
    Ranged /\ reading.run.terminated /\ (reading.run.verify \/ faults < 2)
        => writer.closed /\ reading.run.visited = Logged(writer.seq)

\* What a call must leave in the stream once its sink reports success.
Evidence(e) ==
    LET typed == e.marshals /\ \A i \in DOMAIN e.names : e.names[i] # ""
    IN  IF env.kind # "checkpoint"
        THEN [ts |-> e.ts, client |-> e.client, schema |-> SchemaOpaqueJSON, body |-> e.body,
              venue |-> "", strings |-> <<>>]
        ELSE [ts |-> e.ts, client |-> e.client,
              schema |-> IF typed THEN e.schema ELSE SchemaOpaqueJSON,
              body |-> IF typed THEN e.body ELSE "unencodable",
              venue |-> e.venue,
              strings |-> <<e.route, e.event>> \o (IF typed THEN e.names ELSE <<>>)]

\* The checks a verifier makes of a stream it read: renderers of the attestation, ...
validateBinaryAttestation(run) ==
    /\ run.ret = Ok /\ run.terminated
    /\ run.hashed = sink.identity.digest /\ run.frames = sink.identity.frames
    /\ Len(run.visited) = sink.identity.events
    /\ sink.identity.unencodable = 0

\* ... and the experiments' walkers, whose visitor refuses a null payload.
WalkEvidence(run) ==
    /\ run.ret = Ok
    /\ \A i \in DOMAIN run.visited : run.visited[i].body # "null"
    /\ sink.identity.frames # 0
    /\ run.hashed = sink.identity.digest /\ run.frames = sink.identity.frames

Verified(run) ==
    run.verify /\ IF env.kind = "checkpoint" THEN validateBinaryAttestation(run) ELSE WalkEvidence(run)

\* Evidence its own verifier refuses however well it was stored: a substituted payload, an
\* empty run, and a null payload the pilot recorded.
Refused ==
    IF env.kind = "checkpoint" THEN sink.identity.unencodable # 0
    ELSE offered = <<>> \/ \E i \in DOMAIN offered : offered[i].body = "null"

\* The sequence number returned for a required observation is the one its own frame
\* carries in the stream, whatever dictionary frames its strings put before it.
RequiredSequenceIsFrame ==
    \A i \in DOMAIN sink.sequences :
        LET call == sink.sequences[i][1]
            frame == writer.hashed[sink.sequences[i][2]]
        IN  IsEvent(frame) /\ Visited(frame, writer.dict) = Evidence(offered[call])

\* An issued identity or attestation is worth what it says.  The stored stream passes its
\* verification unless storage damaged it, and a stream that passes holds exactly one event,
\* in call order, for every Record call made before the sink was finished: no failed append,
\* encoding or write is passed over in silence, and required observations were told the
\* sequence numbers of their own frames.
AttestedIsComplete ==
    /\ RequiredSequenceIsFrame
    /\ Ranged /\ sink.identity.issued
         => /\ reading.run.verify /\ ~reading.run.allowUnterminated /\ faults = 0
                 /\ reading.seen = Len(file) /\ ~Refused => Verified(reading.run)
            /\ Verified(reading.run)
                 => reading.run.visited = [i \in DOMAIN offered |-> Evidence(offered[i])]

\* While the recorder runs without error, a reader of everything written so far that allows
\* an unterminated stream gets every event of the blocks flushed, and no error.
FlushedIsReadable ==
    Ranged /\ up /\ writer.err = Ok /\ writer.wroteHdr /\ reading.run.allowUnterminated
      /\ reading.seen = Len(file)
        => /\ reading.run.ret = Ok
           /\ reading.run.visited = Logged(writer.seq - Len(writer.frames))

\* Reading is sound in every state of the stored stream: a reader gets a prefix, a
\* trailer vouches for the whole, and what was flushed can be read while the run goes on.
ReadIsSound == TypeOK /\ ReadIsPrefix /\ TerminatedIsWhole /\ FlushedIsReadable

\* A selective query that returns no error returns exactly the matching events of the
\* blocks the index covers: skipping a block never loses an event, even with an index older
\* than the stream or a stream that a crash cut shorter than the index.
QueryIsFilter ==
    reading.by = "query" /\ faults = 0 /\ reading.run.ret = Ok
        => LET covered == SubSeq(writer.hashed, 1, sidecar.body[sidecar.count].lastSeq)
               Wanted(f) == IsEvent(f) /\ Matches(reading.q, f)
               hits == SelectSeq(covered, Wanted)
           IN  reading.run.visited = [i \in DOMAIN hits |-> Visited(hits[i], writer.dict)]

=============================================================================
