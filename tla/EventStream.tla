---------------------------- MODULE EventStream ----------------------------
(***************************************************************************)
(* Package evstream: the append-only binary event stream every run records *)
(* its evidence in.  A writer buffers frames into blocks, chains one        *)
(* digest over every frame and seals the stream with a trailer; a reader   *)
(* walks the blocks and checks them as it goes; an index of per-block      *)
(* bounds lets a query skip blocks.                                        *)
(*                                                                         *)
(* Bytes are abstracted to CELLS: a stream header and a block header are   *)
(* two cells, a trailer three, a frame one, so that a write may stop       *)
(* between or inside any of them.  A checksum or digest is the sequence of *)
(* frames it covers (no collisions).  Sizes and offsets count cells, and   *)
(* the block target counts frames.                                         *)
(***************************************************************************)
EXTENDS BlockIndex, FiniteSets, SequencesExt

CONSTANTS
    BlockFrames,    \* WriterOptions.BlockBytes, in frames
    MaxClientID     \* MaxEncodedClientID

Ok == "ok"
SchemaDictionary == 0
SchemaOpaqueJSON == 1

\* FrameHeader with its payload: refs are the dictionary ids the payload holds,
\* body what is left of it.  A dictionary frame holds the id and the string it defines.
NoFrame == [seq |-> 0, ts |-> 0, schema |-> 0, client |-> 0, ref |-> 0, refs |-> <<>>, body |-> ""]

DictionaryFrame(id, str) ==
    [NoFrame EXCEPT !.schema = SchemaDictionary, !.refs = <<id>>, !.body = str]

IsEvent(frame) == frame.schema # SchemaDictionary

Events(frames) == SelectSeq(frames, IsEvent)

(***************************************************************************)
(* Cells.                                                                  *)
(***************************************************************************)
StreamHeader(codec) == << [kind |-> "stream", codec |-> codec], [kind |-> "rest"] >>

BlockHeader(frames, stored) ==
    << [kind |-> "block", length |-> Len(frames), stored |-> Len(stored),
        count |-> Len(frames), crc |-> frames],
       [kind |-> "rest"] >>

Trailer(count, digest) ==
    << [kind |-> "trailer", count |-> count], [kind |-> "rest"], [kind |-> "digest", digest |-> digest] >>

StreamHeaderSize == 2
BlockHeaderSize == 2

Compress(codec, frames) ==
    IF codec = "none" THEN [i \in DOMAIN frames |-> [kind |-> "frame", frame |-> frames[i]]]
    ELSE << [kind |-> "packed", frames |-> frames] >>

\* The frames of stored cells; a damaged cell decodes to no frame the writer wrote.
Decompress(codec, cells) ==
    IF codec = "none"
    THEN [i \in DOMAIN cells |-> IF cells[i].kind = "frame" THEN cells[i].frame ELSE NoFrame]
    ELSE IF Len(cells) = 1 /\ cells[1].kind = "packed" THEN cells[1].frames ELSE <<NoFrame>>

(***************************************************************************)
(* The writer.  An operator takes and returns a call: the writer w, the    *)
(* cells out has accepted, the room out still has (a write beyond it is    *)
(* short and fails), whether the compressor works, the error returned and  *)
(* the id or refs interning yields.                                        *)
(***************************************************************************)
NewWriter(codec) ==
    [codec |-> codec, closed |-> FALSE, err |-> Ok, wroteHdr |-> FALSE, frames |-> <<>>,
     seq |-> 0, hashed |-> <<>>, dict |-> <<>>, offset |-> 0, stats |-> NoStats, index |-> <<>>]

Call(w, out, room, zips) ==
    [w |-> w, out |-> out, room |-> room, zips |-> zips, ret |-> Ok, id |-> 0, refs |-> <<>>]

Returns(c, err) == [c EXCEPT !.ret = err]

\* What follows a step: nothing after an error.
Then(c, Continue(_)) == IF c.ret # Ok THEN c ELSE Continue(c)

writeExact(c, data) ==
    LET n == IF Len(data) < c.room THEN Len(data) ELSE c.room
        short == n < Len(data)
    IN  [c EXCEPT !.out = @ \o SubSeq(data, 1, n), !.room = @ - n,
                  !.ret = IF short THEN "write" ELSE Ok,
                  !.w.err = IF short THEN "write" ELSE @]

ensureHeader(c) ==
    LET Written(t) == [t EXCEPT !.w.wroteHdr = TRUE, !.w.offset = @ + StreamHeaderSize]
    IN  IF c.w.wroteHdr THEN Returns(c, Ok)
        ELSE Then(writeExact(c, StreamHeader(c.w.codec)), Written)

flushBlock(c) ==
    LET frames == c.w.frames
        stored == Compress(c.w.codec, frames)
        Indexed(b) ==
            [b EXCEPT !.w.index = Append(@, descriptor(c.w.stats, c.w.offset, stored, frames)),
                      !.w.offset = @ + BlockHeaderSize + Len(stored),
                      !.w.frames = <<>>, !.w.stats = NoStats]
        Body(h) == Then(writeExact(h, stored), Indexed)
    IN  IF frames = <<>> THEN Returns(c, Ok)
        ELSE IF c.w.codec # "none" /\ ~c.zips THEN [c EXCEPT !.w.err = "compress", !.ret = "compress"]
        ELSE Then(writeExact(c, BlockHeader(frames, stored)), Body)

flushFullBlock(c) == IF Len(c.w.frames) >= BlockFrames THEN flushBlock(c) ELSE Returns(c, Ok)

buffer(c, f) ==
    flushFullBlock([c EXCEPT !.w.seq = @ + 1, !.w.frames = Append(@, f), !.w.hashed = Append(@, f),
                             !.w.stats = observe(@, f)])

appendFrame(c, frame) ==
    LET Numbered(h) == buffer(h, [frame EXCEPT !.seq = h.w.seq + 1])
    IN  IF c.w.closed THEN Returns(c, "closed")
        ELSE IF c.w.err # Ok THEN Returns(c, c.w.err)
        ELSE IF frame.client > MaxClientID THEN Returns(c, "client")
        ELSE Then(ensureHeader(c), Numbered)

\* Intern: the id is assigned before its dictionary frame is appended.
Intern(c, str) ==
    LET id == Len(c.w.dict) + 1
        Assigned(t) == [t EXCEPT !.id = id]
    IN  IF c.w.closed THEN Returns(c, "closed")
        ELSE IF c.w.err # Ok THEN Returns(c, c.w.err)
        ELSE IF str = "" THEN Returns(c, "empty")
        ELSE IF \E i \in DOMAIN c.w.dict : c.w.dict[i] = str
             THEN [c EXCEPT !.ret = Ok, !.id = CHOOSE i \in DOMAIN c.w.dict : c.w.dict[i] = str]
        ELSE Then(appendFrame([c EXCEPT !.w.dict = Append(@, str)], DictionaryFrame(id, str)),
                  Assigned)

\* AppendPayloadInterning of a payload holding these strings: it stops at the first failure.
InternAll(c, strs) ==
    LET Refer(u) == [u EXCEPT !.refs = Append(@, u.id)]
        Next(t, str) == IF t.ret # Ok THEN t ELSE Then(Intern(t, str), Refer)
    IN  FoldLeft(Next, [c EXCEPT !.ret = Ok, !.refs = <<>>], strs)

\* AppendInterning: prefix holds the refs the sink's envelope resolved beforehand.
AppendInterning(c, frame, prefix, strs) ==
    LET Framed(p) == appendFrame(p, [frame EXCEPT !.refs = prefix \o p.refs])
        Payload(h) == Then(InternAll(h, strs), Framed)
    IN  IF c.w.closed THEN Returns(c, "closed")
        ELSE IF c.w.err # Ok THEN Returns(c, c.w.err)
        ELSE IF frame.client > MaxClientID THEN Returns(c, "client")
        ELSE Then(ensureHeader(c), Payload)

Flush(c) ==
    IF c.w.closed THEN Returns(c, "closed")
    ELSE IF c.w.err # Ok THEN Returns(c, c.w.err)
    ELSE Then(ensureHeader(c), flushBlock)

Close(c) ==
    LET Sealed(t) == [t EXCEPT !.w.closed = TRUE]
        Ended(f) == Then(writeExact(f, Trailer(f.w.seq, f.w.hashed)), Sealed)
    IN  IF c.w.closed THEN Returns(c, Ok) ELSE Then(Flush(c), Ended)

(***************************************************************************)
(* The sequential reader: NewReader and Range over the cells it sees.      *)
(* visited lists the frames handed to visit with the strings the reader's  *)
(* dictionary resolves their ids to at that moment.                        *)
(***************************************************************************)
\* Dictionary.Value, with "" for an id the stream has not defined and for no reference.
Value(dict, id) == IF id \in DOMAIN dict THEN dict[id] ELSE ""

Visited(frame, dict) ==
    [ts |-> frame.ts, client |-> frame.client, schema |-> frame.schema, body |-> frame.body,
     venue |-> Value(dict, frame.ref),
     strings |-> [i \in DOMAIN frame.refs |-> Value(dict, frame.refs[i])]]

\* Dictionary.Define refuses an id out of order, an empty string and a second definition.
Defines(dict, frame) ==
    /\ frame.refs[1] = Len(dict) + 1
    /\ frame.body # ""
    /\ \A i \in DOMAIN dict : dict[i] # frame.body

\* Mutant: the reader does not look at sequence numbers.
rangeFrameUnordered(r, frame) ==
    LET n == [r EXCEPT !.lastSeq = frame.seq, !.frames = @ + 1, !.hashed = Append(@, frame)]
    IN  IF r.ret # Ok THEN r
        ELSE IF frame.schema = SchemaDictionary THEN [n EXCEPT !.dict = Append(@, frame.body)]
        ELSE [n EXCEPT !.visited = Append(@, Visited(frame, r.dict))]

\* One frame of rangeBlock; a reader that has failed stays where it is.
rangeFrame(r, frame) ==
    LET n == [r EXCEPT !.lastSeq = frame.seq, !.frames = @ + 1, !.hashed = Append(@, frame)]
    IN  IF r.ret # Ok THEN r
        ELSE IF frame.seq # r.lastSeq + 1 THEN [r EXCEPT !.ret = "sequence"]
        ELSE IF frame.schema = SchemaDictionary
             THEN IF Defines(r.dict, frame) THEN [n EXCEPT !.dict = Append(@, frame.body)]
                  ELSE [n EXCEPT !.ret = "corrupt"]
        ELSE IF frame.ref # 0 /\ frame.ref \notin DOMAIN r.dict THEN [n EXCEPT !.ret = "corrupt"]
        ELSE [n EXCEPT !.visited = Append(@, Visited(frame, r.dict))]

rangeBlock(r, frames, count) ==
    LET t == FoldLeft(rangeFrame, r, frames)
    IN  IF t.ret = Ok /\ Len(frames) # count THEN [t EXCEPT !.ret = "corrupt"] ELSE t

readTrailer(r, cells) ==
    LET t == cells[r.pos + 1]
        d == cells[r.pos + 3]
    IN  IF Len(cells) < r.pos + 3 THEN [r EXCEPT !.ret = "short"]
        ELSE IF \/ t.count # r.frames
                \/ r.verify /\ (d.kind # "digest" \/ d.digest # r.hashed)
                \/ Len(cells) > r.pos + 3
             THEN [r EXCEPT !.ret = "corrupt"]
        ELSE [r EXCEPT !.terminated = TRUE, !.done = TRUE]

\* nextBlock and the walk of the block it yields.
nextBlock(r, cells) ==
    LET h == cells[r.pos + 1]
        start == r.pos + BlockHeaderSize
        body == SubSeq(cells, start + 1, start + h.stored)
        frames == Decompress(r.codec, body)
        past == [r EXCEPT !.pos = start + h.stored]
    IN  IF r.pos = Len(cells)
        THEN [r EXCEPT !.done = TRUE, !.ret = IF r.allowUnterminated THEN Ok ELSE "short"]
        ELSE IF Len(cells) < start THEN [r EXCEPT !.ret = "short"]
        ELSE IF h.kind = "trailer" THEN readTrailer(r, cells)
        ELSE IF h.kind # "block" THEN [r EXCEPT !.ret = "corrupt"]
        ELSE IF r.codec = "none" /\ h.stored # h.length THEN [r EXCEPT !.ret = "corrupt"]
        ELSE IF Len(cells) < start + h.stored THEN [r EXCEPT !.ret = "short"]
        ELSE IF frames # h.crc THEN [past EXCEPT !.ret = "corrupt"]
        ELSE rangeBlock(past, frames, h.count)

NewReader(cells, opts) ==
    LET r == [pos |-> StreamHeaderSize, codec |-> "none", verify |-> opts.verify,
              allowUnterminated |-> opts.allowUnterminated, dict |-> <<>>, lastSeq |-> 0,
              frames |-> 0, hashed |-> <<>>, visited |-> <<>>, terminated |-> FALSE,
              done |-> FALSE, ret |-> Ok]
    IN  IF Len(cells) < StreamHeaderSize THEN [r EXCEPT !.ret = "short"]
        ELSE IF cells[1].kind # "stream" THEN [r EXCEPT !.ret = "magic"]
        ELSE [r EXCEPT !.codec = cells[1].codec]

\* Range: at most one block per cell, so one step per cell reaches the end.
Read(cells, opts) ==
    LET Step(r, i) == IF r.done \/ r.ret # Ok THEN r ELSE nextBlock(r, cells)
    IN  FoldLeft(Step, NewReader(cells, opts), [i \in 1..(Len(cells) + 1) |-> i])

(***************************************************************************)
(* The selective reader: RangeSelected over the blocks Select chose from   *)
(* an index.                                                               *)
(***************************************************************************)
Select(index, q) ==
    LET Chosen(d) == Selects(q, d) IN SelectSeq(index, Chosen)

\* IndexedReader.readBlock: the frames of the block d describes, or an error.
readBlock(cells, codec, d) ==
    LET h == cells[d.offset + 1]
        start == d.offset + BlockHeaderSize
        frames == Decompress(codec, SubSeq(cells, start + 1, start + d.stored))
        Fails(err) == [ret |-> err, frames |-> <<>>, count |-> 0]
    IN  IF Len(cells) < start + d.stored THEN Fails("short")
        ELSE IF h.kind # "block" THEN Fails("corrupt")
        ELSE IF h.stored # d.stored \/ h.length # d.length THEN Fails("corrupt")
        ELSE IF frames # h.crc THEN Fails("corrupt")
        ELSE [ret |-> Ok, frames |-> frames, count |-> h.count]

RangeSelected(cells, codec, dict, index, q) ==
    LET Wanted(f) == IsEvent(f) /\ Matches(q, f)
        Walk(r, d) ==
            LET b == readBlock(cells, codec, d)
                hits == SelectSeq(b.frames, Wanted)
            IN  IF r.ret # Ok THEN r
                ELSE IF b.ret # Ok THEN [r EXCEPT !.ret = b.ret]
                ELSE [ret |-> IF Len(b.frames) = b.count THEN Ok ELSE "corrupt",
                      visited |-> r.visited \o [i \in DOMAIN hits |-> Visited(hits[i], dict)]]
    IN  FoldLeft(Walk, [ret |-> Ok, visited |-> <<>>], Select(index, q))
============================================================================
