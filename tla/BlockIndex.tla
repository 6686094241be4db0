----------------------------- MODULE BlockIndex -----------------------------
(***************************************************************************)
(* The block index of package evstream: bounds on what a block of the      *)
(* event stream can contain, gathered while the block is written, and the  *)
(* queries they let skip a block.  Bitmaps are sets of bit numbers.        *)
(***************************************************************************)
EXTENDS Integers, Sequences

CONSTANT SymbolSlot     \* the multiplicative hash of symbolBit: a slot for each dictionary id

FirstUserSchema == 16

familyBit(schema) ==
    IF schema < FirstUserSchema THEN 0 ELSE ((schema - FirstUserSchema) % 63) + 1

symbolBits(ref) == IF ref = 0 THEN {} ELSE {SymbolSlot[ref]}

NoStats == [started |-> FALSE, firstSeq |-> 0, lastSeq |-> 0, minTS |-> 0, maxTS |-> 0,
            families |-> {}, symbols |-> {}]

\* blockStats.observe; the initial bounds MaxInt64 and MinInt64 give way to any frame.
observe(s, h) ==
    [started  |-> TRUE,
     firstSeq |-> IF s.started THEN s.firstSeq ELSE h.seq,
     lastSeq  |-> h.seq,
     minTS    |-> IF ~s.started \/ h.ts < s.minTS THEN h.ts ELSE s.minTS,
     maxTS    |-> IF ~s.started \/ h.ts > s.maxTS THEN h.ts ELSE s.maxTS,
     families |-> s.families \cup {familyBit(h.schema)},
     symbols  |-> s.symbols \cup symbolBits(h.ref)]

\* Mutant: the upper bound of a block read as exclusive.
SelectsBeyond(q, d) ==
    /\ q.fromTS # 0 => d.maxTS > q.fromTS
    /\ q.toTS # 0 => d.minTS <= q.toTS
    /\ q.fromSeq # 0 => d.lastSeq >= q.fromSeq
    /\ q.toSeq # 0 => d.firstSeq <= q.toSeq

\* A query's zero bounds and empty lists ask for everything.
Selects(q, d) ==
    /\ q.fromTS # 0 => d.maxTS >= q.fromTS
    /\ q.toTS # 0 => d.minTS <= q.toTS
    /\ q.fromSeq # 0 => d.lastSeq >= q.fromSeq
    /\ q.toSeq # 0 => d.firstSeq <= q.toSeq
    /\ LET mask == {familyBit(id) : id \in q.families}
       IN  mask # {} => d.families \cap mask # {}
    /\ LET mask == UNION {symbolBits(ref) : ref \in q.refs}
       IN  mask # {} => d.symbols \cap mask # {}

Matches(q, h) ==
    /\ q.fromTS # 0 => h.ts >= q.fromTS
    /\ q.toTS # 0 => h.ts <= q.toTS
    /\ q.fromSeq # 0 => h.seq >= q.fromSeq
    /\ q.toSeq # 0 => h.seq <= q.toSeq
    /\ q.families # {} => h.schema \in q.families
    /\ q.refs # {} => h.ref \in q.refs

\* The index entry of a block, made when the block is flushed.
descriptor(stats, offset, stored, frames) ==
    [offset |-> offset, stored |-> Len(stored), length |-> Len(frames),
     firstSeq |-> stats.firstSeq, lastSeq |-> stats.lastSeq, minTS |-> stats.minTS,
     maxTS |-> stats.maxTS, families |-> stats.families, symbols |-> stats.symbols]
=============================================================================
