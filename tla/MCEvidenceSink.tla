--------------------------- MODULE MCEvidenceSink ---------------------------
(* Instances of EvidenceSink for TLC. *)
EXTENDS EvidenceSink

\* A call: time, account, venue, family, the strings of its payload.
E(ts, client, venue, schema, names) ==
    [ts |-> ts, client |-> client, event |-> "event", venue |-> venue, route |-> "", schema |-> schema,
     names |-> names, body |-> "body", marshals |-> TRUE, required |-> FALSE, complete |-> TRUE]

Required(e) == [e EXCEPT !.required = TRUE, !.route = "route"]
Unmarshalable(e) == [e EXCEPT !.marshals = FALSE]
Null(e) == [e EXCEPT !.body = "null"]
Incomplete(e) == [e EXCEPT !.complete = FALSE]

Strict == [verify |-> TRUE, allowUnterminated |-> FALSE, live |-> FALSE]
Unverified == [Strict EXCEPT !.verify = FALSE]
Lenient == [Unverified EXCEPT !.allowUnterminated = TRUE]
Live == [Lenient EXCEPT !.live = TRUE]

Base == [kind |-> "checkpoint", codec |-> "none", calls |-> {}, rooms |-> {Unlimited}, zips |-> {TRUE},
         aux |-> {TRUE}, faults |-> 0, queries |-> {}, interval |-> 0, final |-> 0,
         readers |-> {Strict, Live}]

\* Payloads that fail to marshal or to intern, accounts out of range, short writes.
Failures ==
    [Base EXCEPT !.calls = {E(1, 1, "north", 16, <<"a">>), E(2, 1, "", 17, <<"b", "">>),
                            Required(E(2, 1, "north", 16, <<"a", "c">>)), Required(E(2, 1, "north", 16, <<"">>)),
                            Unmarshalable(E(1, 1, "", 16, <<>>)), Unmarshalable(Required(E(1, 1, "", 16, <<>>))),
                            E(1, 2, "", 16, <<>>)},
                 !.rooms = {1, 3, 6, Unlimited}]

\* Families 16 and 79 share a bit, venues share a slot.
Queries ==
    LET All == [fromTS |-> 0, toTS |-> 0, fromSeq |-> 0, toSeq |-> 0, families |-> {}, refs |-> {}]
    IN  {All, [All EXCEPT !.fromTS = 2], [All EXCEPT !.toTS = 2], [All EXCEPT !.fromTS = 2, !.toTS = 3],
         [All EXCEPT !.fromSeq = 4], [All EXCEPT !.toSeq = 5], [All EXCEPT !.families = {79}],
         [All EXCEPT !.refs = {2}], [All EXCEPT !.families = {16}, !.refs = {3, 4}]}

Selective ==
    [Base EXCEPT !.codec = "packed", !.zips = BOOLEAN, !.aux = BOOLEAN, !.queries = Queries, !.readers = {},
                 !.calls = {E(1, 1, "north", 16, <<>>), E(2, 1, "south", 79, <<>>), E(3, 0, "", 17, <<"a">>)}]

\* Time moves over one or several boundaries; events share the last instant.
Checkpoints ==
    [Base EXCEPT !.interval = 2, !.final = 6, !.aux = BOOLEAN, !.readers = {Strict},
                 !.calls = {E(ts, 1, "", 16, <<>>) : ts \in {1, 2, 3, 5, 6}} \cup {Required(E(4, 1, "", 16, <<>>))}]

Recorders ==
    {[Base EXCEPT !.kind = kind, !.rooms = {0, 1, 2, 3, 4, Unlimited},
                  !.calls = {E(1, 1, "", 16, <<>>), E(2, 2, "", 16, <<>>), Incomplete(E(2, 1, "", 16, <<>>)),
                             Unmarshalable(E(2, 1, "", 16, <<>>)), Null(E(2, 1, "", 16, <<>>))}] : kind \in {"repeated", "pilot"}}

Storage ==
    [Base EXCEPT !.kind = "pilot", !.faults = 2, !.readers = {Strict, Unverified, Lenient},
                 !.calls = {E(1, 1, "", 16, <<>>), E(2, 1, "", 16, <<>>)}]

MCScenarios == {Failures, Selective, Checkpoints, Storage} \cup Recorders

MCSymbolSlot == [ref \in 1..20 |-> ref % 2]
=============================================================================
