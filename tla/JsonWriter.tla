------------------------------ MODULE JsonWriter ------------------------------
(***************************************************************************)
(* sc_json_writer (src/src/sc_json.cpp): JSON written into a buffer of     *)
(* "cap" bytes.  The text is kept as a sequence of the symbols of module   *)
(* Jsmn.  A string is written piece by piece; one that does not fit leaves *)
(* some of its pieces behind the text, which are left out here.            *)
(***************************************************************************)
EXTENDS Integers, Sequences

CONSTANTS Width,   \* bytes of a symbol, quotes and escapes included
          MaxDepth \* sc_json_writer::MAX_DEPTH

ASSUME WriterAssumption ==
    /\ \A symbol \in DOMAIN Width : Width[symbol] \in Nat \ {0}
    /\ MaxDepth \in Nat

Unnamed == "nullptr" \* the key of an array element

\* reset(), with the buffer of the constructor.
NewWriter(cap) ==
    [cap |-> cap, pos |-> 0, depth |-> 0, hasItems |-> {}, overflow |-> cap < 1, text |-> <<>>]

\* put(), put_escaped()
Put(w, symbol) ==
    IF w.overflow \/ w.pos + Width[symbol] >= w.cap THEN [w EXCEPT !.overflow = TRUE]
    ELSE [w EXCEPT !.pos = @ + Width[symbol], !.text = Append(@, symbol)]

\* begin_value(): the comma of the container, and the key.
BeginValue(w, key) ==
    LET separated == IF w.depth > 0 /\ w.depth \in w.hasItems THEN Put(w, ",") ELSE w
        counted == [separated EXCEPT !.hasItems =
                        IF w.depth > 0 THEN @ \cup {w.depth} ELSE @]
    IN  IF key = Unnamed THEN counted ELSE Put(Put(counted, key), ":")

(* Mutant: the first value of a container may find the bit of an earlier one. *)
OpenUncleared(w, key, mark) ==
    LET q == Put(BeginValue(w, key), mark)
    IN  IF w.depth >= MaxDepth THEN [q EXCEPT !.overflow = TRUE] ELSE [q EXCEPT !.depth = @ + 1]

\* begin_object(), begin_array()
Open(w, key, mark) ==
    LET q == Put(BeginValue(w, key), mark)
    IN  IF w.depth >= MaxDepth THEN [q EXCEPT !.overflow = TRUE]
        ELSE [q EXCEPT !.depth = @ + 1, !.hasItems = @ \ {w.depth + 1}]

\* end_object(), end_array()
Close(w, mark) ==
    LET q == Put(w, mark) IN [q EXCEPT !.depth = IF @ > 0 THEN @ - 1 ELSE 0]

\* add_str(), add_fmt(), add_int(), add_uint(), add_bool(), add_null(), add_hex()
AddValue(w, key, value) == Put(BeginValue(w, key), value)

\* A call of the writer: [op, key, value].
Begins(key, mark) == [op |-> "begin", key |-> key, value |-> mark]
Ends(mark) == [op |-> "end", key |-> Unnamed, value |-> mark]
Adds(key, value) == [op |-> "add", key |-> key, value |-> value]

Called(w, call) ==
    CASE call.op = "begin" -> Open(w, call.key, call.value)
      [] call.op = "end" -> Close(w, call.value)
      [] call.op = "add" -> AddValue(w, call.key, call.value)
=============================================================================
