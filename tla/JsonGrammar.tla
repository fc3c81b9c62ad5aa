----------------------------- MODULE JsonGrammar -----------------------------
(***************************************************************************)
(* The reference the JSON code is compared with: the grammar of JSON over  *)
(* the symbols of module Jsmn, as a recogniser that reads a text from left *)
(* to right and notes the members of every object.  Nothing here stands    *)
(* for code.                                                               *)
(*                                                                         *)
(*   want    what may come next                                            *)
(*   stack   the open containers, each with the index of its value         *)
(*   key     the key whose value is awaited                                *)
(*   values  keys and values read so far                                   *)
(*   members the members: the object, its key, the index of the value      *)
(***************************************************************************)
EXTENDS Integers, Sequences

NoKey == "no key"
NewDoc == [want |-> "value", stack |-> <<>>, key |-> NoKey, values |-> 0, members |-> <<>>]
Malformed == [NewDoc EXCEPT !.want = "nothing"]

WellFormed(d) == d.want = "end"

Top(d) == d.stack[Len(d.stack)]
InObject(d) == d.stack # <<>> /\ Top(d).mark = "{"

AfterValue(stack) == IF stack = <<>> THEN "end" ELSE "comma or close"

\* A value begins: it is the next one, and a member if a key awaits it.
Value(d) ==
    [d EXCEPT !.values = @ + 1,
              !.members = IF d.key = NoKey THEN @
                          ELSE Append(@, [object |-> Top(d).at, key |-> d.key,
                                          value |-> d.values + 1]),
              !.key = NoKey]

MayBeginValue(d) == d.want \in {"value", "value or close"}
MayBeginKey(d) == d.want \in {"key", "key or close"}
MayClose(d, mark) ==
    /\ d.stack # <<>> /\ Top(d).mark = (IF mark = "}" THEN "{" ELSE "[")
    /\ d.want \in {"value or close", "key or close", "comma or close"}

\* One symbol more; isString tells whether it may be a key.
Read(d, symbol, isString) ==
    CASE symbol \in {"{", "["} /\ MayBeginValue(d) ->
             [Value(d) EXCEPT !.stack = Append(@, [mark |-> symbol, at |-> d.values + 1]),
                              !.want = IF symbol = "{" THEN "key or close" ELSE "value or close"]
      [] symbol \in {"}", "]"} /\ MayClose(d, symbol) ->
             LET rest == SubSeq(d.stack, 1, Len(d.stack) - 1)
             IN  [d EXCEPT !.stack = rest, !.want = AfterValue(rest)]
      [] symbol = ":" /\ d.want = "colon" -> [d EXCEPT !.want = "value"]
      [] symbol = "," /\ d.want = "comma or close" ->
             [d EXCEPT !.want = IF InObject(d) THEN "key" ELSE "value"]
      [] isString /\ MayBeginKey(d) ->
             [d EXCEPT !.key = symbol, !.values = @ + 1, !.want = "colon"]
      [] symbol \notin {"{", "}", "[", "]", ":", ","} /\ MayBeginValue(d) ->
             [Value(d) EXCEPT !.want = AfterValue(d.stack)]
      [] OTHER -> Malformed

\* The value of the first member of an object with a key, or 0.
MemberValue(d, object, key) ==
    LET hits == {i \in DOMAIN d.members : d.members[i].object = object /\ d.members[i].key = key}
    IN  IF hits = {} THEN 0
        ELSE d.members[CHOOSE i \in hits : \A j \in hits : i <= j].value
=============================================================================
