--------------------------------- MODULE Jsmn ---------------------------------
(***************************************************************************)
(* The jsmn tokenizer (src/external/jsmn/jsmn.h, JSMN_STRICT, without      *)
(* parent links) as sc_json_reader::parse() calls it: one pass over the    *)
(* text that fills a flat array of tokens.                                 *)
(*                                                                         *)
(* A text is a sequence of symbols: the six punctuation marks, strings     *)
(* and primitives.  A primitive stands together with the delimiter jsmn    *)
(* wants after it, and white space is left out.  Tokens are numbered from  *)
(* 1, and 0 stands for the index -1 of the code.  The field "parent" is    *)
(* not in the code: it remembers which token an append was counted for.    *)
(***************************************************************************)
EXTENDS Integers, Sequences, FiniteSetsExt

CONSTANTS Strings,   \* strings that occur in texts
          Primitives \* numbers and literals that occur in texts

ASSUME JsmnAssumption ==
    /\ Strings \cap Primitives = {}
    /\ (Strings \cup Primitives) \cap {"{", "}", "[", "]", ":", ","} = {}

Marks == {"{", "}", "[", "]", ":", ","}

\* jsmn_init(), with room for max tokens.
NewParser(max) == [tokens |-> <<>>, super |-> 0, status |-> "ok", max |-> max]

TypeOfSuper(p) == IF p.super = 0 THEN "none" ELSE p.tokens[p.super].type
Failed(p, error) == [p EXCEPT !.status = error]

\* The innermost container that is still open, or 0.
InnermostOpen(tokens) ==
    LET open == {i \in DOMAIN tokens : tokens[i].open}
    IN  IF open = {} THEN 0 ELSE Max(open)

\* jsmn_alloc_token() and jsmn_fill_token(): one more token, which counts for the
\* token toksuper points to.
Alloc(p, type, text, open) ==
    IF Len(p.tokens) >= p.max THEN Failed(p, "nomem")
    ELSE LET counted == IF p.super = 0 THEN p.tokens
                        ELSE [p.tokens EXCEPT ![p.super].size = @ + 1]
         IN  [p EXCEPT !.tokens = Append(counted, [type |-> type, text |-> text, size |-> 0,
                                                   open |-> open, parent |-> p.super])]

\* A container cannot be the key of an object.  It is the next token's super token.
OpenContainer(p, mark) ==
    IF Len(p.tokens) < p.max /\ TypeOfSuper(p) = "{" THEN Failed(p, "inval")
    ELSE LET q == Alloc(p, mark, mark, TRUE)
         IN  IF q.status = "ok" THEN [q EXCEPT !.super = Len(q.tokens)] ELSE q

\* The innermost open container must be of the same kind.
CloseContainer(p, mark) ==
    LET i == InnermostOpen(p.tokens)
    IN  IF i = 0 \/ p.tokens[i].type # (IF mark = "}" THEN "{" ELSE "[") THEN Failed(p, "inval")
        ELSE LET closed == [p.tokens EXCEPT ![i].open = FALSE]
             IN  [p EXCEPT !.tokens = closed, !.super = InnermostOpen(closed)]

ReadString(p, text) == Alloc(p, "string", text, FALSE)

\* A primitive cannot be the key of an object, nor a second value of a key.
ReadPrimitive(p, text) ==
    IF \/ TypeOfSuper(p) = "{"
       \/ TypeOfSuper(p) = "string" /\ p.tokens[p.super].size # 0
    THEN Failed(p, "inval")
    ELSE Alloc(p, "primitive", text, FALSE)

\* What follows a colon counts for the last token, whatever that is.
Colon(p) == [p EXCEPT !.super = Len(p.tokens)]

\* What follows a comma counts for the open container again.
Comma(p) ==
    IF p.super # 0 /\ TypeOfSuper(p) \notin {"{", "["} /\ InnermostOpen(p.tokens) # 0
    THEN [p EXCEPT !.super = InnermostOpen(p.tokens)] ELSE p

\* jsmn_parse(), one symbol of it.
Feed(p, symbol) ==
    CASE p.status # "ok" -> p
      [] p.status = "ok" /\ symbol \in {"{", "["} -> OpenContainer(p, symbol)
      [] p.status = "ok" /\ symbol \in {"}", "]"} -> CloseContainer(p, symbol)
      [] p.status = "ok" /\ symbol = ":" -> Colon(p)
      [] p.status = "ok" /\ symbol = "," -> Comma(p)
      [] p.status = "ok" /\ symbol \in Strings -> ReadString(p, symbol)
      [] p.status = "ok" /\ symbol \in Primitives -> ReadPrimitive(p, symbol)

\* The result of jsmn_parse() if the text ends here.
Result(p) == IF p.status = "ok" /\ InnermostOpen(p.tokens) # 0 THEN "part" ELSE p.status
=============================================================================
