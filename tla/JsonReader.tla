------------------------------ MODULE JsonReader ------------------------------
(***************************************************************************)
(* sc_json_reader (src/src/sc_json.cpp): lookups in the flat token array   *)
(* of jsmn.  Indices are those of module Jsmn: the root is 1, and 0 stands *)
(* for -1.                                                                 *)
(***************************************************************************)
EXTENDS Jsmn

\* sc_json_reader::parse(): accepted when jsmn is content and the first token is an
\* object; count is then the number of tokens.
ParseOk(p) == Result(p) = "ok" /\ Len(p.tokens) >= 1 /\ p.tokens[1].type = "{"

IsObject(p, tok) == tok \in DOMAIN p.tokens /\ p.tokens[tok].type = "{"
ChildCount(p, tok) == IF tok \in DOMAIN p.tokens THEN p.tokens[tok].size ELSE 0

\* Children still to be consumed when skip(tok) arrives at token idx.
PendingAt(p, tok, idx) == 1 + MapThenSumSet(LAMBDA i : p.tokens[i].size - 1, tok..(idx - 1))

(* Mutant: only the direct children are passed. *)
SkipChildren(p, tok) ==
    IF tok \in DOMAIN p.tokens /\ tok + 1 + p.tokens[tok].size \in DOMAIN p.tokens
    THEN tok + 1 + p.tokens[tok].size ELSE 0

\* skip(): walks forward until the subtree of tok is consumed; 0 at the end.
Skip(p, tok) ==
    LET ends == {idx \in (tok + 1)..Len(p.tokens) : PendingAt(p, tok, idx) = 0}
    IN  IF tok \in DOMAIN p.tokens /\ ends # {} THEN Min(ends) ELSE 0

KeyEquals(p, tok, key) == p.tokens[tok].type = "string" /\ p.tokens[tok].text = key

\* A member find() goes on with: the next token is there, and is its only child.
IsMember(p, tok) == tok # 0 /\ tok + 1 \in DOMAIN p.tokens /\ p.tokens[tok].size = 1

\* find(): the value of the first member with that key, or 0.  A member that is no
\* key with one value ends the search.
Find(p, object, key) ==
    LET member[i \in 1..ChildCount(p, object)] ==
            IF i = 1 THEN object + 1
            ELSE IF IsMember(p, member[i - 1]) THEN Skip(p, member[i - 1] + 1) ELSE 0
        hits == {i \in 1..ChildCount(p, object) :
                     IsMember(p, member[i]) /\ KeyEquals(p, member[i], key)}
    IN  IF IsObject(p, object) /\ hits # {} THEN member[Min(hits)] + 1 ELSE 0
=============================================================================
