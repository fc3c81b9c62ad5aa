------------------------------ MODULE JsonString ------------------------------
(***************************************************************************)
(* The strings of module Jsmn byte by byte: how put_escaped() writes them  *)
(* (src/src/sc_json.cpp), where jsmn finds their end (jsmn.h), and what    *)
(* str_at() makes of them.  A byte is a number from 1 to 255.              *)
(***************************************************************************)
EXTENDS Integers, Sequences, SequencesExt

Quote == 34
Backslash == 92
HexByte(digit) == IF digit < 10 THEN 48 + digit ELSE 87 + digit

\* The escapes of one letter: the letter and the byte it stands for.  str_at() takes
\* any other byte after a backslash, the slash among them, for itself.
WrittenEscapes ==
    [letter \in {110, 114, 116} |-> CASE letter = 110 -> 10 [] letter = 114 -> 13 [] letter = 116 -> 9]
ReadEscapes ==
    [letter \in {98, 102} \cup DOMAIN WrittenEscapes |->
        CASE letter = 98 -> 8 [] letter = 102 -> 12 [] OTHER -> WrittenEscapes[letter]]

(* Mutant: bytes are compared as signed chars. *)
EscapedSigned(c) ==
    IF c \in {Quote, Backslash} THEN <<Backslash, c>>
    ELSE IF c \in {9, 10, 13}
         THEN <<Backslash, CHOOSE letter \in DOMAIN WrittenEscapes : WrittenEscapes[letter] = c>>
    ELSE IF c < 32 \/ c >= 128
         THEN <<Backslash, 117, 48, 48, HexByte(c \div 16), HexByte(c % 16)>>
    ELSE <<c>>

\* One byte of put_escaped().
Escaped(c) ==
    IF c \in {Quote, Backslash} THEN <<Backslash, c>>
    ELSE IF c \in {9, 10, 13}
         THEN <<Backslash, CHOOSE letter \in DOMAIN WrittenEscapes : WrittenEscapes[letter] = c>>
    ELSE IF c < 32 THEN <<Backslash, 117, 48, 48, HexByte(c \div 16), HexByte(c % 16)>>
    ELSE <<c>>

Escape(bytes) == FlattenSeq([i \in DOMAIN bytes |-> Escaped(bytes[i])])
-----------------------------------------------------------------------------
IsHex(c) == c \in 48..57 \cup 65..70 \cup 97..102

\* hex_value()
HexValue(c) == IF c <= 57 THEN c - 48 ELSE IF c <= 70 THEN c - 55 ELSE c - 87

HexAt(bytes, i) == i + 3 <= Len(bytes) /\ \A j \in i..(i + 3) : IsHex(bytes[j])

\* jsmn_parse_string(): where the string ends that begins at the start of bytes: the
\* position of its closing quote, or 0 where jsmn reports an error.
ClosingQuote(bytes) ==
    LET from[i \in 1..(Len(bytes) + 1)] ==
            IF i > Len(bytes) THEN 0
            ELSE IF bytes[i] = Quote THEN i
            ELSE IF bytes[i] # Backslash THEN from[i + 1]
            ELSE IF i = Len(bytes) THEN 0
            ELSE IF bytes[i + 1] = 117 THEN IF HexAt(bytes, i + 2) THEN from[i + 6] ELSE 0
            ELSE IF bytes[i + 1] \in {Quote, Backslash, 47} \cup DOMAIN ReadEscapes
                 THEN from[i + 2] ELSE 0
    IN  from[1]
-----------------------------------------------------------------------------
\* The bytes of a code unit: UTF-8, and "?" for the halves of a surrogate pair.
Utf8(code) ==
    IF code \in 55296..57343 THEN <<63>>
    ELSE IF code < 128 THEN <<code>>
    ELSE IF code < 2048 THEN <<192 + code \div 64, 128 + (code % 64)>>
    ELSE <<224 + code \div 4096, 128 + ((code \div 64) % 64), 128 + (code % 64)>>

CodeAt(bytes, i) ==
    4096 * HexValue(bytes[i]) + 256 * HexValue(bytes[i + 1])
    + 16 * HexValue(bytes[i + 2]) + HexValue(bytes[i + 3])

Invalid == <<-1>> \* no bytes

\* str_at() without the limit of its buffer: the decoded bytes, or Invalid.
Decode(bytes) ==
    LET before(text, rest) == IF rest = Invalid THEN Invalid ELSE text \o rest
        from[i \in 1..(Len(bytes) + 1)] ==
            IF i > Len(bytes) THEN <<>>
            ELSE IF bytes[i] # Backslash THEN before(<<bytes[i]>>, from[i + 1])
            ELSE IF i = Len(bytes) THEN Invalid
            ELSE IF bytes[i + 1] # 117
                 THEN before(<<IF bytes[i + 1] \in DOMAIN ReadEscapes
                               THEN ReadEscapes[bytes[i + 1]] ELSE bytes[i + 1]>>, from[i + 2])
            ELSE IF HexAt(bytes, i + 2) THEN before(Utf8(CodeAt(bytes, i + 2)), from[i + 6])
            ELSE Invalid
    IN  from[1]

\* emit() keeps room for the NUL.
FitsField(text, cap) == Len(text) + 1 <= cap

\* str_at(): what it leaves in a field of cap bytes, or Invalid if it fails.
Unescape(bytes, cap) ==
    IF Decode(bytes) # Invalid /\ FitsField(Decode(bytes), cap) THEN Decode(bytes) ELSE Invalid
=============================================================================
