---------------------------- MODULE Texts_proofs ----------------------------
(***************************************************************************)
(* Proofs about the texts of the request task: the strings and messages    *)
(* of module JsonDocs, for any bytes, fields and buffers of any size, and  *)
(* any calls of the callbacks; and module Shell, for every table size,     *)
(* every set of command names and lines, and output buffers of any size.   *)
(***************************************************************************)
EXTENDS JsonDocs, Shell, SequenceTheorems, FiniteSetTheorems, WellFoundedInduction, TLAPS

(***************************************************************************)
(* Induction over the natural numbers, stated with sets: the provers can   *)
(* be given a set, but not the predicate that the theorems of the library  *)
(* take.                                                                   *)
(***************************************************************************)

(* A set of numbers has a least one. *)
LEMMA LeastNatural ==
  ASSUME NEW T, T \subseteq Nat, T # {}
  PROVE  \E x \in T : \A y \in T : x <= y
<1> DEFINE less == OpToRel(<, Nat)
<1>1. IsWellFoundedOn(less, Nat)
  BY NatLessThanWellFounded, Zenon
<1>2. less = {ss \in Nat \X Nat : ss[1] < ss[2]}
  BY DEF OpToRel
<1> HIDE DEF less
<1>3. PICK x \in T : \A y \in T : ~ (<<y, x>> \in less)
  BY <1>1, WFMin, Zenon
<1>4. ASSUME NEW y \in T PROVE x <= y
  <2>1. <<y, x>> \notin {ss \in Nat \X Nat : ss[1] < ss[2]}
    BY <1>2, <1>3, Zenon
  <2>2. ~ (y < x)
    BY <2>1
  <2> QED
    BY <2>2
<1> QED
  BY <1>4

(* Induction with all smaller numbers, and from one to the next. *)
LEMMA Strongly ==
  ASSUME NEW S,
         \A n \in Nat : (\A m \in Nat : m < n => m \in S) => n \in S
  PROVE  \A n \in Nat : n \in S
<1> DEFINE T == {n \in Nat : n \notin S}
<1>1. SUFFICES T = {}
  OBVIOUS
<1>2. SUFFICES ASSUME T # {} PROVE FALSE
  OBVIOUS
<1>3. PICK x \in T : \A y \in T : x <= y
  BY <1>2, LeastNatural
<1>4. \A m \in Nat : m < x => m \in S
  BY <1>3
<1> QED
  BY <1>3, <1>4

LEMMA Upward ==
  ASSUME NEW S, 0 \in S,
         \A n \in Nat : n \in S => n + 1 \in S
  PROVE  \A n \in Nat : n \in S
<1>1. \A n \in Nat : (\A m \in Nat : m < n => m \in S) => n \in S
  <2> SUFFICES ASSUME NEW n \in Nat, \A m \in Nat : m < n => m \in S PROVE n \in S
    OBVIOUS
  <2>1. CASE n = 0
    BY <2>1
  <2>2. CASE n # 0
    <3>1. n - 1 \in Nat /\ n - 1 < n /\ (n - 1) + 1 = n
      BY <2>2
    <3>2. n - 1 \in S
      BY <3>1
    <3> QED
      BY <3>1, <3>2
  <2> QED
    BY <2>1, <2>2
<1> QED
  BY <1>1, Strongly, Zenon

--------------------------------------------------------------------------------
(* put_escaped(), str_at() and the end of a string as jsmn finds it *)

(* The tables of the escapes of one letter. *)
LEMMA EscapesAre ==
  /\ DOMAIN WrittenEscapes = {110, 114, 116}
  /\ WrittenEscapes[110] = 10 /\ WrittenEscapes[114] = 13 /\ WrittenEscapes[116] = 9
  /\ DOMAIN ReadEscapes = {98, 102, 110, 114, 116}
  /\ ReadEscapes[110] = 10 /\ ReadEscapes[114] = 13 /\ ReadEscapes[116] = 9
  /\ ReadEscapes[98] = 8 /\ ReadEscapes[102] = 12
<1>1. DOMAIN WrittenEscapes = {110, 114, 116} /\ DOMAIN ReadEscapes = {98, 102, 110, 114, 116}
  BY DEF WrittenEscapes, ReadEscapes
<1>2. WrittenEscapes[110] = 10 /\ WrittenEscapes[114] = 13 /\ WrittenEscapes[116] = 9
  BY DEF WrittenEscapes
<1>3. \A l \in {110, 114, 116} : ReadEscapes[l] = WrittenEscapes[l]
  BY DEF ReadEscapes, WrittenEscapes
<1>4. ReadEscapes[98] = 8 /\ ReadEscapes[102] = 12
  BY DEF ReadEscapes
<1> QED
  BY <1>1, <1>2, <1>3, <1>4

(* FlattenSeq() appends one sequence after the other. *)
LEMMA Flattened ==
  ASSUME NEW s, NEW n \in Nat \ {0}, Len(s) = n
  PROVE  \E f : /\ f = [i \in 1 .. n |-> IF i = 1 THEN s[i] ELSE f[i - 1] \o s[i]]
               /\ FlattenSeq(s) = f[n]
<1> DEFINE defined == {k \in Nat :
             \E f : f = [i \in 1 .. k |-> IF i = 1 THEN s[i] ELSE f[i - 1] \o s[i]]}
<1>1. 0 \in defined
  <2> DEFINE g == [i \in 1 .. 0 |-> s[i]]
  <2>1. g = [i \in 1 .. 0 |-> IF i = 1 THEN s[i] ELSE g[i - 1] \o s[i]]
    OBVIOUS
  <2> QED
    BY <2>1
<1>2. ASSUME NEW k \in Nat, k \in defined PROVE k + 1 \in defined
  <2>1. PICK f : f = [i \in 1 .. k |-> IF i = 1 THEN s[i] ELSE f[i - 1] \o s[i]]
    BY <1>2
  <2> DEFINE g == [i \in 1 .. k + 1 |->
                     IF i <= k THEN f[i] ELSE IF i = 1 THEN s[i] ELSE f[k] \o s[i]]
  <2>2. \A i \in 1 .. k : g[i] = f[i]
    OBVIOUS
  <2>3. ASSUME NEW i \in 1 .. k + 1
        PROVE  g[i] = IF i = 1 THEN s[i] ELSE g[i - 1] \o s[i]
    <3>1. CASE i <= k
      <4>1. g[i] = f[i] /\ i \in 1 .. k
        BY <3>1
      <4>2. f[i] = IF i = 1 THEN s[i] ELSE f[i - 1] \o s[i]
        BY <2>1, <4>1, Zenon
      <4>3. i # 1 => i - 1 \in 1 .. k
        BY <3>1
      <4>4. i # 1 => g[i - 1] = f[i - 1]
        BY <2>2, <4>3
      <4> HIDE DEF g
      <4> QED
        BY <4>1, <4>2, <4>4
    <3>2. CASE ~ (i <= k)
      <4>1. i = k + 1
        BY <3>2
      <4>2. i # 1 => i - 1 \in 1 .. k /\ i - 1 = k
        BY <4>1
      <4>3. i # 1 => g[i - 1] = f[k]
        BY <2>2, <4>2
      <4>4. g[i] = IF i = 1 THEN s[i] ELSE f[k] \o s[i]
        BY <3>2
      <4> HIDE DEF g
      <4> QED
        BY <4>3, <4>4
    <3> QED
      BY <3>1, <3>2
  <2>4. g = [i \in 1 .. k + 1 |-> IF i = 1 THEN s[i] ELSE g[i - 1] \o s[i]]
    <3>1. g = [i \in 1 .. k + 1 |-> g[i]]
      OBVIOUS
    <3> HIDE DEF g
    <3> QED
      BY <2>3, <3>1
  <2> HIDE DEF g
  <2>5. k + 1 \in Nat
    OBVIOUS
  <2> QED
    BY <2>4, <2>5, Zenon
<1> HIDE DEF defined
<1>3. \A k \in Nat : k \in defined
  BY <1>1, <1>2, Upward
<1>4. \E f : f = [i \in 1 .. n |-> IF i = 1 THEN s[i] ELSE f[i - 1] \o s[i]]
  BY <1>3 DEF defined
<1> DEFINE flatten[i \in 1 .. Len(s)] == IF i = 1 THEN s[i] ELSE flatten[i - 1] \o s[i]
<1>5. flatten = [i \in 1 .. n |-> IF i = 1 THEN s[i] ELSE flatten[i - 1] \o s[i]]
  BY <1>4
<1>6. FlattenSeq(s) = flatten[n]
  BY DEF FlattenSeq
<1> HIDE DEF flatten
<1> QED
  BY <1>5, <1>6

(* One step of ClosingQuote(t) at the position i, when f tells what follows. *)
QuoteStep(t, f, i) ==
  IF i > Len(t) THEN 0
  ELSE IF t[i] = Quote THEN i
  ELSE IF t[i] # Backslash THEN f[i + 1]
  ELSE IF i = Len(t) THEN 0
  ELSE IF t[i + 1] = 117 THEN IF HexAt(t, i + 2) THEN f[i + 6] ELSE 0
  ELSE IF t[i + 1] \in {Quote, Backslash, 47} \cup DOMAIN ReadEscapes THEN f[i + 2] ELSE 0

(* A step depends on what follows its position, not on what is before. *)
LEMMA QuoteLocal ==
  ASSUME NEW t, NEW n \in Nat, Len(t) = n, NEW i \in 1 .. n + 1, NEW f, NEW g,
         \A j \in i + 1 .. n + 1 : f[j] = g[j]
  PROVE  QuoteStep(t, f, i) = QuoteStep(t, g, i)
<1>1. ~ (i > n) => i + 1 \in i + 1 .. n + 1
  OBVIOUS
<1>2. ~ (i > n) /\ i # n => i + 2 \in i + 1 .. n + 1
  OBVIOUS
<1>3. HexAt(t, i + 2) => i + 6 \in i + 1 .. n + 1
  BY DEF HexAt
<1>4. /\ ~ (i > n) => f[i + 1] = g[i + 1]
      /\ ~ (i > n) /\ i # n => f[i + 2] = g[i + 2]
      /\ HexAt(t, i + 2) => f[i + 6] = g[i + 6]
  BY <1>1, <1>2, <1>3
<1> QED
  BY <1>4 DEF QuoteStep

(* So the function that ClosingQuote() is defined by exists, and is that of its steps. *)
LEMMA QuoteIs ==
  ASSUME NEW t, NEW n \in Nat, Len(t) = n
  PROVE  \E f : /\ f = [i \in 1 .. n + 1 |-> QuoteStep(t, f, i)]
               /\ ClosingQuote(t) = f[1]
<1> DEFINE defined == {k \in Nat : k <= n =>
             \E f : f = [i \in n + 1 - k .. n + 1 |-> QuoteStep(t, f, i)]}
<1>1. 0 \in defined
  <2> DEFINE g == [i \in n + 1 .. n + 1 |-> QuoteStep(t, t, i)]
  <2>1. ASSUME NEW i \in n + 1 .. n + 1 PROVE g[i] = QuoteStep(t, g, i)
    <3>1. i \in 1 .. n + 1 /\ \A j \in i + 1 .. n + 1 : g[j] = t[j]
      OBVIOUS
    <3>2. g[i] = QuoteStep(t, t, i)
      OBVIOUS
    <3> HIDE DEF g
    <3>3. QuoteStep(t, g, i) = QuoteStep(t, t, i)
      BY <3>1, QuoteLocal
    <3> QED
      BY <3>2, <3>3
  <2>2. g = [i \in n + 1 .. n + 1 |-> g[i]]
    OBVIOUS
  <2> HIDE DEF g
  <2>3. g = [i \in n + 1 - 0 .. n + 1 |-> QuoteStep(t, g, i)]
    BY <2>1, <2>2
  <2> QED
    BY <2>3, Zenon
<1>2. ASSUME NEW k \in Nat, k \in defined PROVE k + 1 \in defined
  <2>1. SUFFICES ASSUME k + 1 <= n
                 PROVE  \E f : f = [i \in n + 1 - (k + 1) .. n + 1 |-> QuoteStep(t, f, i)]
    OBVIOUS
  <2>2. PICK f : f = [i \in n + 1 - k .. n + 1 |-> QuoteStep(t, f, i)]
    BY <1>2, <2>1
  <2> DEFINE first == n - k
             g == [i \in first .. n + 1 |-> IF i > first THEN f[i] ELSE QuoteStep(t, f, i)]
  <2>3. first \in Nat \ {0} /\ first = n + 1 - (k + 1) /\ n + 1 - k = first + 1
    BY <2>1
  <2> HIDE DEF first
  <2>4. ASSUME NEW j \in first + 1 .. n + 1 PROVE g[j] = f[j] /\ f[j] = QuoteStep(t, f, j)
    <3>1. j \in n + 1 - k .. n + 1
      BY <2>3
    <3>2. f[j] = QuoteStep(t, f, j)
      BY <2>2, <3>1, Zenon
    <3>3. j \in first .. n + 1 /\ j > first
      BY <2>3
    <3> QED
      BY <3>2, <3>3
  <2>5. ASSUME NEW i \in first .. n + 1 PROVE g[i] = QuoteStep(t, g, i)
    <3>1. i \in 1 .. n + 1 /\ \A j \in i + 1 .. n + 1 : g[j] = f[j]
      BY <2>3, <2>4
    <3>2. g[i] = QuoteStep(t, f, i)
      <4>1. CASE i > first
        <5>1. i \in first + 1 .. n + 1
          BY <2>3, <4>1
        <5> QED
          BY <2>4, <5>1
      <4>2. CASE ~ (i > first)
        BY <4>2
      <4> QED
        BY <4>1, <4>2
    <3> HIDE DEF g
    <3>3. QuoteStep(t, g, i) = QuoteStep(t, f, i)
      BY <3>1, QuoteLocal
    <3> QED
      BY <3>2, <3>3
  <2>6. g = [i \in first .. n + 1 |-> g[i]]
    OBVIOUS
  <2> HIDE DEF g
  <2>7. g = [i \in first .. n + 1 |-> QuoteStep(t, g, i)]
    BY <2>5, <2>6
  <2> QED
    BY <2>3, <2>7, Zenon
<1> HIDE DEF defined
<1>3. \A k \in Nat : k \in defined
  BY <1>1, <1>2, Upward
<1>4. n <= n /\ n + 1 - n = 1
  OBVIOUS
<1>5. \E f : f = [i \in n + 1 - n .. n + 1 |-> QuoteStep(t, f, i)]
  BY <1>3, <1>4 DEF defined
<1>6. \E f : f = [i \in 1 .. n + 1 |-> QuoteStep(t, f, i)]
  BY <1>4, <1>5
<1> DEFINE from[i \in 1 .. (Len(t) + 1)] ==
             IF i > Len(t) THEN 0
             ELSE IF t[i] = Quote THEN i
             ELSE IF t[i] # Backslash THEN from[i + 1]
             ELSE IF i = Len(t) THEN 0
             ELSE IF t[i + 1] = 117 THEN IF HexAt(t, i + 2) THEN from[i + 6] ELSE 0
             ELSE IF t[i + 1] \in {Quote, Backslash, 47} \cup DOMAIN ReadEscapes
                  THEN from[i + 2] ELSE 0
<1>7. ClosingQuote(t) = from[1]
  BY DEF ClosingQuote
<1>8. from = [i \in 1 .. n + 1 |-> QuoteStep(t, from, i)]
  BY <1>6, ZenonT(40) DEF QuoteStep
<1> HIDE DEF from
<1> QED
  BY <1>7, <1>8

(* One step of Decode(t) at the position i, when f tells what follows. *)
Before(text, rest) == IF rest = Invalid THEN Invalid ELSE text \o rest

DecodeStep(t, f, i) ==
  IF i > Len(t) THEN <<>>
  ELSE IF t[i] # Backslash THEN Before(<<t[i]>>, f[i + 1])
  ELSE IF i = Len(t) THEN Invalid
  ELSE IF t[i + 1] # 117
       THEN Before(<<IF t[i + 1] \in DOMAIN ReadEscapes
                     THEN ReadEscapes[t[i + 1]] ELSE t[i + 1]>>, f[i + 2])
  ELSE IF HexAt(t, i + 2) THEN Before(Utf8(CodeAt(t, i + 2)), f[i + 6])
  ELSE Invalid

(* The same for Decode(). *)
LEMMA DecodeLocal ==
  ASSUME NEW t, NEW n \in Nat, Len(t) = n, NEW i \in 1 .. n + 1, NEW f, NEW g,
         \A j \in i + 1 .. n + 1 : f[j] = g[j]
  PROVE  DecodeStep(t, f, i) = DecodeStep(t, g, i)
<1>1. ~ (i > n) => i + 1 \in i + 1 .. n + 1
  OBVIOUS
<1>2. ~ (i > n) /\ i # n => i + 2 \in i + 1 .. n + 1
  OBVIOUS
<1>3. HexAt(t, i + 2) => i + 6 \in i + 1 .. n + 1
  BY DEF HexAt
<1>4. /\ ~ (i > n) => f[i + 1] = g[i + 1]
      /\ ~ (i > n) /\ i # n => f[i + 2] = g[i + 2]
      /\ HexAt(t, i + 2) => f[i + 6] = g[i + 6]
  BY <1>1, <1>2, <1>3
<1> QED
  BY <1>4 DEF DecodeStep

(* Decode() is the function of its steps. *)
LEMMA DecodeIs ==
  ASSUME NEW t, NEW n \in Nat, Len(t) = n
  PROVE  \E f : /\ f = [i \in 1 .. n + 1 |-> DecodeStep(t, f, i)]
               /\ Decode(t) = f[1]
<1> DEFINE defined == {k \in Nat : k <= n =>
             \E f : f = [i \in n + 1 - k .. n + 1 |-> DecodeStep(t, f, i)]}
<1>1. 0 \in defined
  <2> DEFINE g == [i \in n + 1 .. n + 1 |-> DecodeStep(t, t, i)]
  <2>1. ASSUME NEW i \in n + 1 .. n + 1 PROVE g[i] = DecodeStep(t, g, i)
    <3>1. i \in 1 .. n + 1 /\ \A j \in i + 1 .. n + 1 : g[j] = t[j]
      OBVIOUS
    <3>2. g[i] = DecodeStep(t, t, i)
      OBVIOUS
    <3> HIDE DEF g
    <3>3. DecodeStep(t, g, i) = DecodeStep(t, t, i)
      BY <3>1, DecodeLocal
    <3> QED
      BY <3>2, <3>3
  <2>2. g = [i \in n + 1 .. n + 1 |-> g[i]]
    OBVIOUS
  <2> HIDE DEF g
  <2>3. g = [i \in n + 1 - 0 .. n + 1 |-> DecodeStep(t, g, i)]
    BY <2>1, <2>2
  <2> QED
    BY <2>3, Zenon
<1>2. ASSUME NEW k \in Nat, k \in defined PROVE k + 1 \in defined
  <2>1. SUFFICES ASSUME k + 1 <= n
                 PROVE  \E f : f = [i \in n + 1 - (k + 1) .. n + 1 |-> DecodeStep(t, f, i)]
    OBVIOUS
  <2>2. PICK f : f = [i \in n + 1 - k .. n + 1 |-> DecodeStep(t, f, i)]
    BY <1>2, <2>1
  <2> DEFINE first == n - k
             g == [i \in first .. n + 1 |-> IF i > first THEN f[i] ELSE DecodeStep(t, f, i)]
  <2>3. first \in Nat \ {0} /\ first = n + 1 - (k + 1) /\ n + 1 - k = first + 1
    BY <2>1
  <2> HIDE DEF first
  <2>4. ASSUME NEW j \in first + 1 .. n + 1 PROVE g[j] = f[j] /\ f[j] = DecodeStep(t, f, j)
    <3>1. j \in n + 1 - k .. n + 1
      BY <2>3
    <3>2. f[j] = DecodeStep(t, f, j)
      BY <2>2, <3>1, Zenon
    <3>3. j \in first .. n + 1 /\ j > first
      BY <2>3
    <3> QED
      BY <3>2, <3>3
  <2>5. ASSUME NEW i \in first .. n + 1 PROVE g[i] = DecodeStep(t, g, i)
    <3>1. i \in 1 .. n + 1 /\ \A j \in i + 1 .. n + 1 : g[j] = f[j]
      BY <2>3, <2>4
    <3>2. g[i] = DecodeStep(t, f, i)
      <4>1. CASE i > first
        <5>1. i \in first + 1 .. n + 1
          BY <2>3, <4>1
        <5> QED
          BY <2>4, <5>1
      <4>2. CASE ~ (i > first)
        BY <4>2
      <4> QED
        BY <4>1, <4>2
    <3> HIDE DEF g
    <3>3. DecodeStep(t, g, i) = DecodeStep(t, f, i)
      BY <3>1, DecodeLocal
    <3> QED
      BY <3>2, <3>3
  <2>6. g = [i \in first .. n + 1 |-> g[i]]
    OBVIOUS
  <2> HIDE DEF g
  <2>7. g = [i \in first .. n + 1 |-> DecodeStep(t, g, i)]
    BY <2>5, <2>6
  <2> QED
    BY <2>3, <2>7, Zenon
<1> HIDE DEF defined
<1>3. \A k \in Nat : k \in defined
  BY <1>1, <1>2, Upward
<1>4. n <= n /\ n + 1 - n = 1
  OBVIOUS
<1>5. \E f : f = [i \in n + 1 - n .. n + 1 |-> DecodeStep(t, f, i)]
  BY <1>3, <1>4 DEF defined
<1>6. \E f : f = [i \in 1 .. n + 1 |-> DecodeStep(t, f, i)]
  BY <1>4, <1>5
<1> DEFINE before(text, rest) == IF rest = Invalid THEN Invalid ELSE text \o rest
           from[i \in 1 .. (Len(t) + 1)] ==
             IF i > Len(t) THEN <<>>
             ELSE IF t[i] # Backslash THEN before(<<t[i]>>, from[i + 1])
             ELSE IF i = Len(t) THEN Invalid
             ELSE IF t[i + 1] # 117
                  THEN before(<<IF t[i + 1] \in DOMAIN ReadEscapes
                                THEN ReadEscapes[t[i + 1]] ELSE t[i + 1]>>, from[i + 2])
             ELSE IF HexAt(t, i + 2) THEN before(Utf8(CodeAt(t, i + 2)), from[i + 6])
             ELSE Invalid
<1>7. Decode(t) = from[1]
  BY DEF Decode
<1>8. from = [i \in 1 .. n + 1 |-> DecodeStep(t, from, i)]
  BY <1>6 DEF DecodeStep, Before
<1> HIDE DEF from
<1> QED
  BY <1>7, <1>8

(* What strings are made of: the NUL is what ends them.                     *)
Byte == 1 .. 255

(* The digits that are written are those that are read. *)
LEMMA HexDigit ==
  ASSUME NEW d \in 0 .. 15
  PROVE  HexByte(d) \in Byte /\ IsHex(HexByte(d)) /\ HexValue(HexByte(d)) = d
BY DEF HexByte, IsHex, HexValue, Byte

(* The two digits of a control character. *)
LEMMA Nibbles ==
  ASSUME NEW c \in Byte, c < 32
  PROVE  c \div 16 \in 0 .. 15 /\ c % 16 \in 0 .. 15 /\ c = 16 * (c \div 16) + (c % 16)
BY DEF Byte

(* What put_escaped() writes for a byte, by the four kinds of string.       *)
LEMMA EscapedIs ==
  ASSUME NEW c \in Byte
  PROVE  \/ c \in {34, 92} /\ Escaped(c) = <<92, c>>
         \/ \E letter \in {110, 114, 116} :
              Escaped(c) = <<92, letter>> /\ ReadEscapes[letter] = c
         \/ c < 32 /\ Escaped(c) = <<92, 117, 48, 48, HexByte(c \div 16), HexByte(c % 16)>>
         \/ c \notin {34, 92} /\ Escaped(c) = <<c>>
<1>1. CASE c \in {34, 92}
  BY <1>1 DEF Escaped, Quote, Backslash
<1>2. CASE c \in {9, 10, 13}
  <2> DEFINE letter == CHOOSE l \in DOMAIN WrittenEscapes : WrittenEscapes[l] = c
  <2>1. \E l \in DOMAIN WrittenEscapes : WrittenEscapes[l] = c
    BY <1>2, EscapesAre
  <2>2. letter \in DOMAIN WrittenEscapes /\ WrittenEscapes[letter] = c
    BY <2>1, Zenon
  <2>3. Escaped(c) = <<92, letter>>
    BY <1>2 DEF Escaped, Quote, Backslash
  <2> HIDE DEF letter
  <2>4. letter \in {110, 114, 116} /\ ReadEscapes[letter] = c
    BY <2>2, EscapesAre
  <2> QED
    BY <2>3, <2>4
<1>3. CASE c \notin {34, 92, 9, 10, 13}
  <2>1. Escaped(c) = IF c < 32
                     THEN <<92, 117, 48, 48, HexByte(c \div 16), HexByte(c % 16)>> ELSE <<c>>
    BY <1>3, Zenon DEF Escaped, Quote, Backslash
  <2> QED
    BY <1>3, <2>1, Zenon
<1> QED
  BY <1>1, <1>2, <1>3

(* They are string again. *)
LEMMA EscapedType ==
  ASSUME NEW c \in Byte
  PROVE  Escaped(c) \in Seq(Byte)
<1>1. CASE c \in {34, 92} /\ Escaped(c) = <<92, c>>
  BY <1>1 DEF Byte
<1>2. CASE \E letter \in {110, 114, 116} : Escaped(c) = <<92, letter>>
  BY <1>2 DEF Byte
<1>3. CASE c < 32 /\ Escaped(c) = <<92, 117, 48, 48, HexByte(c \div 16), HexByte(c % 16)>>
  <2>1. HexByte(c \div 16) \in Byte /\ HexByte(c % 16) \in Byte
    BY <1>3, Nibbles, HexDigit
  <2>2. 92 \in Byte /\ 117 \in Byte /\ 48 \in Byte
    BY DEF Byte
  <2> QED
    BY <1>3, <2>1, <2>2
<1>4. CASE Escaped(c) = <<c>>
  BY <1>4
<1> QED
  BY <1>1, <1>2, <1>3, <1>4, EscapedIs

(* The escaped string follow each other: at[k] is where the first k end.    *)
Places(string, at, n) ==
  /\ at \in [0 .. n -> Nat] /\ at[0] = 0 /\ at[n] = Len(Escape(string))
  /\ \A k \in 0 .. n - 1 :
       /\ at[k + 1] = at[k] + Len(Escaped(string[k + 1])) /\ at[k + 1] <= at[n]
       /\ \A j \in 1 .. Len(Escaped(string[k + 1])) :
            Escape(string)[at[k] + j] = Escaped(string[k + 1])[j]

(* Escape() one byte after the other. *)
LEMMA EscapeGrows ==
  ASSUME NEW string \in Seq(Byte), NEW n \in Nat \ {0}, Len(string) = n
  PROVE  \E e \in [0 .. n -> Seq(Byte)] :
            /\ e[0] = <<>> /\ e[n] = Escape(string)
            /\ \A k \in 0 .. n - 1 : e[k + 1] = e[k] \o Escaped(string[k + 1])
<1> DEFINE s == [i \in DOMAIN string |-> Escaped(string[i])]
<1>1. /\ DOMAIN string = 1 .. n /\ DOMAIN s = 1 .. n
      /\ \A i \in 1 .. n : string[i] \in Byte /\ s[i] = Escaped(string[i]) /\ s[i] \in Seq(Byte)
  BY EscapedType
<1>2. s \in Seq(Seq(Byte)) /\ Len(s) = n
  <2>1. s \in [1 .. n -> Seq(Byte)]
    BY <1>1
  <2> HIDE DEF s
  <2> QED
    BY <2>1
<1>3. Escape(string) = FlattenSeq(s)
  BY DEF Escape
<1> HIDE DEF s
<1>4. PICK f : /\ f = [i \in 1 .. n |-> IF i = 1 THEN s[i] ELSE f[i - 1] \o s[i]]
               /\ FlattenSeq(s) = f[n]
  BY <1>2, Flattened
<1> DEFINE e == [k \in 0 .. n |-> IF k = 0 THEN <<>> ELSE f[k]]
<1>5. e[0] = <<>> /\ e[n] = Escape(string)
  BY <1>3, <1>4
<1>6. ASSUME NEW k \in 0 .. n - 1, e[k] \in Seq(Byte)
      PROVE  e[k + 1] = e[k] \o Escaped(string[k + 1]) /\ e[k + 1] \in Seq(Byte)
  <2>1. k + 1 \in 1 .. n /\ k \in 0 .. n /\ k + 1 # 0 /\ (k + 1) - 1 = k /\ k + 1 \in 0 .. n
    OBVIOUS
  <2>2. s[k + 1] = Escaped(string[k + 1]) /\ s[k + 1] \in Seq(Byte)
    BY <1>1, <2>1
  <2>3. f[k + 1] = IF k + 1 = 1 THEN s[k + 1] ELSE f[k] \o s[k + 1]
    BY <1>4, <2>1
  <2>4. e[k + 1] = f[k + 1] /\ e[k] = IF k = 0 THEN <<>> ELSE f[k]
    BY <2>1
  <2> HIDE DEF e
  <2>5. e[k + 1] = e[k] \o s[k + 1]
    <3>1. CASE k = 0
      BY <2>2, <2>3, <2>4, <3>1
    <3>2. CASE k # 0
      <4>1. k + 1 # 1
        BY <3>2
      <4> QED
        BY <2>3, <2>4, <3>2, <4>1, Zenon
    <3> QED
      BY <3>1, <3>2
  <2> QED
    BY <1>6, <2>2, <2>5
<1> DEFINE good == {k \in Nat : k <= n => e[k] \in Seq(Byte)}
<1>7. 0 \in good
  BY <1>5
<1>8. ASSUME NEW k \in Nat, k \in good PROVE k + 1 \in good
  <2> HIDE DEF e
  <2>1. k + 1 <= n => k \in 0 .. n - 1 /\ e[k] \in Seq(Byte)
    BY <1>8
  <2>2. k + 1 <= n => e[k + 1] \in Seq(Byte)
    BY <1>6, <2>1
  <2> QED
    BY <2>2
<1> HIDE DEF good
<1>9. \A k \in Nat : k \in good
  BY <1>7, <1>8, Upward
<1>10. \A k \in 0 .. n : e[k] \in Seq(Byte)
  <2> HIDE DEF e
  <2> QED
    BY <1>9 DEF good
<1>11. e \in [0 .. n -> Seq(Byte)]
  BY <1>10
<1>12. \A k \in 0 .. n - 1 : e[k + 1] = e[k] \o Escaped(string[k + 1])
  <2> HIDE DEF e
  <2>1. \A k \in 0 .. n - 1 : e[k] \in Seq(Byte)
    BY <1>10
  <2> QED
    BY <1>6, <2>1
<1> HIDE DEF e
<1> QED
  BY <1>5, <1>11, <1>12

(* Each byte of a string has a place in the escaped one where its escape stands. *)
LEMMA EscapePlaces ==
  ASSUME NEW string \in Seq(Byte), NEW n \in Nat, Len(string) = n
  PROVE  Escape(string) \in Seq(Byte) /\ \E at : Places(string, at, n)
<1>1. CASE n = 0
  <2>1. string = <<>>
    BY <1>1
  <2>2. [i \in DOMAIN string |-> Escaped(string[i])] = <<>>
    BY <2>1
  <2>3. Escape(string) = <<>>
    <3> DEFINE s == [i \in DOMAIN string |-> Escaped(string[i])]
    <3>1. s = <<>> /\ Len(s) = 0
      BY <2>2
    <3>2. Escape(string) = FlattenSeq(s)
      BY DEF Escape
    <3> HIDE DEF s
    <3> QED
      BY <3>1, <3>2 DEF FlattenSeq
  <2> DEFINE at == [k \in 0 .. n |-> 0]
  <2>4. Places(string, at, n)
    BY <1>1, <2>3 DEF Places
  <2> HIDE DEF at
  <2> QED
    BY <2>3, <2>4
<1>2. CASE n # 0
  <2>1. n \in Nat \ {0}
    BY <1>2
  <2>2. PICK e \in [0 .. n -> Seq(Byte)] :
            /\ e[0] = <<>> /\ e[n] = Escape(string)
            /\ \A k \in 0 .. n - 1 : e[k + 1] = e[k] \o Escaped(string[k + 1])
    BY <2>1, EscapeGrows
  <2> DEFINE at == [k \in 0 .. n |-> Len(e[k])]
             kept == {m \in Nat : m <= n => \A k \in 0 .. m :
                        /\ Len(e[k]) <= Len(e[m])
                        /\ \A j \in 1 .. Len(e[k]) : e[m][j] = e[k][j]}
  <2>3. \A k \in 0 .. n : e[k] \in Seq(Byte) /\ Len(e[k]) \in Nat
    OBVIOUS
  <2>4. \A k \in 0 .. n - 1 : string[k + 1] \in Byte /\ Escaped(string[k + 1]) \in Seq(Byte)
    <3>1. \A k \in 0 .. n - 1 : string[k + 1] \in Byte
      OBVIOUS
    <3> QED
      BY <3>1, EscapedType
  <2>5. 0 \in kept
    BY <2>3
  <2>6. ASSUME NEW m \in Nat, m \in kept PROVE m + 1 \in kept
    <3>1. SUFFICES ASSUME m + 1 <= n, NEW k \in 0 .. m + 1
                   PROVE  /\ Len(e[k]) <= Len(e[m + 1])
                          /\ \A j \in 1 .. Len(e[k]) : e[m + 1][j] = e[k][j]
      OBVIOUS
    <3>2. m \in 0 .. n - 1 /\ m \in 0 .. n
      BY <3>1
    <3>3. e[m + 1] = e[m] \o Escaped(string[m + 1])
      BY <2>2, <3>2
    <3>4. /\ Len(e[m]) <= Len(e[m + 1])
          /\ \A j \in 1 .. Len(e[m]) : e[m + 1][j] = e[m][j]
      BY <2>3, <2>4, <3>2, <3>3
    <3>5. CASE k = m + 1
      BY <2>3, <3>1, <3>5
    <3>6. CASE k \in 0 .. m
      <4>1. Len(e[k]) <= Len(e[m]) /\ \A j \in 1 .. Len(e[k]) : e[m][j] = e[k][j]
        BY <2>6, <3>2, <3>6
      <4>2. k \in 0 .. n /\ m + 1 \in 0 .. n
        BY <3>1
      <4>3. Len(e[k]) \in Nat /\ Len(e[m]) \in Nat /\ Len(e[m + 1]) \in Nat
        BY <2>3, <3>2, <4>2
      <4> QED
        BY <3>4, <4>1, <4>3
    <3> QED
      BY <3>1, <3>5, <3>6
  <2> HIDE DEF kept
  <2>7. \A m \in Nat : m \in kept
    BY <2>5, <2>6, Upward
  <2>8. \A k \in 0 .. n :
          Len(e[k]) <= Len(e[n]) /\ \A j \in 1 .. Len(e[k]) : e[n][j] = e[k][j]
    BY <2>7 DEF kept
  <2>9. at \in [0 .. n -> Nat] /\ at[0] = 0 /\ at[n] = Len(Escape(string))
    BY <2>2, <2>3
  <2>10. ASSUME NEW k \in 0 .. n - 1
         PROVE  /\ at[k + 1] = at[k] + Len(Escaped(string[k + 1])) /\ at[k + 1] <= at[n]
                /\ \A j \in 1 .. Len(Escaped(string[k + 1])) :
                     Escape(string)[at[k] + j] = Escaped(string[k + 1])[j]
    <3>1. k \in 0 .. n /\ k + 1 \in 0 .. n /\ n \in 0 .. n
      OBVIOUS
    <3>2. at[k] = Len(e[k]) /\ at[k + 1] = Len(e[k + 1]) /\ at[n] = Len(e[n])
      BY <3>1
    <3> HIDE DEF at
    <3>3. e[k + 1] = e[k] \o Escaped(string[k + 1])
      BY <2>2
    <3>4. /\ Len(e[k + 1]) = Len(e[k]) + Len(Escaped(string[k + 1]))
          /\ \A j \in 1 .. Len(Escaped(string[k + 1])) :
               /\ Len(e[k]) + j \in 1 .. Len(e[k + 1])
               /\ e[k + 1][Len(e[k]) + j] = Escaped(string[k + 1])[j]
      BY <2>3, <2>4, <3>1, <3>3
    <3>5. \A j \in 1 .. Len(e[k + 1]) : e[n][j] = e[k + 1][j]
      BY <2>8, <3>1
    <3>6. Len(e[k + 1]) <= Len(e[n])
      BY <2>8, <3>1
    <3>7. e[n] = Escape(string)
      BY <2>2
    <3> QED
      BY <3>2, <3>4, <3>5, <3>6, <3>7
  <2>11. Places(string, at, n)
    <3> HIDE DEF at
    <3> QED
      BY <2>9, <2>10 DEF Places
  <2>12. Escape(string) \in Seq(Byte)
    BY <2>2
  <2> HIDE DEF at
  <2> QED
    BY <2>11, <2>12
<1> QED
  BY <1>1, <1>2

(* text stands in t from position p on. *)
Stands(t, p, text) == \A j \in 1 .. Len(text) : t[p + j - 1] = text[j]

(* f is the function that ClosingQuote, or Decode, computes for t.         *)
Quotes(t, f) == \A i \in 1 .. Len(t) + 1 : f[i] = QuoteStep(t, f, i)
Decodes(t, f) == \A i \in 1 .. Len(t) + 1 : f[i] = DecodeStep(t, f, i)

(* jsmn goes over what was written for one byte without stopping.          *)
LEMMA QuotePasses ==
  ASSUME NEW c \in Byte, NEW t, NEW f, NEW p \in Nat \ {0},
         Len(t) \in Nat, p + Len(Escaped(c)) <= Len(t),
         Stands(t, p, Escaped(c)), Quotes(t, f)
  PROVE  f[p] = f[p + Len(Escaped(c))]
<1> DEFINE n == Len(t)
<1>1. n \in Nat /\ p + Len(Escaped(c)) <= n /\ Len(t) = n
  OBVIOUS
<1>2. \A j \in 1 .. Len(Escaped(c)) : t[p + j - 1] = Escaped(c)[j]
  BY DEF Stands
<1>3. \A i \in 1 .. n + 1 : f[i] = QuoteStep(t, f, i)
  BY DEF Quotes
<1> HIDE DEF n
<1>4. CASE c \in {34, 92} /\ Escaped(c) = <<92, c>>
  <2>1. Len(Escaped(c)) = 2 /\ t[p] = 92 /\ t[p + 1] = c
    BY <1>2, <1>4
  <2>2. p < n /\ p \in 1 .. n + 1
    BY <1>1, <2>1
  <2>3. f[p] = f[p + 2]
    BY <1>3, <1>4, <2>1, <2>2 DEF QuoteStep, Quote, Backslash
  <2> QED
    BY <2>1, <2>3
<1>5. CASE \E letter \in {110, 114, 116} : Escaped(c) = <<92, letter>>
  <2>1. PICK letter \in {110, 114, 116} : Escaped(c) = <<92, letter>>
    BY <1>5
  <2>2. Len(Escaped(c)) = 2 /\ t[p] = 92 /\ t[p + 1] = letter
    BY <1>2, <2>1
  <2>3. p < n /\ p \in 1 .. n + 1
    BY <1>1, <2>2
  <2>4. letter \in DOMAIN ReadEscapes /\ letter # 117
    BY EscapesAre
  <2>5. f[p] = f[p + 2]
    BY <1>3, <2>2, <2>3, <2>4 DEF QuoteStep, Quote, Backslash
  <2> QED
    BY <2>2, <2>5
<1>6. CASE c < 32 /\ Escaped(c) = <<92, 117, 48, 48, HexByte(c \div 16), HexByte(c % 16)>>
  <2> DEFINE a == HexByte(c \div 16)
             b == HexByte(c % 16)
  <2>1. IsHex(48) /\ IsHex(a) /\ IsHex(b)
    <3>1. IsHex(48)
      BY DEF IsHex
    <3> QED
      BY <1>6, <3>1, Nibbles, HexDigit
  <2> HIDE DEF a, b
  <2>2. Escaped(c) = <<92, 117, 48, 48, a, b>>
    BY <1>6 DEF a, b
  <2>3. /\ Len(Escaped(c)) = 6 /\ t[p] = 92 /\ t[p + 1] = 117
        /\ t[p + 2] = 48 /\ t[p + 3] = 48 /\ t[p + 4] = a /\ t[p + 5] = b
    BY <1>2, <2>2
  <2>4. p < n /\ p \in 1 .. n + 1 /\ p + 2 + 3 <= n
    BY <1>1, <2>3
  <2>5. \A j \in p + 2 .. p + 2 + 3 : j = p + 2 \/ j = p + 3 \/ j = p + 4 \/ j = p + 5
    OBVIOUS
  <2>6. HexAt(t, p + 2)
    BY <1>1, <2>1, <2>3, <2>4, <2>5 DEF HexAt
  <2>7. f[p] = f[p + 6]
    BY <1>1, <1>3, <2>3, <2>4, <2>6 DEF QuoteStep, Quote, Backslash
  <2> QED
    BY <2>3, <2>7
<1>7. CASE c \notin {34, 92} /\ Escaped(c) = <<c>>
  <2>1. Len(Escaped(c)) = 1 /\ t[p] = c
    BY <1>2, <1>7
  <2>2. p \in 1 .. n + 1 /\ ~ (p > n)
    BY <1>1, <2>1
  <2>3. f[p] = f[p + 1]
    BY <1>3, <1>7, <2>1, <2>2 DEF QuoteStep, Quote, Backslash
  <2> QED
    BY <2>1, <2>3
<1> QED
  BY <1>4, <1>5, <1>6, <1>7, EscapedIs

(* The closing quote is the one that was written to close the string.      *)
LEMMA QuoteFound ==
  ASSUME NEW string \in Seq(Byte)
  PROVE  ClosingQuote(Append(Escape(string), Quote)) = Len(Escape(string)) + 1
<1> DEFINE n == Len(string)
           t == Append(Escape(string), Quote)
           m == Len(Escape(string)) + 1
<1>1. n \in Nat /\ Escape(string) \in Seq(Byte)
  BY EscapePlaces
<1>2. PICK at : Places(string, at, n)
  BY <1>1, EscapePlaces
<1>3. /\ m \in Nat \ {0} /\ Len(t) = m /\ t[m] = Quote
      /\ \A j \in 1 .. m - 1 : t[j] = Escape(string)[j]
  BY <1>1
<1>4. at[n] = m - 1
  BY <1>1, <1>2 DEF Places
<1> HIDE DEF n, t, m
<1>5. PICK f : f = [i \in 1 .. m + 1 |-> QuoteStep(t, f, i)] /\ ClosingQuote(t) = f[1]
  BY <1>3, QuoteIs
<1>6. \A i \in 1 .. m + 1 : f[i] = QuoteStep(t, f, i)
  BY <1>5, Zenon
<1> DEFINE passed == {k \in Nat : k <= n => f[1] = f[at[k] + 1]}
<1>7. 0 \in passed
  BY <1>2 DEF Places
<1>8. ASSUME NEW k \in Nat, k \in passed PROVE k + 1 \in passed
  <2>1. SUFFICES ASSUME k + 1 <= n PROVE f[1] = f[at[k + 1] + 1]
    OBVIOUS
  <2>2. k \in 0 .. n - 1 /\ k \in 0 .. n /\ k + 1 \in 0 .. n /\ k + 1 \in 1 .. n
    BY <1>1, <2>1
  <2> DEFINE c == string[k + 1]
             p == at[k] + 1
  <2>3. c \in Byte
    BY <2>2 DEF n
  <2>4. Escaped(c) \in Seq(Byte) /\ Len(Escaped(c)) \in Nat
    BY <2>3, EscapedType
  <2>5. at[k] \in Nat /\ at[k + 1] \in Nat
    BY <1>2, <2>2 DEF Places
  <2>6. /\ at[k + 1] = at[k] + Len(Escaped(c)) /\ at[k + 1] <= m - 1
        /\ \A j \in 1 .. Len(Escaped(c)) : Escape(string)[at[k] + j] = Escaped(c)[j]
    BY <1>2, <1>4, <2>2 DEF Places
  <2> HIDE DEF c
  <2>7. p \in Nat \ {0} /\ p + Len(Escaped(c)) <= m
    BY <1>3, <2>4, <2>5, <2>6
  <2>8. ASSUME NEW j \in 1 .. Len(Escaped(c)) PROVE t[p + j - 1] = Escaped(c)[j]
    <3>1. p + j - 1 = at[k] + j /\ at[k] + j \in 1 .. m - 1
      BY <1>3, <2>4, <2>5, <2>6
    <3> QED
      BY <1>3, <2>6, <3>1
  <2>9. p + Len(Escaped(c)) = at[k + 1] + 1
    BY <2>4, <2>5, <2>6
  <2>10. f[1] = f[p]
    BY <1>8, <2>2
  <2> HIDE DEF p
  <2>11. f[p] = f[p + Len(Escaped(c))]
    <3>1. Len(t) = m /\ m \in Nat
      BY <1>3
    <3>2. Stands(t, p, Escaped(c))
      BY <2>8 DEF Stands
    <3>3. Quotes(t, f)
      BY <1>6, <3>1 DEF Quotes
    <3>4. p + Len(Escaped(c)) <= Len(t)
      BY <2>7, <3>1
    <3>5. Len(t) \in Nat /\ p \in Nat \ {0}
      BY <2>7, <3>1
    <3> HIDE DEF passed
    <3> QED
      BY <2>3, <3>2, <3>3, <3>4, <3>5, QuotePasses
  <2> QED
    BY <2>9, <2>10, <2>11
<1> HIDE DEF passed
<1>9. \A k \in Nat : k \in passed
  BY <1>7, <1>8, Upward
<1>10. f[1] = f[m]
  BY <1>1, <1>3, <1>4, <1>9 DEF passed
<1>11. f[m] = m
  BY <1>3, <1>6 DEF QuoteStep
<1> QED
  BY <1>5, <1>10, <1>11 DEF t, m

(* A control character is its own UTF-8. *)
LEMMA ControlIsOneByte ==
  ASSUME NEW c \in Byte, c < 32
  PROVE  Utf8(c) = <<c>>
<1>1. ~ (c \in 55296 .. 57343) /\ c < 128
  BY DEF Byte
<1> QED
  BY <1>1 DEF Utf8

(* str_at() gives the byte back for which an escape was written.           *)
LEMMA DecodePasses ==
  ASSUME NEW c \in Byte, NEW t, NEW f, NEW p \in Nat \ {0},
         Len(t) \in Nat, p + Len(Escaped(c)) <= Len(t) + 1,
         Stands(t, p, Escaped(c)), Decodes(t, f)
  PROVE  f[p] = Before(<<c>>, f[p + Len(Escaped(c))])
<1> DEFINE n == Len(t)
<1>1. n \in Nat /\ p + Len(Escaped(c)) <= n + 1 /\ Len(t) = n
  OBVIOUS
<1>2. \A j \in 1 .. Len(Escaped(c)) : t[p + j - 1] = Escaped(c)[j]
  BY DEF Stands
<1>3. \A i \in 1 .. n + 1 : f[i] = DecodeStep(t, f, i)
  BY DEF Decodes
<1> HIDE DEF n
<1>4. CASE c \in {34, 92} /\ Escaped(c) = <<92, c>>
  <2>1. Len(Escaped(c)) = 2 /\ t[p] = 92 /\ t[p + 1] = c
    BY <1>2, <1>4
  <2>2. p < n /\ p \in 1 .. n + 1
    BY <1>1, <2>1
  <2>3. c \notin DOMAIN ReadEscapes /\ c # 117
    BY <1>4, EscapesAre
  <2>4. f[p] = DecodeStep(t, f, p) /\ ~ (p > Len(t)) /\ p # Len(t) /\ t[p] = Backslash
    BY <1>3, <2>1, <2>2 DEF Backslash
  <2>5. f[p] = Before(<<t[p + 1]>>, f[p + 2])
    BY <2>1, <2>3, <2>4, Zenon DEF DecodeStep
  <2> QED
    BY <2>1, <2>5
<1>5. CASE \E letter \in {110, 114, 116} : Escaped(c) = <<92, letter>> /\ ReadEscapes[letter] = c
  <2>1. PICK letter \in {110, 114, 116} : Escaped(c) = <<92, letter>> /\ ReadEscapes[letter] = c
    BY <1>5
  <2>2. Len(Escaped(c)) = 2 /\ t[p] = 92 /\ t[p + 1] = letter
    BY <1>2, <2>1
  <2>3. p < n /\ p \in 1 .. n + 1
    BY <1>1, <2>2
  <2>4. letter \in DOMAIN ReadEscapes /\ letter # 117
    BY EscapesAre
  <2>5. f[p] = DecodeStep(t, f, p) /\ ~ (p > Len(t)) /\ p # Len(t) /\ t[p] = Backslash
    BY <1>3, <2>2, <2>3 DEF Backslash
  <2>6. f[p] = Before(<<ReadEscapes[t[p + 1]]>>, f[p + 2])
    BY <2>2, <2>4, <2>5, Zenon DEF DecodeStep
  <2> QED
    BY <2>1, <2>2, <2>6
<1>6. CASE c < 32 /\ Escaped(c) = <<92, 117, 48, 48, HexByte(c \div 16), HexByte(c % 16)>>
  <2> DEFINE a == HexByte(c \div 16)
             b == HexByte(c % 16)
  <2>1. /\ IsHex(48) /\ IsHex(a) /\ IsHex(b)
        /\ HexValue(48) = 0 /\ HexValue(a) = c \div 16 /\ HexValue(b) = c % 16
    <3>1. IsHex(48) /\ HexValue(48) = 0
      BY DEF IsHex, HexValue
    <3> QED
      BY <1>6, <3>1, Nibbles, HexDigit
  <2> HIDE DEF a, b
  <2>2. Escaped(c) = <<92, 117, 48, 48, a, b>>
    BY <1>6 DEF a, b
  <2>3. /\ Len(Escaped(c)) = 6 /\ t[p] = 92 /\ t[p + 1] = 117
        /\ t[p + 2] = 48 /\ t[p + 3] = 48 /\ t[p + 4] = a /\ t[p + 5] = b
    BY <1>2, <2>2
  <2>4. p < n /\ p \in 1 .. n + 1 /\ p + 2 + 3 <= n
    BY <1>1, <2>3
  <2>5. \A j \in p + 2 .. p + 2 + 3 : j = p + 2 \/ j = p + 3 \/ j = p + 4 \/ j = p + 5
    OBVIOUS
  <2>6. HexAt(t, p + 2)
    BY <1>1, <2>1, <2>3, <2>4, <2>5 DEF HexAt
  <2>7. p + 2 + 1 = p + 3 /\ p + 2 + 2 = p + 4 /\ p + 2 + 3 = p + 5
    OBVIOUS
  <2>8. CodeAt(t, p + 2) = 4096 * 0 + 256 * 0 + 16 * (c \div 16) + (c % 16)
    BY <2>1, <2>3, <2>7 DEF CodeAt
  <2>9. CodeAt(t, p + 2) = c
    <3> DEFINE x == c \div 16
               y == c % 16
    <3>1. x \in 0 .. 15 /\ y \in 0 .. 15 /\ c = 16 * x + y
      BY <1>6, Nibbles
    <3>2. CodeAt(t, p + 2) = 4096 * 0 + 256 * 0 + 16 * x + y
      BY <2>8
    <3> HIDE DEF x, y
    <3> QED
      BY <3>1, <3>2
  <2>10. Utf8(c) = <<c>>
    BY <1>6, ControlIsOneByte
  <2>11. f[p] = DecodeStep(t, f, p) /\ ~ (p > Len(t)) /\ p # Len(t) /\ t[p] = Backslash
    BY <1>3, <2>3, <2>4 DEF Backslash
  <2>12. f[p] = Before(<<c>>, f[p + 6])
    BY <2>3, <2>6, <2>9, <2>10, <2>11, Zenon DEF DecodeStep
  <2> QED
    BY <2>3, <2>12
<1>7. CASE c \notin {34, 92} /\ Escaped(c) = <<c>>
  <2>1. Len(Escaped(c)) = 1 /\ t[p] = c
    BY <1>2, <1>7
  <2>2. p \in 1 .. n + 1 /\ ~ (p > n)
    BY <1>1, <2>1
  <2>3. f[p] = Before(<<c>>, f[p + 1])
    BY <1>1, <1>3, <1>7, <2>1, <2>2 DEF DecodeStep, Backslash
  <2> QED
    BY <2>1, <2>3
<1> QED
  BY <1>4, <1>5, <1>6, <1>7, EscapedIs

(* No decoded text is taken for a failure. *)
LEMMA ValidIs ==
  ASSUME NEW s \in Seq(Nat)
  PROVE  s # Invalid
<1>1. Invalid[1] = -1 /\ Len(Invalid) = 1
  BY DEF Invalid
<1>2. Len(s) = 1 => s[1] \in Nat
  <2>1. Len(s) = 1 => 1 \in 1 .. Len(s)
    OBVIOUS
  <2> QED
    BY <2>1, ElementOfSeq
<1> QED
  BY <1>1, <1>2

(* A string that was escaped is decoded to what it was.                    *)
LEMMA EscapedIsDecoded ==
  ASSUME NEW string \in Seq(Byte)
  PROVE  Decode(Escape(string)) = string
<1> DEFINE n == Len(string)
           t == Escape(string)
           m == Len(Escape(string))
<1>1. n \in Nat /\ Escape(string) \in Seq(Byte)
  BY EscapePlaces
<1>2. PICK at : Places(string, at, n)
  BY <1>1, EscapePlaces
<1>3. m \in Nat /\ Len(t) = m
  BY <1>1
<1>4. at[n] = m /\ at[0] = 0
  BY <1>1, <1>2 DEF Places
<1>5. string \in [1 .. n -> Byte]
  OBVIOUS
<1> HIDE DEF n, m
<1>6. PICK f : f = [i \in 1 .. m + 1 |-> DecodeStep(t, f, i)] /\ Decode(t) = f[1]
  BY <1>3, DecodeIs
<1>7. \A i \in 1 .. m + 1 : f[i] = DecodeStep(t, f, i)
  BY <1>6, Zenon
<1> DEFINE rest(k) == [i \in 1 .. k |-> string[n - k + i]]
           decoded == {k \in Nat : k <= n => f[at[n - k] + 1] = rest(k)}
<1>8. 0 \in decoded
  <2>1. f[m + 1] = DecodeStep(t, f, m + 1) /\ m + 1 > Len(t)
    BY <1>3, <1>7
  <2>2. f[m + 1] = <<>>
    BY <2>1, Zenon DEF DecodeStep
  <2>3. rest(0) = <<>> /\ n - 0 = n
    BY <1>1
  <2> QED
    BY <1>4, <2>2, <2>3
<1>9. ASSUME NEW k \in Nat, k \in decoded PROVE k + 1 \in decoded
  <2>1. SUFFICES ASSUME k + 1 <= n PROVE f[at[n - (k + 1)] + 1] = rest(k + 1)
    OBVIOUS
  <2> DEFINE q == n - (k + 1)
             c == string[q + 1]
             p == at[q] + 1
  <2>2. q \in 0 .. n - 1 /\ q \in 0 .. n /\ q + 1 \in 0 .. n /\ q + 1 \in 1 .. n /\ q + 1 = n - k
    BY <1>1, <2>1
  <2>3. f[at[q + 1] + 1] = rest(k)
    <3>1. k <= n
      BY <1>1, <2>1
    <3>2. f[at[n - k] + 1] = rest(k)
      BY <1>9, <3>1
    <3> HIDE DEF q, rest
    <3> QED
      BY <2>2, <3>2
  <2> HIDE DEF q
  <2>4. c \in Byte
    BY <1>5, <2>2
  <2>5. Escaped(c) \in Seq(Byte) /\ Len(Escaped(c)) \in Nat
    BY <2>4, EscapedType
  <2>6. at[q] \in Nat /\ at[q + 1] \in Nat
    BY <1>2, <2>2 DEF Places
  <2>7. /\ at[q + 1] = at[q] + Len(Escaped(c)) /\ at[q + 1] <= m
        /\ \A j \in 1 .. Len(Escaped(c)) : t[at[q] + j] = Escaped(c)[j]
    BY <1>2, <1>4, <2>2 DEF Places
  <2> HIDE DEF c
  <2>8. p \in Nat \ {0} /\ p + Len(Escaped(c)) <= m + 1
    BY <1>3, <2>5, <2>6, <2>7
  <2>9. ASSUME NEW j \in 1 .. Len(Escaped(c)) PROVE t[p + j - 1] = Escaped(c)[j]
    <3>1. p + j - 1 = at[q] + j
      BY <2>5, <2>6
    <3> QED
      BY <2>7, <3>1
  <2>10. p + Len(Escaped(c)) = at[q + 1] + 1
    BY <2>5, <2>6, <2>7
  <2> HIDE DEF p
  <2>11. f[p] = Before(<<c>>, f[p + Len(Escaped(c))])
    <3> HIDE DEF t, rest, decoded
    <3>1. Len(t) = m /\ m \in Nat
      BY <1>3
    <3>2. Stands(t, p, Escaped(c))
      BY <2>9 DEF Stands
    <3>3. Decodes(t, f)
      BY <1>7, <3>1 DEF Decodes
    <3>4. p + Len(Escaped(c)) <= Len(t) + 1
      BY <2>8, <3>1
    <3>5. Len(t) \in Nat /\ p \in Nat \ {0}
      BY <2>8, <3>1
    <3> QED
      BY <2>4, <3>2, <3>3, <3>4, <3>5, DecodePasses
  <2>12. f[p] = Before(<<c>>, rest(k))
    BY <2>3, <2>10, <2>11
  <2>13. rest(k) \in Seq(Nat) /\ Len(rest(k)) = k
    <3>1. \A i \in 1 .. k : n - k + i \in 1 .. n
      BY <1>1, <2>1
    <3>2. \A i \in 1 .. n : string[i] \in Nat
      <4>1. \A b \in Byte : b \in Nat
        BY DEF Byte
      <4> HIDE DEF t, decoded, rest
      <4> QED
        BY <1>5, <4>1
    <3>3. \A i \in 1 .. k : string[n - k + i] \in Nat
      BY <3>1, <3>2
    <3> QED
      BY <3>3
  <2>14. f[p] = <<c>> \o rest(k)
    BY <2>12, <2>13, ValidIs DEF Before
  <2>15. <<c>> \o rest(k) = rest(k + 1)
    <3>1. c = string[n - (k + 1) + 1]
      BY DEF c, q
    <3>2. n \in Nat /\ \A i \in 1 .. k : n - k + i = n - (k + 1) + (i + 1)
      BY <1>1
    <3>3. <<c>> \o rest(k) = [i \in 1 .. k + 1 |-> IF i = 1 THEN c ELSE rest(k)[i - 1]]
      BY <2>13
    <3>4. \A i \in 1 .. k + 1 : (IF i = 1 THEN c ELSE rest(k)[i - 1]) = string[n - (k + 1) + i]
      BY <3>1, <3>2
    <3> QED
      BY <3>3, <3>4
  <2> QED
    BY <2>14, <2>15 DEF p, q
<1> HIDE DEF decoded
<1>10. \A k \in Nat : k \in decoded
  BY <1>8, <1>9, Upward
<1>11. n - n = 0 /\ n <= n
  BY <1>1
<1>12. f[1] = rest(n)
  BY <1>1, <1>4, <1>10, <1>11 DEF decoded
<1>13. rest(n) = string
  BY <1>1, <1>5
<1> QED
  BY <1>6, <1>12, <1>13

(* The parts of a decoded text. *)
LEMMA BeforeType ==
  ASSUME NEW text \in Seq(Nat), NEW rest \in Seq(Nat)
  PROVE  Before(text, rest) \in Seq(Nat) /\ Len(Before(text, rest)) = Len(text) + Len(rest)
<1>1. Before(text, rest) = text \o rest
  BY ValidIs DEF Before
<1> QED
  BY <1>1

(* A code unit is at most three string. *)
LEMMA Utf8Type ==
  ASSUME NEW code \in Nat
  PROVE  Utf8(code) \in Seq(Nat) /\ Len(Utf8(code)) <= 3
<1> DEFINE a == code \div 64
           b == code % 64
           c == code \div 4096
           d == (code \div 64) % 64
<1>1. a \in Nat /\ b \in Nat /\ c \in Nat /\ d \in Nat
  OBVIOUS
<1> DEFINE two == <<192 + a, 128 + b>>
           three == <<224 + c, 128 + d, 128 + b>>
<1>2. Utf8(code) = IF code \in 55296 .. 57343 THEN <<63>>
                   ELSE IF code < 128 THEN <<code>>
                   ELSE IF code < 2048 THEN two ELSE three
  BY DEF Utf8
<1>3. two \in Seq(Nat) /\ Len(two) <= 3 /\ three \in Seq(Nat) /\ Len(three) <= 3
  <2> HIDE DEF a, b, c, d
  <2>1. two \in Seq(Nat) /\ Len(two) = 2
    BY <1>1
  <2>2. three \in Seq(Nat) /\ Len(three) = 3
    BY <1>1
  <2> HIDE DEF two, three
  <2> QED
    BY <2>1, <2>2
<1>4. <<63>> \in Seq(Nat) /\ Len(<<63>>) <= 3
  OBVIOUS
<1>5. <<code>> \in Seq(Nat) /\ Len(<<code>>) <= 3
  OBVIOUS
<1> HIDE DEF two, three
<1>6. \/ Utf8(code) = <<63>> \/ Utf8(code) = <<code>>
      \/ Utf8(code) = two \/ Utf8(code) = three
  BY <1>2, SMTT(30)
<1> QED
  BY <1>3, <1>4, <1>5, <1>6, Zenon

(* Four digits are a number. *)
LEMMA CodeType ==
  ASSUME NEW t, NEW i \in Nat, HexAt(t, i)
  PROVE  CodeAt(t, i) \in Nat
<1>1. \A x : IsHex(x) => HexValue(x) \in Nat
  BY DEF IsHex, HexValue
<1>2. Len(t) \in Nat => {i, i + 1, i + 2, i + 3} \subseteq i .. i + 3
  OBVIOUS
<1>3. HexValue(t[i]) \in Nat /\ HexValue(t[i + 1]) \in Nat
      /\ HexValue(t[i + 2]) \in Nat /\ HexValue(t[i + 3]) \in Nat
  <2>1. i \in i .. i + 3 /\ i + 1 \in i .. i + 3 /\ i + 2 \in i .. i + 3 /\ i + 3 \in i .. i + 3
    OBVIOUS
  <2>2. IsHex(t[i]) /\ IsHex(t[i + 1]) /\ IsHex(t[i + 2]) /\ IsHex(t[i + 3])
    BY <2>1, Zenon DEF HexAt
  <2> QED
    BY <1>1, <2>2, Zenon
<1> QED
  BY <1>3 DEF CodeAt

(* What jsmn accepts as the inside of a string is decoded: an escape that  *)
(* it has gone over is complete and known, and writes no more string than   *)
(* it has.                                                                 *)
LEMMA AcceptedIsDecoded ==
  ASSUME NEW string \in Seq(Byte), ClosingQuote(Append(string, Quote)) = Len(string) + 1
  PROVE  Decode(string) \in Seq(Nat) /\ Len(Decode(string)) <= Len(string)
<1> DEFINE n == Len(string)
           t == Append(string, Quote)
<1>1. n \in Nat /\ Len(string) = n /\ n + 1 \in Nat /\ (n + 1) + 1 = n + 2
  OBVIOUS
<1>2. Len(t) = n + 1 /\ t[n + 1] = 34 /\ \A i \in 1 .. n : t[i] = string[i]
  BY DEF Quote
<1>3. \A i \in 1 .. n : string[i] \in Nat
  <2>1. \A b \in Byte : b \in Nat
    BY DEF Byte
  <2> QED
    BY <2>1
<1>4. ClosingQuote(t) = n + 1
  OBVIOUS
<1> HIDE DEF n, t
<1>5. PICK q : q = [i \in 1 .. n + 2 |-> QuoteStep(t, q, i)] /\ ClosingQuote(t) = q[1]
  BY <1>1, <1>2, QuoteIs
<1>6. \A i \in 1 .. n + 2 : q[i] = QuoteStep(t, q, i)
  BY <1>5, Zenon
<1>7. PICK d : d = [i \in 1 .. n + 1 |-> DecodeStep(string, d, i)] /\ Decode(string) = d[1]
  BY <1>1, DecodeIs
<1>8. \A i \in 1 .. n + 1 : d[i] = DecodeStep(string, d, i)
  BY <1>7, Zenon
<1> DEFINE sound(k, i) == q[i] = n + 1 => d[i] \in Seq(Nat) /\ Len(d[i]) <= k
           decoded == {k \in Nat : k <= n => sound(k, n + 1 - k)}
<1>9. ASSUME NEW k \in Nat, \A m \in Nat : m < k => m \in decoded PROVE k \in decoded
  <2>1. SUFFICES ASSUME k <= n, q[n + 1 - k] = n + 1
                 PROVE  d[n + 1 - k] \in Seq(Nat) /\ Len(d[n + 1 - k]) <= k
    OBVIOUS
  <2> DEFINE i == n + 1 - k
  <2>2. i \in 1 .. n + 1 /\ i \in 1 .. n + 2 /\ i \in Nat
    BY <1>1, <2>1
  <2>3. \A m \in 0 .. k - 1 : sound(m, n + 1 - m)
    BY <1>1, <1>9, <2>1
  <2>4. ASSUME NEW s \in 1 .. 6, s <= k, q[i + s] = n + 1
        PROVE  d[i + s] \in Seq(Nat) /\ Len(d[i + s]) <= k - s
    <3>1. k - s \in 0 .. k - 1 /\ n + 1 - (k - s) = i + s
      BY <1>1, <2>2, <2>4
    <3> HIDE DEF i, sound
    <3>2. sound(k - s, i + s)
      BY <2>3, <3>1
    <3> QED
      BY <2>4, <3>2 DEF sound
  <2>5. q[i] = n + 1 /\ q[i] = QuoteStep(t, q, i) /\ d[i] = DecodeStep(string, d, i)
    BY <1>6, <1>8, <2>1, <2>2
  <2>6. i = n + 1 <=> k = 0
    BY <1>1
  <2>7. k # 0 => k = n + 1 - i /\ i \in 1 .. n
    BY <1>1, <2>2
  <2> HIDE DEF i, decoded, sound
  <2>8. CASE k = 0
    <3>1. i > Len(string)
      BY <1>1, <2>2, <2>6, <2>8
    <3>2. d[i] = <<>>
      BY <2>5, <3>1, Zenon DEF DecodeStep
    <3> QED
      BY <2>8, <3>2 DEF i
  <2>9. CASE k # 0
    <3>1. i \in 1 .. n /\ k = n + 1 - i /\ t[i] = string[i] /\ string[i] \in Nat
      BY <1>2, <1>3, <2>7, <2>9
    <3>2. ~ (i > Len(t)) /\ ~ (i > Len(string)) /\ i # Len(t) /\ i # n + 1
      BY <1>1, <1>2, <3>1
    <3>3. t[i] # Quote
      <4>1. t[i] = Quote => q[i] = i
        BY <2>5, <3>2, Zenon DEF QuoteStep
      <4> QED
        BY <2>5, <3>2, <4>1
    <3>4. CASE t[i] # Backslash
      <4>1. q[i] = q[i + 1]
        BY <2>5, <3>2, <3>3, <3>4, Zenon DEF QuoteStep
      <4>2. d[i] = Before(<<string[i]>>, d[i + 1])
        BY <2>5, <3>1, <3>2, <3>4, Zenon DEF DecodeStep
      <4>3. d[i + 1] \in Seq(Nat) /\ Len(d[i + 1]) <= k - 1
        BY <2>4, <2>5, <2>9, <4>1
      <4>4. <<string[i]>> \in Seq(Nat) /\ Len(<<string[i]>>) = 1
        BY <3>1
      <4>5. Len(d[i]) = 1 + Len(d[i + 1]) /\ d[i] \in Seq(Nat)
        BY <4>2, <4>3, <4>4, BeforeType
      <4> QED
        BY <4>3, <4>5 DEF i
    <3>5. CASE t[i] = Backslash
      <4>1. t[i + 1] = 34 => i + 2 \in 1 .. n + 2 /\ q[i] = q[i + 2]
        <5>1. t[i + 1] = 34 => t[i + 1] # 117 /\ t[i + 1] \in {Quote, Backslash, 47} \cup DOMAIN ReadEscapes
          BY DEF Quote
        <5>2. t[i + 1] = 34 => q[i] = q[i + 2]
          BY <2>5, <3>2, <3>3, <3>5, <5>1, Zenon DEF QuoteStep
        <5>3. i + 2 \in 1 .. n + 2
          BY <1>1, <3>1
        <5> QED
          BY <5>2, <5>3
      <4>2. i # n
        <5> SUFFICES ASSUME i = n PROVE FALSE
          OBVIOUS
        <5>1. q[n + 1 + 1] = n + 1
          BY <1>1, <1>2, <2>5, <3>1, <4>1
        <5>2. n + 2 > Len(t) /\ n + 2 \in 1 .. n + 2
          BY <1>1, <1>2
        <5>3. q[n + 2] = 0
          BY <1>6, <5>2, Zenon DEF QuoteStep
        <5> QED
          BY <1>1, <5>1, <5>3
      <4>3. /\ i + 1 \in 1 .. n /\ i # Len(string) /\ t[i + 1] = string[i + 1]
            /\ string[i + 1] \in Nat /\ string[i] = Backslash /\ 2 <= k
        BY <1>1, <1>2, <1>3, <3>1, <3>5, <4>2
      <4>4. CASE t[i + 1] = 117
        <5>1. HexAt(t, i + 2) /\ q[i] = q[i + 6]
          <6>1. q[i] = IF HexAt(t, i + 2) THEN q[i + 6] ELSE 0
            BY <2>5, <3>2, <3>3, <3>5, <4>4, Zenon DEF QuoteStep
          <6>2. q[i] # 0
            BY <1>1, <2>5
          <6> QED
            BY <6>1, <6>2, Zenon
        <5>2. i + 5 <= n + 1 /\ \A j \in i + 2 .. i + 5 : IsHex(t[j])
          <6>1. i + 2 + 3 = i + 5
            BY <3>1
          <6> QED
            BY <1>2, <5>1, <6>1 DEF HexAt
        <5>3. i + 5 # n + 1
          <6>1. IsHex(t[i + 5])
            BY <3>1, <5>2
          <6>2. ~ IsHex(34)
            BY DEF IsHex
          <6> QED
            BY <1>2, <6>1, <6>2
        <5>4. i + 5 <= n /\ 6 <= k
          BY <1>1, <3>1, <5>2, <5>3
        <5>5. \A j \in i + 2 .. i + 5 : IsHex(string[j])
          <6>1. \A j \in i + 2 .. i + 5 : t[j] = string[j]
            BY <1>1, <1>2, <3>1, <5>4
          <6> QED
            BY <5>2, <6>1
        <5>6. HexAt(string, i + 2) /\ i + 2 \in Nat
          <6>1. i + 2 + 3 = i + 5
            BY <3>1
          <6> QED
            BY <1>1, <3>1, <5>4, <5>5, <6>1 DEF HexAt
        <5> DEFINE text == Utf8(CodeAt(string, i + 2))
        <5>7. text \in Seq(Nat) /\ Len(text) <= 3
          BY <5>6, CodeType, Utf8Type
        <5>8. d[i] = Before(text, d[i + 6])
          BY <2>5, <3>2, <4>3, <4>4, <5>6, Zenon DEF DecodeStep
        <5>9. d[i + 6] \in Seq(Nat) /\ Len(d[i + 6]) <= k - 6
          BY <2>4, <2>5, <5>1, <5>4
        <5> HIDE DEF text
        <5>10. d[i] \in Seq(Nat) /\ Len(d[i]) = Len(text) + Len(d[i + 6])
          BY <5>7, <5>8, <5>9, BeforeType
        <5> QED
          BY <5>7, <5>9, <5>10 DEF i
      <4>5. CASE t[i + 1] # 117
        <5>1. q[i] = q[i + 2]
          <6>1. q[i] = IF t[i + 1] \in {Quote, Backslash, 47} \cup DOMAIN ReadEscapes
                       THEN q[i + 2] ELSE 0
            BY <2>5, <3>2, <3>3, <3>5, <4>5, Zenon DEF QuoteStep
          <6>2. q[i] # 0
            BY <1>1, <2>5
          <6> QED
            BY <6>1, <6>2, Zenon
        <5> DEFINE x == IF string[i + 1] \in DOMAIN ReadEscapes
                        THEN ReadEscapes[string[i + 1]] ELSE string[i + 1]
        <5>2. d[i] = Before(<<x>>, d[i + 2])
          BY <2>5, <3>2, <4>3, <4>5, Zenon DEF DecodeStep
        <5>3. x \in Nat
          <6>1. \A letter \in DOMAIN ReadEscapes : ReadEscapes[letter] \in Nat
            BY EscapesAre
          <6> QED
            BY <4>3, <6>1, Zenon
        <5> HIDE DEF x
        <5>4. <<x>> \in Seq(Nat) /\ Len(<<x>>) = 1
          BY <5>3
        <5>5. d[i + 2] \in Seq(Nat) /\ Len(d[i + 2]) <= k - 2
          BY <2>4, <2>5, <4>3, <5>1
        <5>6. d[i] \in Seq(Nat) /\ Len(d[i]) = 1 + Len(d[i + 2])
          BY <5>2, <5>4, <5>5, BeforeType
        <5> QED
          BY <5>5, <5>6 DEF i
      <4> QED
        BY <4>4, <4>5
    <3> QED
      BY <3>4, <3>5
  <2> QED
    BY <2>8, <2>9
<1> HIDE DEF decoded, sound
<1>10. \A k \in Nat : k \in decoded
  BY <1>9, Strongly
<1>11. sound(n, 1)
  <2>1. n \in decoded /\ n + 1 - n = 1
    BY <1>1, <1>10
  <2>2. sound(n, n + 1 - n)
    BY <1>1, <2>1 DEF decoded
  <2> QED
    BY <2>1, <2>2
<1>12. d[1] \in Seq(Nat) /\ Len(d[1]) <= n
  BY <1>4, <1>5, <1>11 DEF sound
<1> QED
  BY <1>7, <1>12 DEF n

(* What the last two lemmas say of decoding, with the room of the field.   *)
LEMMA FieldIs ==
  ASSUME NEW string \in Seq(Byte), NEW cap \in Nat
  PROVE  Unescape(Escape(string), cap) = IF Len(string) < cap THEN string ELSE Invalid
<1>1. Decode(Escape(string)) = string
  BY EscapedIsDecoded
<1>2. string # Invalid
  <2>1. \A b \in Byte : b \in Nat
    BY DEF Byte
  <2>2. string \in Seq(Nat)
    BY <2>1
  <2> QED
    BY <2>2, ValidIs
<1>3. Len(string) + 1 <= cap <=> Len(string) < cap
  OBVIOUS
<1> QED
  BY <1>1, <1>2, <1>3 DEF Unescape, FitsField

(* The bytes of a behaviour are bytes. *)
LEMMA BytesTyped == JsonSpec => [](bytes \in Seq(Byte))
<1>1. JsonInit => bytes \in Seq(Byte)
  BY DEF JsonInit
<1>2. bytes \in Seq(Byte) /\ [JsonNext]_jsonVars => (bytes \in Seq(Byte))'
  <2> SUFFICES ASSUME bytes \in Seq(Byte), [JsonNext]_jsonVars PROVE bytes' \in Seq(Byte)
    OBVIOUS
  <2>1. ASSUME NEW byte \in Bytes, Grow(byte) PROVE bytes' \in Seq(Byte)
    BY <2>1, BytesAssumption DEF Grow, Byte
  <2>2. ASSUME NEW piece \in peer.pieces, Receive(piece) PROVE bytes' = bytes
    BY <2>2 DEF Receive
  <2>3. ASSUME NEW call \in FreeCalls, Write(call) PROVE bytes' = bytes
    BY <2>3 DEF Write
  <2>4. ASSUME NEW failed \in BOOLEAN, Finish(failed) PROVE bytes' = bytes
    BY <2>4 DEF Finish
  <2>5. CASE UNCHANGED jsonVars
    BY <2>5 DEF jsonVars
  <2> QED
    BY <2>1, <2>2, <2>3, <2>4, <2>5 DEF JsonNext
<1> QED
  BY <1>1, <1>2, PTL DEF JsonSpec

(* Any string that put_escaped() writes is ended by jsmn at its own quote  *)
(* and given back by str_at(), byte by byte, unless the field is too small *)
(* for it; and str_at() decodes the inside of every string jsmn accepts.   *)
THEOREM StringsComeBack == JsonSpec => []TextComesBack
<1>1. bytes \in Seq(Byte) => TextComesBack
  <2> SUFFICES ASSUME bytes \in Seq(Byte) PROVE TextComesBack
    OBVIOUS
  <2>1. ClosingQuote(Append(Escape(bytes), Quote)) = Len(Escape(bytes)) + 1
    BY QuoteFound
  <2>2. ASSUME NEW cap \in FieldCaps
        PROVE  Unescape(Escape(bytes), cap) = IF Len(bytes) < cap THEN bytes ELSE Invalid
    BY FieldIs, BytesAssumption
  <2>3. ClosingQuote(Append(bytes, Quote)) = Len(bytes) + 1 =>
          Decode(bytes) # Invalid /\ Len(Decode(bytes)) <= Len(bytes)
    BY AcceptedIsDecoded, ValidIs
  <2> QED
    BY <2>1, <2>2, <2>3 DEF TextComesBack
<1> QED
  BY <1>1, BytesTyped, PTL

--------------------------------------------------------------------------------
(***************************************************************************)
(* The messages the client writes (WrittenIsRead).  A text is taken as the *)
(* tree that its calls have asked for, the containers of it that are open, *)
(* and what came last; every symbol the writer puts is one of five steps   *)
(* of such a tree.  By induction over these steps the bytes put are the    *)
(* size of the tree, jsmn has a token for each of its nodes, and the       *)
(* reference grammar expects what the tree expects; by cases of the calls, *)
(* a writer either holds the text of the tree or has had no room for it.   *)
(***************************************************************************)

(* The steps of the four folds of module JsonDocs. *)
Step(kind, a, x) ==
  CASE kind = "feed" -> Feed(a, x)
    [] kind = "read" -> Read(a, x, x \in Strings)
    [] kind = "call" -> Called(a, x)
    [] kind = "ask" -> Ask(a, x)

(* g is the function by which FoldLeft() goes over the first k of seq. *)
Folding(kind, base, seq, k, g) ==
  g = [s \in SUBSET (1 .. k) |->
         IF s = {} THEN base ELSE Step(kind, g[s \ {Max(s)}], seq[Max(s)])]

(* The largest of a set that has the bound in it. *)
LEMMA MaxIs ==
  ASSUME NEW k \in Nat, NEW s \in SUBSET (1 .. k + 1), k + 1 \in s
  PROVE  Max(s) = k + 1
<1>1. \A y \in s : k + 1 >= y
  OBVIOUS
<1>2. Max(s) \in s /\ \A y \in s : Max(s) >= y
  <2>1. \E x \in s : \A y \in s : x >= y
    BY <1>1
  <2> QED
    BY <2>1, Zenon DEF Max
<1> DEFINE m == Max(s)
<1>3. m \in 1 .. k + 1 /\ m >= k + 1
  BY <1>2
<1> HIDE DEF m
<1>4. m = k + 1
  BY <1>3
<1> QED
  BY <1>4 DEF m

(* Such a function exists, for any number of steps. *)
LEMMA FoldingExists ==
  ASSUME NEW kind, NEW base, NEW seq
  PROVE  \A k \in Nat : \E g : Folding(kind, base, seq, k, g)
<1> DEFINE defined == {k \in Nat : \E g : Folding(kind, base, seq, k, g)}
           follow(g, s) == IF s = {} THEN base ELSE Step(kind, g[s \ {Max(s)}], seq[Max(s)])
<1>1. 0 \in defined
  <2> DEFINE g == [s \in SUBSET (1 .. 0) |-> base]
  <2>1. g = [s \in SUBSET (1 .. 0) |-> follow(g, s)]
    OBVIOUS
  <2> HIDE DEF g
  <2>2. Folding(kind, base, seq, 0, g)
    BY <2>1 DEF Folding
  <2> QED
    BY <2>2
<1>2. ASSUME NEW k \in Nat, k \in defined PROVE k + 1 \in defined
  <2>1. PICK f : Folding(kind, base, seq, k, f)
    BY <1>2
  <2> HIDE DEF follow
  <2>2. f = [s \in SUBSET (1 .. k) |-> follow(f, s)]
    BY <2>1 DEF Folding, follow
  <2>3. \A s \in SUBSET (1 .. k) : f[s] = follow(f, s)
    BY <2>2, Zenon
  <2> DEFINE g == [s \in SUBSET (1 .. k + 1) |->
                     IF k + 1 \in s THEN Step(kind, f[s \ {k + 1}], seq[k + 1]) ELSE f[s]]
  <2>4. \A s \in SUBSET (1 .. k) : g[s] = f[s]
    <3> SUFFICES ASSUME NEW s \in SUBSET (1 .. k) PROVE g[s] = f[s]
      OBVIOUS
    <3>1. s \in SUBSET (1 .. k + 1) /\ k + 1 \notin s
      OBVIOUS
    <3> QED
      BY <3>1, Zenon
  <2>5. ASSUME NEW s \in SUBSET (1 .. k + 1) PROVE g[s] = follow(g, s)
    <3>1. CASE k + 1 \in s
      <4>1. Max(s) = k + 1 /\ s # {}
        BY <3>1, MaxIs
      <4>2. s \ {k + 1} \in SUBSET (1 .. k)
        OBVIOUS
      <4>3. g[s \ {k + 1}] = f[s \ {k + 1}]
        BY <2>4, <4>2, Zenon
      <4>4. g[s] = Step(kind, f[s \ {k + 1}], seq[k + 1])
        BY <3>1, Zenon
      <4> HIDE DEF g
      <4> QED
        BY <4>1, <4>3, <4>4, Zenon DEF follow
    <3>2. CASE k + 1 \notin s
      <4>1. s \in SUBSET (1 .. k)
        BY <3>2
      <4>2. g[s] = f[s] /\ f[s] = follow(f, s)
        BY <2>3, <2>4, <4>1, Zenon
      <4>3. s # {} => g[s \ {Max(s)}] = f[s \ {Max(s)}]
        <5>1. s \ {Max(s)} \in SUBSET (1 .. k)
          BY <4>1
        <5> QED
          BY <2>4, <5>1, Zenon
      <4> HIDE DEF g
      <4> QED
        BY <4>2, <4>3, Zenon DEF follow
    <3> QED
      BY <3>1, <3>2
  <2>6. g = [s \in SUBSET (1 .. k + 1) |-> g[s]]
    OBVIOUS
  <2> HIDE DEF g
  <2>7. g = [s \in SUBSET (1 .. k + 1) |-> follow(g, s)]
    BY <2>5, <2>6, Zenon
  <2>8. Folding(kind, base, seq, k + 1, g)
    BY <2>7 DEF Folding, follow
  <2>9. k + 1 \in Nat
    OBVIOUS
  <2> QED
    BY <2>8, <2>9, Zenon
<1> HIDE DEF defined
<1>3. \A k \in Nat : k \in defined
  BY <1>1, <1>2, Upward
<1> QED
  BY <1>3 DEF defined

(* One element more is one step more. *)
LEMMA FoldingGrows ==
  ASSUME NEW kind, NEW base, NEW seq, NEW more, NEW n \in Nat, NEW g, NEW h,
         \A i \in 1 .. n : more[i] = seq[i],
         Folding(kind, base, seq, n, g), Folding(kind, base, more, n + 1, h)
  PROVE  h[1 .. n + 1] = Step(kind, g[1 .. n], more[n + 1])
<1>1. \A s \in SUBSET (1 .. n) :
        g[s] = IF s = {} THEN base ELSE Step(kind, g[s \ {Max(s)}], seq[Max(s)])
  BY Zenon DEF Folding
<1>2. \A s \in SUBSET (1 .. n + 1) :
        h[s] = IF s = {} THEN base ELSE Step(kind, h[s \ {Max(s)}], more[Max(s)])
  BY Zenon DEF Folding
<1>3. \A k \in Nat : 1 .. (k + 1) \ {k + 1} = 1 .. k /\ Max(1 .. k + 1) = k + 1 /\ 1 .. k + 1 # {}
  <2> SUFFICES ASSUME NEW k \in Nat
               PROVE  1 .. (k + 1) \ {k + 1} = 1 .. k /\ Max(1 .. k + 1) = k + 1 /\ 1 .. k + 1 # {}
    OBVIOUS
  <2>1. k + 1 \in 1 .. k + 1 /\ 1 .. k + 1 \in SUBSET (1 .. k + 1)
    OBVIOUS
  <2>2. Max(1 .. k + 1) = k + 1
    BY <2>1, MaxIs
  <2>3. 1 .. (k + 1) \ {k + 1} = 1 .. k
    OBVIOUS
  <2> QED
    BY <2>1, <2>2, <2>3
<1> DEFINE same == {k \in Nat : k <= n => h[1 .. k] = g[1 .. k]}
<1>4. 0 \in same
  <2>1. 1 .. 0 = {} /\ {} \in SUBSET (1 .. n) /\ {} \in SUBSET (1 .. n + 1)
    OBVIOUS
  <2>2. h[{}] = base /\ g[{}] = base
    BY <1>1, <1>2, <2>1, Zenon
  <2> QED
    BY <2>1, <2>2
<1>5. ASSUME NEW k \in Nat, k \in same PROVE k + 1 \in same
  <2> SUFFICES ASSUME k + 1 <= n PROVE h[1 .. k + 1] = g[1 .. k + 1]
    OBVIOUS
  <2>1. 1 .. k + 1 \in SUBSET (1 .. n) /\ 1 .. k + 1 \in SUBSET (1 .. n + 1) /\ k + 1 \in 1 .. n
    OBVIOUS
  <2>2. h[1 .. k] = g[1 .. k]
    BY <1>5
  <2>3. h[1 .. k + 1] = Step(kind, h[1 .. k], more[k + 1])
    BY <1>2, <1>3, <2>1, ZenonT(40)
  <2>4. g[1 .. k + 1] = Step(kind, g[1 .. k], seq[k + 1])
    BY <1>1, <1>3, <2>1, ZenonT(40)
  <2> QED
    BY <2>1, <2>2, <2>3, <2>4, Zenon
<1> HIDE DEF same
<1>6. \A k \in Nat : k \in same
  BY <1>4, <1>5, Upward
<1>7. h[1 .. n] = g[1 .. n]
  BY <1>6 DEF same
<1>8. 1 .. n + 1 \in SUBSET (1 .. n + 1)
  OBVIOUS
<1>9. h[1 .. n + 1] = Step(kind, h[1 .. n], more[n + 1])
  BY <1>2, <1>3, <1>8, Zenon
<1> QED
  BY <1>7, <1>9, Zenon

(* jsmn over a text is such a fold. *)
LEMMA ReceivedIs ==
  ASSUME NEW a, NEW seq, NEW n \in Nat, DOMAIN seq = 1 .. n
  PROVE  \E g : Folding("feed", a, seq, n, g) /\ Received(a, seq) = g[1 .. n]
<1> DEFINE iter[s \in SUBSET (DOMAIN seq)] ==
             IF s = {} THEN a ELSE LET i == Max(s) IN Feed(iter[s \ {i}], seq[i])
<1>1. Received(a, seq) = iter[DOMAIN seq]
  BY DEF Received, FoldLeft, MapThenFoldSet
<1>2. PICK g : Folding("feed", a, seq, n, g)
  BY FoldingExists
<1>3. \A b, x : Step("feed", b, x) = Feed(b, x)
  BY DEF Step
<1>4. g = [s \in SUBSET (1 .. n) |->
             IF s = {} THEN a ELSE LET i == Max(s) IN Feed(g[s \ {i}], seq[i])]
  BY <1>2, <1>3 DEF Folding
<1>5. iter = [s \in SUBSET (1 .. n) |->
                IF s = {} THEN a ELSE LET i == Max(s) IN Feed(iter[s \ {i}], seq[i])]
  BY <1>4
<1> HIDE DEF iter
<1>6. Folding("feed", a, seq, n, iter)
  BY <1>3, <1>5 DEF Folding
<1> QED
  BY <1>1, <1>6

(* One symbol more is one Feed() more. *)
LEMMA ReceivedGrows ==
  ASSUME NEW a, NEW S, NEW seq \in Seq(S), NEW x
  PROVE  Received(a, Append(seq, x)) = Feed(Received(a, seq), x)
<1> DEFINE n == Len(seq)
           more == Append(seq, x)
<1>1. n \in Nat /\ DOMAIN seq = 1 .. n /\ DOMAIN more = 1 .. n + 1
      /\ n + 1 \in Nat /\ more[n + 1] = x /\ \A i \in 1 .. n : more[i] = seq[i]
  OBVIOUS
<1> HIDE DEF n, more
<1>2. PICK g : Folding("feed", a, seq, n, g) /\ Received(a, seq) = g[1 .. n]
  BY <1>1, ReceivedIs
<1>3. PICK h : Folding("feed", a, more, n + 1, h) /\ Received(a, more) = h[1 .. n + 1]
  BY <1>1, ReceivedIs
<1>4. h[1 .. n + 1] = Step("feed", g[1 .. n], more[n + 1])
  BY <1>1, <1>2, <1>3, FoldingGrows
<1> QED
  BY <1>1, <1>2, <1>3, <1>4 DEF Step, more

(* No symbols leave jsmn as it was. *)
LEMMA ReceivedNothing ==
  ASSUME NEW a
  PROVE  Received(a, <<>>) = a
<1>1. PICK g : Folding("feed", a, <<>>, 0, g) /\ Received(a, <<>>) = g[1 .. 0]
  BY ReceivedIs
<1>2. 1 .. 0 = {} /\ {} \in SUBSET (1 .. 0)
  OBVIOUS
<1>3. g[{}] = a
  BY <1>1, <1>2, Zenon DEF Folding
<1> QED
  BY <1>1, <1>2, <1>3

(* The reference over a text is such a fold. *)
LEMMA ReadTextIs ==
  ASSUME NEW a, NEW seq, NEW n \in Nat, DOMAIN seq = 1 .. n
  PROVE  \E g : Folding("read", a, seq, n, g) /\ ReadText(a, seq) = g[1 .. n]
<1> DEFINE iter[s \in SUBSET (DOMAIN seq)] ==
             IF s = {} THEN a ELSE LET i == Max(s) IN Read(iter[s \ {i}], seq[i], seq[i] \in Strings)
<1>1. ReadText(a, seq) = iter[DOMAIN seq]
  BY DEF ReadText, FoldLeft, MapThenFoldSet
<1>2. PICK g : Folding("read", a, seq, n, g)
  BY FoldingExists
<1>3. \A b, x : Step("read", b, x) = Read(b, x, x \in Strings)
  BY DEF Step
<1>4. g = [s \in SUBSET (1 .. n) |->
             IF s = {} THEN a ELSE LET i == Max(s) IN Read(g[s \ {i}], seq[i], seq[i] \in Strings)]
  BY <1>2, <1>3 DEF Folding
<1>5. iter = [s \in SUBSET (1 .. n) |->
                IF s = {} THEN a ELSE LET i == Max(s) IN Read(iter[s \ {i}], seq[i], seq[i] \in Strings)]
  BY <1>4
<1> HIDE DEF iter
<1>6. Folding("read", a, seq, n, iter)
  BY <1>3, <1>5 DEF Folding
<1> QED
  BY <1>1, <1>6

(* One symbol more is one Read() more. *)
LEMMA ReadTextGrows ==
  ASSUME NEW a, NEW S, NEW seq \in Seq(S), NEW x
  PROVE  ReadText(a, Append(seq, x)) = Read(ReadText(a, seq), x, x \in Strings)
<1> DEFINE n == Len(seq)
           more == Append(seq, x)
<1>1. n \in Nat /\ DOMAIN seq = 1 .. n /\ DOMAIN more = 1 .. n + 1
      /\ n + 1 \in Nat /\ more[n + 1] = x /\ \A i \in 1 .. n : more[i] = seq[i]
  OBVIOUS
<1> HIDE DEF n, more
<1>2. PICK g : Folding("read", a, seq, n, g) /\ ReadText(a, seq) = g[1 .. n]
  BY <1>1, ReadTextIs
<1>3. PICK h : Folding("read", a, more, n + 1, h) /\ ReadText(a, more) = h[1 .. n + 1]
  BY <1>1, ReadTextIs
<1>4. h[1 .. n + 1] = Step("read", g[1 .. n], more[n + 1])
  BY <1>1, <1>2, <1>3, FoldingGrows
<1> QED
  BY <1>1, <1>2, <1>3, <1>4 DEF Step, more

(* No symbols leave the reference as it was. *)
LEMMA ReadTextNothing ==
  ASSUME NEW a
  PROVE  ReadText(a, <<>>) = a
<1>1. PICK g : Folding("read", a, <<>>, 0, g) /\ ReadText(a, <<>>) = g[1 .. 0]
  BY ReadTextIs
<1>2. 1 .. 0 = {} /\ {} \in SUBSET (1 .. 0)
  OBVIOUS
<1>3. g[{}] = a
  BY <1>1, <1>2, Zenon DEF Folding
<1> QED
  BY <1>1, <1>2, <1>3

(* The writer over calls is such a fold. *)
LEMMA WriteAllIs ==
  ASSUME NEW a, NEW seq, NEW n \in Nat, DOMAIN seq = 1 .. n
  PROVE  \E g : Folding("call", a, seq, n, g) /\ WriteAll(a, seq) = g[1 .. n]
<1> DEFINE iter[s \in SUBSET (DOMAIN seq)] ==
             IF s = {} THEN a ELSE LET i == Max(s) IN Called(iter[s \ {i}], seq[i])
<1>1. WriteAll(a, seq) = iter[DOMAIN seq]
  BY DEF WriteAll, FoldLeft, MapThenFoldSet
<1>2. PICK g : Folding("call", a, seq, n, g)
  BY FoldingExists
<1>3. \A b, x : Step("call", b, x) = Called(b, x)
  BY DEF Step
<1>4. g = [s \in SUBSET (1 .. n) |->
             IF s = {} THEN a ELSE LET i == Max(s) IN Called(g[s \ {i}], seq[i])]
  BY <1>2, <1>3 DEF Folding
<1>5. iter = [s \in SUBSET (1 .. n) |->
                IF s = {} THEN a ELSE LET i == Max(s) IN Called(iter[s \ {i}], seq[i])]
  BY <1>4
<1> HIDE DEF iter
<1>6. Folding("call", a, seq, n, iter)
  BY <1>3, <1>5 DEF Folding
<1> QED
  BY <1>1, <1>6

(* One call more is one Called() more. *)
LEMMA WriteAllGrows ==
  ASSUME NEW a, NEW S, NEW seq \in Seq(S), NEW x
  PROVE  WriteAll(a, Append(seq, x)) = Called(WriteAll(a, seq), x)
<1> DEFINE n == Len(seq)
           more == Append(seq, x)
<1>1. n \in Nat /\ DOMAIN seq = 1 .. n /\ DOMAIN more = 1 .. n + 1
      /\ n + 1 \in Nat /\ more[n + 1] = x /\ \A i \in 1 .. n : more[i] = seq[i]
  OBVIOUS
<1> HIDE DEF n, more
<1>2. PICK g : Folding("call", a, seq, n, g) /\ WriteAll(a, seq) = g[1 .. n]
  BY <1>1, WriteAllIs
<1>3. PICK h : Folding("call", a, more, n + 1, h) /\ WriteAll(a, more) = h[1 .. n + 1]
  BY <1>1, WriteAllIs
<1>4. h[1 .. n + 1] = Step("call", g[1 .. n], more[n + 1])
  BY <1>1, <1>2, <1>3, FoldingGrows
<1> QED
  BY <1>1, <1>2, <1>3, <1>4 DEF Step, more

(* No calls leave the writer as it was. *)
LEMMA WriteAllNothing ==
  ASSUME NEW a
  PROVE  WriteAll(a, <<>>) = a
<1>1. PICK g : Folding("call", a, <<>>, 0, g) /\ WriteAll(a, <<>>) = g[1 .. 0]
  BY WriteAllIs
<1>2. 1 .. 0 = {} /\ {} \in SUBSET (1 .. 0)
  OBVIOUS
<1>3. g[{}] = a
  BY <1>1, <1>2, Zenon DEF Folding
<1> QED
  BY <1>1, <1>2, <1>3

(* What calls ask for is such a fold. *)
LEMMA AskAllIs ==
  ASSUME NEW a, NEW seq, NEW n \in Nat, DOMAIN seq = 1 .. n
  PROVE  \E g : Folding("ask", a, seq, n, g) /\ AskAll(a, seq) = g[1 .. n]
<1> DEFINE iter[s \in SUBSET (DOMAIN seq)] ==
             IF s = {} THEN a ELSE LET i == Max(s) IN Ask(iter[s \ {i}], seq[i])
<1>1. AskAll(a, seq) = iter[DOMAIN seq]
  BY DEF AskAll, FoldLeft, MapThenFoldSet
<1>2. PICK g : Folding("ask", a, seq, n, g)
  BY FoldingExists
<1>3. \A b, x : Step("ask", b, x) = Ask(b, x)
  BY DEF Step
<1>4. g = [s \in SUBSET (1 .. n) |->
             IF s = {} THEN a ELSE LET i == Max(s) IN Ask(g[s \ {i}], seq[i])]
  BY <1>2, <1>3 DEF Folding
<1>5. iter = [s \in SUBSET (1 .. n) |->
                IF s = {} THEN a ELSE LET i == Max(s) IN Ask(iter[s \ {i}], seq[i])]
  BY <1>4
<1> HIDE DEF iter
<1>6. Folding("ask", a, seq, n, iter)
  BY <1>3, <1>5 DEF Folding
<1> QED
  BY <1>1, <1>6

(* One call more is one Ask() more. *)
LEMMA AskAllGrows ==
  ASSUME NEW a, NEW S, NEW seq \in Seq(S), NEW x
  PROVE  AskAll(a, Append(seq, x)) = Ask(AskAll(a, seq), x)
<1> DEFINE n == Len(seq)
           more == Append(seq, x)
<1>1. n \in Nat /\ DOMAIN seq = 1 .. n /\ DOMAIN more = 1 .. n + 1
      /\ n + 1 \in Nat /\ more[n + 1] = x /\ \A i \in 1 .. n : more[i] = seq[i]
  OBVIOUS
<1> HIDE DEF n, more
<1>2. PICK g : Folding("ask", a, seq, n, g) /\ AskAll(a, seq) = g[1 .. n]
  BY <1>1, AskAllIs
<1>3. PICK h : Folding("ask", a, more, n + 1, h) /\ AskAll(a, more) = h[1 .. n + 1]
  BY <1>1, AskAllIs
<1>4. h[1 .. n + 1] = Step("ask", g[1 .. n], more[n + 1])
  BY <1>1, <1>2, <1>3, FoldingGrows
<1> QED
  BY <1>1, <1>2, <1>3, <1>4 DEF Step, more

(* No calls ask for nothing more. *)
LEMMA AskAllNothing ==
  ASSUME NEW a
  PROVE  AskAll(a, <<>>) = a
<1>1. PICK g : Folding("ask", a, <<>>, 0, g) /\ AskAll(a, <<>>) = g[1 .. 0]
  BY AskAllIs
<1>2. 1 .. 0 = {} /\ {} \in SUBSET (1 .. 0)
  OBVIOUS
<1>3. g[{}] = a
  BY <1>1, <1>2, Zenon DEF Folding
<1> QED
  BY <1>1, <1>2, <1>3

(* f[1] + ... + f[n] *)
Total(f, n) == LET t[k \in 0 .. n] == IF k = 0 THEN 0 ELSE t[k - 1] + f[k] IN t[n]

Sums(f, n, t) == t = [k \in 0 .. n |-> IF k = 0 THEN 0 ELSE t[k - 1] + f[k]]

(* The sums are defined up to any number. *)
LEMMA TotalIs ==
  ASSUME NEW f, NEW n \in Nat
  PROVE  \E t : Sums(f, n, t) /\ Total(f, n) = t[n]
<1> DEFINE defined == {m \in Nat : \E t : t = [k \in 0 .. m |-> IF k = 0 THEN 0 ELSE t[k - 1] + f[k]]}
<1>1. 0 \in defined
  <2> DEFINE t == [k \in 0 .. 0 |-> 0]
  <2>1. t = [k \in 0 .. 0 |-> IF k = 0 THEN 0 ELSE t[k - 1] + f[k]]
    OBVIOUS
  <2> QED
    BY <2>1
<1>2. ASSUME NEW m \in Nat, m \in defined PROVE m + 1 \in defined
  <2>1. PICK t : t = [k \in 0 .. m |-> IF k = 0 THEN 0 ELSE t[k - 1] + f[k]]
    BY <1>2
  <2> DEFINE u == [k \in 0 .. m + 1 |-> IF k <= m THEN t[k] ELSE t[m] + f[k]]
  <2>2. \A k \in 0 .. m : u[k] = t[k]
    OBVIOUS
  <2>3. ASSUME NEW k \in 0 .. m + 1
        PROVE  u[k] = IF k = 0 THEN 0 ELSE u[k - 1] + f[k]
    <3>1. CASE k <= m
      <4>1. u[k] = t[k] /\ k \in 0 .. m
        BY <3>1
      <4>2. t[k] = IF k = 0 THEN 0 ELSE t[k - 1] + f[k]
        BY <2>1, <4>1, Zenon
      <4>3. k # 0 => k - 1 \in 0 .. m
        BY <3>1
      <4>4. k # 0 => u[k - 1] = t[k - 1]
        BY <2>2, <4>3
      <4> HIDE DEF u
      <4> QED
        BY <4>1, <4>2, <4>4
    <3>2. CASE ~ (k <= m)
      <4>1. k = m + 1 /\ k # 0 /\ k - 1 = m /\ m \in 0 .. m
        BY <3>2
      <4>2. u[k - 1] = t[m]
        BY <2>2, <4>1
      <4>3. u[k] = t[m] + f[k]
        BY <3>2
      <4> HIDE DEF u
      <4> QED
        BY <4>1, <4>2, <4>3
    <3> QED
      BY <3>1, <3>2
  <2>4. u = [k \in 0 .. m + 1 |-> u[k]]
    OBVIOUS
  <2> HIDE DEF u
  <2>5. u = [k \in 0 .. m + 1 |-> IF k = 0 THEN 0 ELSE u[k - 1] + f[k]]
    BY <2>3, <2>4
  <2>6. m + 1 \in Nat
    OBVIOUS
  <2> QED
    BY <2>5, <2>6, Zenon
<1> HIDE DEF defined
<1>3. \A m \in Nat : m \in defined
  BY <1>1, <1>2, Upward
<1>4. \E t : t = [k \in 0 .. n |-> IF k = 0 THEN 0 ELSE t[k - 1] + f[k]]
  BY <1>3 DEF defined
<1> DEFINE t[k \in 0 .. n] == IF k = 0 THEN 0 ELSE t[k - 1] + f[k]
<1>5. t = [k \in 0 .. n |-> IF k = 0 THEN 0 ELSE t[k - 1] + f[k]]
  BY <1>4
<1>6. Total(f, n) = t[n]
  BY DEF Total
<1> HIDE DEF t
<1> QED
  BY <1>5, <1>6 DEF Sums

(* Sums of the first numbers of two sequences that agree on these.         *)
LEMMA TotalSame ==
  ASSUME NEW f, NEW g, NEW n \in Nat, NEW m \in Nat, n <= m, \A i \in 1 .. n : f[i] = g[i],
         NEW t, Sums(f, n, t), NEW u, Sums(g, m, u)
  PROVE  t[n] = u[n]
<1>1. \A k \in 0 .. n : t[k] = IF k = 0 THEN 0 ELSE t[k - 1] + f[k]
  BY Zenon DEF Sums
<1>2. \A k \in 0 .. m : u[k] = IF k = 0 THEN 0 ELSE u[k - 1] + g[k]
  BY Zenon DEF Sums
<1> DEFINE same == {k \in Nat : k <= n => t[k] = u[k]}
<1>3. 0 \in same
  <2>1. 0 \in 0 .. n /\ 0 \in 0 .. m
    OBVIOUS
  <2> QED
    BY <1>1, <1>2, <2>1
<1>4. ASSUME NEW k \in Nat, k \in same PROVE k + 1 \in same
  <2>1. SUFFICES ASSUME k + 1 <= n PROVE t[k + 1] = u[k + 1]
    OBVIOUS
  <2>2. k + 1 \in 0 .. n /\ k + 1 \in 0 .. m /\ k + 1 # 0 /\ (k + 1) - 1 = k /\ k + 1 \in 1 .. n
    BY <2>1
  <2>3. t[k] = u[k]
    BY <1>4, <2>1
  <2>4. t[k + 1] = t[k] + f[k + 1] /\ u[k + 1] = u[k] + g[k + 1]
    BY <1>1, <1>2, <2>2
  <2> QED
    BY <2>2, <2>3, <2>4
<1> HIDE DEF same
<1>5. \A k \in Nat : k \in same
  BY <1>3, <1>4, Upward
<1>6. n \in same
  BY <1>5
<1> QED
  BY <1>6 DEF same

(* One summand more. *)
LEMMA TotalGrows ==
  ASSUME NEW f, NEW g, NEW n \in Nat, \A i \in 1 .. n : f[i] = g[i]
  PROVE  /\ Total(f, n) = Total(g, n)
         /\ Total(f, n + 1) = Total(g, n) + f[n + 1]
         /\ Total(f, 0) = 0
<1>1. PICK t : Sums(f, n, t) /\ Total(f, n) = t[n]
  BY TotalIs
<1>2. PICK u : Sums(g, n, u) /\ Total(g, n) = u[n]
  BY TotalIs
<1>3. PICK v : Sums(f, n + 1, v) /\ Total(f, n + 1) = v[n + 1]
  <2>1. n + 1 \in Nat
    OBVIOUS
  <2> QED
    BY <2>1, TotalIs
<1>4. PICK w : Sums(f, 0, w) /\ Total(f, 0) = w[0]
  BY TotalIs
<1>5. t[n] = u[n]
  <2>1. n <= n /\ \A i \in 1 .. n : f[i] = g[i]
    OBVIOUS
  <2>2. \A m \in Nat : n <= m /\ Sums(g, m, u) => t[n] = u[n]
    BY <1>1, TotalSame
  <2> QED
    BY <1>2, <2>1, <2>2
<1>6. u[n] = v[n]
  <2>1. n + 1 \in Nat /\ n <= n + 1 /\ \A i \in 1 .. n : g[i] = f[i]
    OBVIOUS
  <2> QED
    BY <1>2, <1>3, <2>1, TotalSame
<1>7. v[n + 1] = v[n] + f[n + 1]
  <2>1. \A k \in 0 .. n + 1 : v[k] = IF k = 0 THEN 0 ELSE v[k - 1] + f[k]
    BY <1>3, Zenon DEF Sums
  <2>2. n + 1 \in 0 .. n + 1 /\ n + 1 # 0 /\ (n + 1) - 1 = n
    OBVIOUS
  <2> QED
    BY <2>1, <2>2
<1>8. w[0] = 0
  <2>1. \A k \in 0 .. 0 : w[k] = IF k = 0 THEN 0 ELSE w[k - 1] + f[k]
    BY <1>4, Zenon DEF Sums
  <2>2. 0 \in 0 .. 0
    OBVIOUS
  <2> QED
    BY <2>1, <2>2
<1> QED
  BY <1>1, <1>2, <1>3, <1>4, <1>5, <1>6, <1>7, <1>8

(* A sum of integers is an integer. *)
LEMMA TotalType ==
  ASSUME NEW n \in Nat, NEW f, \A i \in 1 .. n : f[i] \in Int
  PROVE  Total(f, n) \in Int
<1> DEFINE typed == {k \in Nat : k <= n => Total(f, k) \in Int}
<1>1. 0 \in typed
  BY TotalGrows
<1>2. ASSUME NEW k \in Nat, k \in typed PROVE k + 1 \in typed
  <2>1. k + 1 <= n => Total(f, k + 1) = Total(f, k) + f[k + 1]
    BY TotalGrows
  <2> QED
    BY <1>2, <2>1
<1> HIDE DEF typed
<1>3. \A k \in Nat : k \in typed
  BY <1>1, <1>2, Upward
<1> QED
  BY <1>3 DEF typed

(* One summand more or less changes the sum by as much.                    *)
LEMMA TotalChange ==
  ASSUME NEW n \in Nat, NEW f, NEW g, NEW c \in 1 .. n, NEW d \in Int,
         \A i \in 1 .. n : f[i] \in Int /\ g[i] \in Int /\ (i # c => f[i] = g[i]),
         f[c] = g[c] + d
  PROVE  Total(f, n) = Total(g, n) + d
<1> DEFINE shifted == {k \in Nat : k <= n =>
             Total(f, k) = (IF k < c THEN Total(g, k) ELSE Total(g, k) + d)}
<1>1. 0 \in shifted
  BY TotalGrows
<1>2. ASSUME NEW k \in Nat, k \in shifted PROVE k + 1 \in shifted
  <2> SUFFICES ASSUME k + 1 <= n
               PROVE  Total(f, k + 1) = (IF k + 1 < c THEN Total(g, k + 1) ELSE Total(g, k + 1) + d)
    OBVIOUS
  <2>1. Total(f, k + 1) = Total(f, k) + f[k + 1] /\ Total(g, k + 1) = Total(g, k) + g[k + 1]
    BY TotalGrows
  <2>2. Total(f, k) = (IF k < c THEN Total(g, k) ELSE Total(g, k) + d)
    BY <1>2
  <2>3. k + 1 \in 1 .. n /\ f[k + 1] \in Int /\ g[k + 1] \in Int /\ (k + 1 # c => f[k + 1] = g[k + 1])
    OBVIOUS
  <2>4. Total(f, k) \in Int /\ Total(g, k) \in Int
    BY TotalType
  <2> QED
    BY <2>1, <2>2, <2>3, <2>4
<1> HIDE DEF shifted
<1>3. \A k \in Nat : k \in shifted
  BY <1>1, <1>2, Upward
<1> QED
  BY <1>3 DEF shifted

(* A sum of zeros is zero. *)
LEMMA TotalZero ==
  ASSUME NEW n \in Nat, NEW f, \A i \in 1 .. n : f[i] = 0
  PROVE  Total(f, n) = 0
<1> DEFINE zero == {k \in Nat : k <= n => Total(f, k) = 0}
<1>1. 0 \in zero
  BY TotalGrows
<1>2. ASSUME NEW k \in Nat, k \in zero PROVE k + 1 \in zero
  <2>1. k + 1 <= n => Total(f, k + 1) = Total(f, k) + f[k + 1]
    BY TotalGrows
  <2> QED
    BY <1>2, <2>1
<1> HIDE DEF zero
<1>3. \A k \in Nat : k \in zero
  BY <1>1, <1>2, Upward
<1> QED
  BY <1>3 DEF zero

(* MapThenSumSet() over 1 .. n is that sum, in whatever order it is taken. *)
Summing(f, n, g) ==
  g = [s \in SUBSET (1 .. n) |->
         IF s = {} THEN 0
         ELSE f[CHOOSE i \in s : TRUE] + g[s \ {CHOOSE i \in s : TRUE}]]

(* MapThenSumSet() is defined, and is the sum in order. *)
LEMMA SummingIs ==
  ASSUME NEW n \in Nat, NEW f, \A i \in 1 .. n : f[i] \in Int
  PROVE  /\ \E g : Summing(f, n, g)
         /\ \A g : Summing(f, n, g) => g[1 .. n] = Total(f, n)
<1> DEFINE only(s) == [i \in 1 .. n |-> IF i \in s THEN f[i] ELSE 0]
           one(s) == CHOOSE i \in s : TRUE
           sum == [s \in SUBSET (1 .. n) |-> Total(only(s), n)]
<1>1. ASSUME NEW s \in SUBSET (1 .. n), s # {}
      PROVE  one(s) \in s /\ s \ {one(s)} \in SUBSET (1 .. n)
  <2>1. one(s) \in s
    BY <1>1
  <2> QED
    BY <2>1
<1> HIDE DEF one
<1>2. sum[{}] = 0
  <2>1. {} \in SUBSET (1 .. n) /\ \A i \in 1 .. n : only({})[i] = 0
    OBVIOUS
  <2>2. Total(only({}), n) = 0
    BY <2>1, TotalZero
  <2> QED
    BY <2>1, <2>2
<1>3. ASSUME NEW s \in SUBSET (1 .. n), s # {}
      PROVE  sum[s] = f[one(s)] + sum[s \ {one(s)}]
  <2> DEFINE c == one(s)
             rest == s \ {c}
  <2>1. c \in s /\ c \in 1 .. n /\ rest \in SUBSET (1 .. n) /\ c \notin rest
    BY <1>1, <1>3
  <2>2. \A i \in 1 .. n : only(s)[i] \in Int /\ only(rest)[i] \in Int
                          /\ (i # c => only(s)[i] = only(rest)[i])
    OBVIOUS
  <2>3. only(s)[c] = f[c] /\ only(rest)[c] = 0 /\ f[c] \in Int
    BY <2>1
  <2>4. sum[s] = Total(only(s), n) /\ sum[rest] = Total(only(rest), n)
    BY <2>1
  <2>5. Total(only(rest), n) \in Int
    BY <2>2, TotalType
  <2> DEFINE d == f[c]
             all == only(s)
             others == only(rest)
  <2> HIDE DEF rest, only, sum
  <2>6. \A i \in 1 .. n : all[i] \in Int /\ others[i] \in Int /\ (i # c => all[i] = others[i])
    BY <2>2
  <2>7. Total(only(s), n) = Total(only(rest), n) + f[c]
    <3>1. c \in 1 .. n /\ d \in Int /\ all[c] = others[c] + d
      BY <2>1, <2>3
    <3> HIDE DEF c, d, all, others
    <3>2. Total(all, n) = Total(others, n) + d
      BY <2>6, <3>1, TotalChange
    <3> QED
      BY <3>2 DEF all, others, d
  <2> HIDE DEF c, all, others, d
  <2>8. Total(only(s), n) = f[c] + Total(only(rest), n)
    BY <2>3, <2>5, <2>7
  <2> QED
    BY <2>4, <2>8 DEF c, rest
<1>4. sum[1 .. n] = Total(f, n)
  <2>1. 1 .. n \in SUBSET (1 .. n) /\ \A i \in 1 .. n : only(1 .. n)[i] = f[i]
    OBVIOUS
  <2>2. Total(only(1 .. n), n) = Total(f, n)
    BY <2>1, TotalGrows
  <2> QED
    BY <2>1, <2>2
<1>5. sum = [s \in SUBSET (1 .. n) |-> sum[s]]
  OBVIOUS
<1> HIDE DEF sum, only
<1>6. sum = [s \in SUBSET (1 .. n) |->
               IF s = {} THEN 0 ELSE f[one(s)] + sum[s \ {one(s)}]]
  <2>1. \A s \in SUBSET (1 .. n) : sum[s] = IF s = {} THEN 0 ELSE f[one(s)] + sum[s \ {one(s)}]
    BY <1>2, <1>3
  <2> QED
    BY <1>5, <2>1, Zenon
<1>7. Summing(f, n, sum)
  BY <1>6 DEF Summing, one
<1>8. ASSUME NEW g, Summing(f, n, g) PROVE g[1 .. n] = Total(f, n)
  <2>1. \A s \in SUBSET (1 .. n) : g[s] = IF s = {} THEN 0 ELSE f[one(s)] + g[s \ {one(s)}]
    BY <1>8, Zenon DEF Summing, one
  <2>2. \A s \in SUBSET (1 .. n) : IsFiniteSet(s)
    <3>1. IsFiniteSet(1 .. n)
      BY FS_Interval
    <3> QED
      BY <3>1, FS_Subset
  <2> DEFINE same == {k \in Nat : \A s \in SUBSET (1 .. n) : Cardinality(s) = k => g[s] = sum[s]}
  <2>3. 0 \in same
    <3>1. \A s \in SUBSET (1 .. n) : Cardinality(s) = 0 => s = {}
      BY <2>2, FS_EmptySet
    <3>2. {} \in SUBSET (1 .. n)
      OBVIOUS
    <3>3. g[{}] = 0
      BY <2>1, <3>2
    <3> QED
      BY <1>2, <3>1, <3>3
  <2>4. ASSUME NEW k \in Nat, k \in same PROVE k + 1 \in same
    <3> SUFFICES ASSUME NEW s \in SUBSET (1 .. n), Cardinality(s) = k + 1 PROVE g[s] = sum[s]
      OBVIOUS
    <3>1. s # {}
      BY FS_EmptySet
    <3>2. one(s) \in s /\ s \ {one(s)} \in SUBSET (1 .. n)
      BY <1>1, <3>1
    <3>3. Cardinality(s \ {one(s)}) = k
      BY <2>2, <3>2, FS_RemoveElement
    <3>4. g[s \ {one(s)}] = sum[s \ {one(s)}]
      BY <2>4, <3>2, <3>3
    <3> QED
      BY <1>3, <2>1, <3>1, <3>4
  <2> HIDE DEF same
  <2>5. \A k \in Nat : k \in same
    BY <2>3, <2>4, Upward
  <2>6. 1 .. n \in SUBSET (1 .. n) /\ Cardinality(1 .. n) = n
    BY FS_Interval
  <2> QED
    BY <1>4, <2>5, <2>6 DEF same
<1> QED
  BY <1>7, <1>8


Containers == {"{", "["}
Values == Containers \cup Strings \cup Primitives
Nodes == [text : Values, parent : Nat]

Children(x, i) == Cardinality({j \in DOMAIN x.nodes : x.nodes[j].parent = i})
HasChild(x, i) == \E j \in DOMAIN x.nodes : x.nodes[j].parent = i
IsOpen(x, i) == \E k \in DOMAIN x.open : x.open[k] = i

NodeSize(x, i) ==
  Width[x.nodes[i].text]
  + (IF x.nodes[i].text \in Containers
     THEN (IF IsOpen(x, i) THEN 0 ELSE 1) + (IF Children(x, i) > 1 THEN Children(x, i) - 1 ELSE 0)
     ELSE Children(x, i))

(* Size() is the sum of what each node takes. *)
LEMMA SizeIs ==
  ASSUME NEW x, NEW n \in Nat, DOMAIN x.nodes = 1 .. n, \A i \in 1 .. n : NodeSize(x, i) \in Int
  PROVE  Size(x) = Total([i \in 1 .. n |-> NodeSize(x, i)], n)
<1> DEFINE f == [i \in 1 .. n |-> NodeSize(x, i)]
           iter[s \in SUBSET (DOMAIN x.nodes)] ==
             IF s = {} THEN 0
             ELSE LET i == CHOOSE i \in s : TRUE IN NodeSize(x, i) + iter[s \ {i}]
<1>1. Size(x) = iter[DOMAIN x.nodes]
  BY DEF Size, MapThenSumSet, MapThenFoldSet, Containers, NodeSize, Children, IsOpen
<1>2. \A i \in 1 .. n : f[i] \in Int
  OBVIOUS
<1>3. \A s \in SUBSET (1 .. n) : s # {} => f[CHOOSE i \in s : TRUE] = NodeSize(x, CHOOSE i \in s : TRUE)
  <2> SUFFICES ASSUME NEW s \in SUBSET (1 .. n), s # {}
               PROVE  f[CHOOSE i \in s : TRUE] = NodeSize(x, CHOOSE i \in s : TRUE)
    OBVIOUS
  <2>1. (CHOOSE i \in s : TRUE) \in s
    OBVIOUS
  <2>2. (CHOOSE i \in s : TRUE) \in 1 .. n
    BY <2>1
  <2> QED
    BY <2>2
<1> HIDE DEF f
<1>4. PICK g : Summing(f, n, g)
  BY <1>2, SummingIs
<1>5. g = [s \in SUBSET (DOMAIN x.nodes) |->
             IF s = {} THEN 0
             ELSE LET i == CHOOSE i \in s : TRUE IN NodeSize(x, i) + g[s \ {i}]]
  BY <1>3, <1>4 DEF Summing
<1>6. iter = [s \in SUBSET (DOMAIN x.nodes) |->
             IF s = {} THEN 0
             ELSE LET i == CHOOSE i \in s : TRUE IN NodeSize(x, i) + iter[s \ {i}]]
  BY <1>5
<1> HIDE DEF iter
<1>7. Summing(f, n, iter)
  BY <1>3, <1>6 DEF Summing
<1>8. iter[1 .. n] = Total(f, n)
  BY <1>2, <1>7, SummingIs
<1> QED
  BY <1>1, <1>8 DEF f

(* A tree of values that may be written: parents come first. *)
TreeOK(x) ==
  /\ x.nodes \in Seq(Nodes) /\ x.open \in Seq(Nat)
  /\ \A i \in 1 .. Len(x.nodes) : x.nodes[i].parent < i
  /\ x.nodes # <<>> => x.nodes[1].text = "{"
  /\ \A k \in 1 .. Len(x.open) :
       /\ x.open[k] \in 1 .. Len(x.nodes) /\ x.nodes[x.open[k]].text \in Containers
       /\ \A l \in 1 .. Len(x.open) : k < l => x.open[k] < x.open[l]

(* Every symbol has a width. *)
LEMMA WidthIs == \A v \in Marks \cup Values : Width[v] \in Nat \ {0}
<1>1. Marks \cup Values \subseteq DOMAIN Width
  BY WordsAssumption DEF Values, Containers, Marks
<1> QED
  BY <1>1, WriterAssumption

(* Children are counted, and there are none when there is none. *)
LEMMA ChildrenIs ==
  ASSUME NEW x, NEW n \in Nat, DOMAIN x.nodes = 1 .. n, NEW i
  PROVE  Children(x, i) \in Nat /\ (Children(x, i) = 0 <=> ~ HasChild(x, i))
<1> DEFINE s == {j \in DOMAIN x.nodes : x.nodes[j].parent = i}
<1>1. IsFiniteSet(1 .. n) /\ s \subseteq 1 .. n
  BY FS_Interval
<1>2. IsFiniteSet(s)
  BY <1>1, FS_Subset
<1>3. Cardinality(s) \in Nat /\ (Cardinality(s) = 0 <=> s = {})
  BY <1>2, FS_CardinalityType, FS_EmptySet
<1>4. s = {} <=> ~ HasChild(x, i)
  BY DEF HasChild
<1> QED
  BY <1>3, <1>4 DEF Children

(* The nodes of a tree are what they should be. *)
LEMMA NodesAre ==
  ASSUME NEW x, TreeOK(x)
  PROVE  /\ Len(x.nodes) \in Nat /\ DOMAIN x.nodes = 1 .. Len(x.nodes)
         /\ Len(x.open) \in Nat /\ DOMAIN x.open = 1 .. Len(x.open)
         /\ \A i \in 1 .. Len(x.nodes) : x.nodes[i] \in Nodes
<1>1. x.nodes \in Seq(Nodes) /\ x.open \in Seq(Nat)
  BY DEF TreeOK
<1>2. \A S : \A s \in Seq(S) : /\ Len(s) \in Nat /\ DOMAIN s = 1 .. Len(s)
                             /\ \A i \in 1 .. Len(s) : s[i] \in S
  OBVIOUS
<1> QED
  BY <1>1, <1>2, Zenon

(* The size of a node is a number. *)
LEMMA NodeSizeType ==
  ASSUME NEW x, TreeOK(x), NEW i \in 1 .. Len(x.nodes)
  PROVE  NodeSize(x, i) \in Nat
<1>1. x.nodes[i].text \in Values /\ DOMAIN x.nodes = 1 .. Len(x.nodes) /\ Len(x.nodes) \in Nat
  BY NodesAre DEF Nodes
<1>2. Width[x.nodes[i].text] \in Nat
  BY <1>1, WidthIs
<1>3. Children(x, i) \in Nat
  BY <1>1, ChildrenIs
<1> DEFINE w == Width[x.nodes[i].text]
           c == Children(x, i)
           o == IF IsOpen(x, i) THEN 0 ELSE 1
<1>4. o \in Nat /\ NodeSize(x, i) = w + (IF x.nodes[i].text \in Containers
                                        THEN o + (IF c > 1 THEN c - 1 ELSE 0) ELSE c)
  BY DEF NodeSize
<1> HIDE DEF w, c, o
<1>5. w \in Nat /\ c \in Nat
  BY <1>2, <1>3 DEF w, c
<1>6. CASE x.nodes[i].text \in Containers
  <2>1. NodeSize(x, i) = w + (o + (IF c > 1 THEN c - 1 ELSE 0))
    BY <1>4, <1>6, Zenon
  <2>2. o \in Nat
    BY <1>4
  <2> QED
    BY <1>5, <2>1, <2>2
<1>7. CASE x.nodes[i].text \notin Containers
  <2>1. NodeSize(x, i) = w + c
    BY <1>4, <1>7, Zenon
  <2> QED
    BY <1>5, <2>1
<1> QED
  BY <1>6, <1>7

(* So is the size of the tree, and it is their sum. *)
LEMMA SizeType ==
  ASSUME NEW x, TreeOK(x)
  PROVE  /\ Size(x) = Total([i \in 1 .. Len(x.nodes) |-> NodeSize(x, i)], Len(x.nodes))
         /\ Size(x) \in Int
<1> DEFINE n == Len(x.nodes)
           f == [i \in 1 .. n |-> NodeSize(x, i)]
<1>1. n \in Nat /\ DOMAIN x.nodes = 1 .. n
  BY NodesAre
<1>2. \A i \in 1 .. n : NodeSize(x, i) \in Int
  BY NodeSizeType
<1>3. Size(x) = Total(f, n)
  BY <1>1, <1>2, SizeIs
<1>4. \A i \in 1 .. n : f[i] \in Int
  BY <1>2
<1> HIDE DEF f
<1>5. Total(f, n) \in Int
  BY <1>1, <1>4, TotalType
<1> QED
  BY <1>3, <1>5 DEF f

(* One node more is a child more of its parent. *)
LEMMA ChildrenGrow ==
  ASSUME NEW x, NEW y, NEW n \in Nat, DOMAIN x.nodes = 1 .. n, DOMAIN y.nodes = 1 .. n + 1,
         \A j \in 1 .. n : y.nodes[j] = x.nodes[j], NEW i
  PROVE  Children(y, i) = Children(x, i) + (IF y.nodes[n + 1].parent = i THEN 1 ELSE 0)
<1> DEFINE s == {j \in DOMAIN x.nodes : x.nodes[j].parent = i}
           t == {j \in DOMAIN y.nodes : y.nodes[j].parent = i}
<1>1. IsFiniteSet(1 .. n) /\ s \subseteq 1 .. n /\ n + 1 \notin s
  BY FS_Interval
<1>2. IsFiniteSet(s)
  BY <1>1, FS_Subset
<1>3. CASE y.nodes[n + 1].parent = i
  <2>1. t = s \cup {n + 1}
    BY <1>3
  <2> HIDE DEF s, t
  <2>2. Cardinality(t) = Cardinality(s) + 1
    BY <1>1, <1>2, <2>1, FS_AddElement
  <2> QED
    BY <1>3, <2>2 DEF Children, s, t
<1>4. CASE y.nodes[n + 1].parent # i
  <2>1. t = s
    BY <1>4
  <2>2. Children(x, i) \in Nat /\ Children(y, i) = Children(x, i)
    BY <1>2, <2>1, FS_CardinalityType DEF Children
  <2> HIDE DEF s, t
  <2>3. Children(x, i) = Children(x, i) + 0
    BY <2>2
  <2> QED
    BY <1>4, <2>2, <2>3
<1> QED
  BY <1>3, <1>4

(* The innermost open container is the last of the open ones.              *)
LEMMA InnermostIs ==
  ASSUME NEW x, TreeOK(x)
  PROVE  /\ x.open = <<>> => Innermost(x) = 0 /\ \A i : ~ IsOpen(x, i)
         /\ x.open # <<>> =>
              /\ Innermost(x) = x.open[Len(x.open)] /\ Innermost(x) \in 1 .. Len(x.nodes)
              /\ x.nodes[Innermost(x)].text \in Containers /\ IsOpen(x, Innermost(x))
              /\ Len(x.open) \in 1 .. Len(x.open)
              /\ \A i : IsOpen(x, i) => i \in 1 .. Len(x.nodes) /\ i <= Innermost(x)
<1> DEFINE n == Len(x.open)
<1>1. n \in Nat /\ DOMAIN x.open = 1 .. n /\ Len(x.nodes) \in Nat /\ x.open \in Seq(Nat)
  BY NodesAre DEF TreeOK
<1>2. \A k \in 1 .. n : /\ x.open[k] \in 1 .. Len(x.nodes) /\ x.nodes[x.open[k]].text \in Containers
                       /\ \A l \in 1 .. n : k < l => x.open[k] < x.open[l]
  BY DEF TreeOK
<1>3. CASE x.open = <<>>
  BY <1>1, <1>3 DEF IsOpen, Innermost
<1>4. CASE x.open # <<>>
  <2>1. n \in 1 .. n
    BY <1>1, <1>4, EmptySeq
  <2>2. Innermost(x) = x.open[n]
    BY <1>4 DEF Innermost
  <2> HIDE DEF n
  <2>3. IsOpen(x, x.open[n])
    BY <1>1, <2>1 DEF IsOpen
  <2>4. ASSUME NEW i, IsOpen(x, i) PROVE i \in 1 .. Len(x.nodes) /\ i <= x.open[n]
    <3>1. PICK k \in 1 .. n : x.open[k] = i
      BY <1>1, <2>4 DEF IsOpen
    <3>2. k = n \/ k < n
      BY <1>1, <3>1
    <3>3. k < n => x.open[k] < x.open[n]
      BY <1>2, <2>1, <3>1, Zenon
    <3>4. i \in 1 .. Len(x.nodes) /\ x.open[n] \in 1 .. Len(x.nodes)
      BY <1>2, <2>1, <3>1, Zenon
    <3>5. i = x.open[n] \/ i < x.open[n]
      BY <3>1, <3>2, <3>3, Zenon
    <3> DEFINE last == x.open[n]
    <3> HIDE DEF last
    <3> QED
      BY <1>1, <3>4, <3>5 DEF last
  <2> QED
    BY <1>2, <1>4, <2>1, <2>2, <2>3, <2>4 DEF n
<1> QED
  BY <1>3, <1>4

(* y is x with one node more; a container is open. *)
Grown(x, y, text, parent) ==
  /\ y.nodes = Append(x.nodes, [text |-> text, parent |-> parent])
  /\ y.open = IF text \in Containers THEN Append(x.open, Len(x.nodes) + 1) ELSE x.open
  /\ text \in Values /\ parent \in 0 .. Len(x.nodes)
  /\ x.nodes = <<>> => text = "{"

(* A sequence with one element more. *)
LEMMA Grows ==
  ASSUME NEW S, NEW s \in Seq(S), NEW e \in S, NEW t, t = Append(s, e)
  PROVE  /\ Len(s) \in Nat /\ Len(s) + 1 \in Nat /\ DOMAIN s = 1 .. Len(s)
         /\ t \in Seq(S) /\ Len(t) = Len(s) + 1 /\ DOMAIN t = 1 .. Len(s) + 1
         /\ t[Len(s) + 1] = e /\ \A i \in 1 .. Len(s) : t[i] = s[i]
OBVIOUS

(* What one node more changes, and what it leaves. *)
LEMMA GrownIs ==
  ASSUME NEW x, NEW y, NEW text, NEW parent, TreeOK(x), Grown(x, y, text, parent)
  PROVE  /\ Len(y.nodes) = Len(x.nodes) + 1 /\ DOMAIN y.nodes = 1 .. Len(x.nodes) + 1
         /\ y.nodes \in Seq(Nodes)
         /\ y.nodes[Len(x.nodes) + 1] = [text |-> text, parent |-> parent]
         /\ \A i \in 1 .. Len(x.nodes) : y.nodes[i] = x.nodes[i]
         /\ y.open \in Seq(Nat) /\ DOMAIN y.open = 1 .. Len(y.open)
         /\ \A k \in 1 .. Len(x.open) : y.open[k] = x.open[k]
         /\ text \in Containers => /\ Len(y.open) = Len(x.open) + 1
                                   /\ y.open[Len(x.open) + 1] = Len(x.nodes) + 1
         /\ text \notin Containers => y.open = x.open
         /\ \A i : HasChild(y, i) <=> HasChild(x, i) \/ i = parent
         /\ \A i : IsOpen(y, i) <=> IsOpen(x, i) \/ (text \in Containers /\ i = Len(x.nodes) + 1)
<1> DEFINE n == Len(x.nodes)
           m == Len(x.open)
<1>1. /\ n \in Nat /\ DOMAIN x.nodes = 1 .. n /\ m \in Nat /\ DOMAIN x.open = 1 .. m
      /\ x.nodes \in Seq(Nodes) /\ x.open \in Seq(Nat) /\ n + 1 \in Nat
  <2>1. x.nodes \in Seq(Nodes) /\ x.open \in Seq(Nat)
    BY DEF TreeOK
  <2>2. /\ n \in Nat /\ DOMAIN x.nodes = 1 .. n /\ m \in Nat /\ DOMAIN x.open = 1 .. m
    BY NodesAre
  <2> HIDE DEF n, m
  <2> QED
    BY <2>1, <2>2
<1> DEFINE node == [text |-> text, parent |-> parent]
<1>2. text \in Values /\ parent \in 0 .. n /\ y.nodes = Append(x.nodes, node)
  BY DEF Grown
<1>3. parent \in Nat
  BY <1>1, <1>2
<1>4. node \in Nodes
  BY <1>2, <1>3 DEF Nodes
<1>5. node.parent = parent
  OBVIOUS
<1> HIDE DEF node
<1>6. /\ Len(y.nodes) = n + 1 /\ DOMAIN y.nodes = 1 .. n + 1
      /\ y.nodes \in Seq(Nodes) /\ y.nodes[n + 1] = node
      /\ \A i \in 1 .. n : y.nodes[i] = x.nodes[i]
  BY <1>1, <1>2, <1>4, Grows
<1>7. \A i : HasChild(y, i) <=> HasChild(x, i) \/ i = parent
  <2> HIDE DEF n
  <2>1. \A i : HasChild(y, i) <=> \E j \in 1 .. n + 1 : y.nodes[j].parent = i
    BY <1>6 DEF HasChild
  <2>2. \A i : HasChild(x, i) <=> \E j \in 1 .. n : x.nodes[j].parent = i
    BY <1>1 DEF HasChild
  <2>3. \A j : j \in 1 .. n + 1 <=> j \in 1 .. n \/ j = n + 1
    BY <1>1
  <2> QED
    BY <1>5, <1>6, <2>1, <2>2, <2>3, Zenon
<1>8. CASE text \in Containers
  <2>1. y.open = Append(x.open, n + 1)
    BY <1>8, Zenon DEF Grown
  <2> HIDE DEF n, m
  <2>2. /\ y.open \in Seq(Nat) /\ Len(y.open) = m + 1 /\ DOMAIN y.open = 1 .. m + 1
        /\ \A k \in 1 .. m : y.open[k] = x.open[k]
        /\ y.open[m + 1] = n + 1
    BY <1>1, <2>1, Grows DEF m
  <2>3. \A k : k \in 1 .. m + 1 <=> k \in 1 .. m \/ k = m + 1
    BY <1>1
  <2>4. \A i : IsOpen(y, i) <=> IsOpen(x, i) \/ i = n + 1
    BY <1>1, <2>2, <2>3, Zenon DEF IsOpen
  <2>5. DOMAIN y.open = 1 .. Len(y.open)
    BY <2>2
  <2> QED
    BY <1>6, <1>7, <1>8, <2>2, <2>4, <2>5, Zenon DEF node, n, m
<1>9. CASE text \notin Containers
  <2>1. y.open = x.open
    BY <1>9, Zenon DEF Grown
  <2>2. \A i : IsOpen(y, i) <=> IsOpen(x, i)
    BY <2>1 DEF IsOpen
  <2> QED
    BY <1>1, <1>6, <1>7, <1>9, <2>1, <2>2, Zenon DEF node
<1> QED
  BY <1>8, <1>9, Zenon

(* A tree with one node more is a tree. *)
LEMMA TreeGrows ==
  ASSUME NEW x, NEW y, NEW text, NEW parent, TreeOK(x), Grown(x, y, text, parent)
  PROVE  TreeOK(y)
<1> DEFINE n == Len(x.nodes)
           m == Len(x.open)
           l == Len(y.open)
<1>1. n \in Nat /\ m \in Nat /\ n + 1 \in Nat /\ m + 1 \in Nat
  BY NodesAre
<1>2. /\ Len(y.nodes) = n + 1 /\ y.nodes \in Seq(Nodes) /\ y.open \in Seq(Nat)
      /\ y.nodes[n + 1] = [text |-> text, parent |-> parent]
      /\ \A i \in 1 .. n : y.nodes[i] = x.nodes[i]
      /\ \A k \in 1 .. m : y.open[k] = x.open[k]
      /\ text \in Containers => l = m + 1 /\ y.open[m + 1] = n + 1
      /\ text \notin Containers => l = m
  BY GrownIs, ZenonT(40)
<1>3. parent \in 0 .. n /\ (x.nodes = <<>> => text = "{")
  BY DEF Grown
<1>4. /\ \A i \in 1 .. n : x.nodes[i].parent < i
      /\ x.nodes # <<>> => x.nodes[1].text = "{"
      /\ \A k \in 1 .. m :
           /\ x.open[k] \in 1 .. n /\ x.nodes[x.open[k]].text \in Containers
           /\ \A j \in 1 .. m : k < j => x.open[k] < x.open[j]
  BY DEF TreeOK
<1>5. x.nodes # <<>> => n > 0
  <2>1. x.nodes \in Seq(Nodes)
    BY DEF TreeOK
  <2> QED
    BY <2>1, EmptySeq
<1>6. x.nodes = <<>> => n = 0
  OBVIOUS
<1> DEFINE node == [text |-> text, parent |-> parent]
<1>7. node.text = text /\ node.parent = parent /\ y.nodes[n + 1] = node
  BY <1>2
<1> HIDE DEF n, m, l, node
<1>8. \A i \in 1 .. n + 1 : y.nodes[i].parent < i
  <2> SUFFICES ASSUME NEW i \in 1 .. n + 1 PROVE y.nodes[i].parent < i
    OBVIOUS
  <2>1. CASE i \in 1 .. n
    BY <1>2, <1>4, <2>1, Zenon
  <2>2. CASE i = n + 1
    <3>1. y.nodes[i].parent = parent
      BY <1>7, <2>2, Zenon
    <3>2. parent < n + 1
      <4>1. parent \in 0 .. n
        BY <1>3
      <4> QED
        BY <1>1, <4>1
    <3> QED
      BY <2>2, <3>1, <3>2
  <2> QED
    BY <1>1, <2>1, <2>2
<1>9. y.nodes[1].text = "{"
  <2>1. CASE x.nodes = <<>>
    <3>1. n + 1 = 1
      BY <1>6, <2>1
    <3> QED
      BY <1>3, <1>7, <2>1, <3>1, Zenon
  <2>2. CASE x.nodes # <<>>
    <3>1. 1 \in 1 .. n
      BY <1>1, <1>5, <2>2
    <3> QED
      BY <1>2, <1>4, <2>2, <3>1, Zenon
  <2> QED
    BY <2>1, <2>2
<1>10. \A k \in 1 .. m :
         /\ y.open[k] \in 1 .. n + 1 /\ y.open[k] < n + 1 /\ y.nodes[y.open[k]].text \in Containers
         /\ \A j \in 1 .. m : k < j => y.open[k] < y.open[j]
  <2> SUFFICES ASSUME NEW k \in 1 .. m
               PROVE  /\ y.open[k] \in 1 .. n + 1 /\ y.open[k] < n + 1
                      /\ y.nodes[y.open[k]].text \in Containers
                      /\ \A j \in 1 .. m : k < j => y.open[k] < y.open[j]
    OBVIOUS
  <2>1. y.open[k] = x.open[k] /\ x.open[k] \in 1 .. n
    BY <1>2, <1>4, Zenon
  <2>2. y.open[k] \in 1 .. n + 1 /\ y.open[k] < n + 1
    BY <1>1, <2>1
  <2>3. y.nodes[y.open[k]].text \in Containers
    BY <1>2, <1>4, <2>1, Zenon
  <2> QED
    BY <1>2, <1>4, <2>1, <2>2, <2>3, Zenon
<1>11. \A k \in 1 .. l : /\ y.open[k] \in 1 .. n + 1 /\ y.nodes[y.open[k]].text \in Containers
                        /\ \A j \in 1 .. l : k < j => y.open[k] < y.open[j]
  <2>1. CASE text \notin Containers
    BY <1>2, <1>10, <2>1, Zenon
  <2>2. CASE text \in Containers
    <3> SUFFICES ASSUME NEW k \in 1 .. l
                 PROVE  /\ y.open[k] \in 1 .. n + 1 /\ y.nodes[y.open[k]].text \in Containers
                        /\ \A j \in 1 .. l : k < j => y.open[k] < y.open[j]
      OBVIOUS
    <3>1. \A j \in 1 .. l : j \in 1 .. m \/ j = m + 1
      BY <1>1, <1>2, <2>2
    <3>2. CASE k \in 1 .. m
      BY <1>2, <1>10, <2>2, <3>1, <3>2, Zenon
    <3>3. CASE k = m + 1
      <4>1. \A j \in 1 .. l : ~ (k < j)
        BY <1>1, <1>2, <2>2, <3>3
      <4>2. n + 1 \in 1 .. n + 1
        BY <1>1
      <4> QED
        BY <1>2, <1>7, <2>2, <3>3, <4>1, <4>2, Zenon
    <3> QED
      BY <3>1, <3>2, <3>3
  <2> QED
    BY <2>1, <2>2
<1> QED
  BY <1>2, <1>8, <1>9, <1>11 DEF TreeOK, n, m, l

(* What a child more adds to the size of its parent: the comma between two *)
(* children of a container, or the colon of a key.                         *)
Extra(x, parent) ==
  IF parent = 0 THEN 0
  ELSE IF x.nodes[parent].text \in Containers THEN (IF HasChild(x, parent) THEN 1 ELSE 0) ELSE 1

(* A new node has the size of its own symbol. *)
LEMMA LeafSize ==
  ASSUME NEW x, NEW y, NEW text, NEW parent, TreeOK(x), Grown(x, y, text, parent)
  PROVE  NodeSize(y, Len(x.nodes) + 1) = Width[text]
<1> DEFINE n == Len(x.nodes)
<1>1. n \in Nat /\ DOMAIN y.nodes = 1 .. n + 1 /\ n + 1 \in Nat /\ DOMAIN x.nodes = 1 .. n
      /\ y.nodes[n + 1] = [text |-> text, parent |-> parent]
  BY NodesAre, GrownIs
<1>2. parent \in 0 .. n
  BY DEF Grown
<1>3. \A i \in 1 .. n : x.nodes[i].parent < i /\ x.nodes[i].parent \in Nat
  BY NodesAre DEF TreeOK, Nodes
<1>4. /\ HasChild(y, n + 1) <=> HasChild(x, n + 1) \/ n + 1 = parent
      /\ text \in Containers => IsOpen(y, n + 1)
  <2>1. /\ \A i : HasChild(y, i) <=> HasChild(x, i) \/ i = parent
        /\ \A i : IsOpen(y, i) <=> IsOpen(x, i) \/ (text \in Containers /\ i = n + 1)
    BY GrownIs, Zenon
  <2> QED
    BY <2>1, Zenon
<1>5. text \in Values
  BY DEF Grown
<1> HIDE DEF n
<1>6. ~ HasChild(x, n + 1)
  BY <1>1, <1>3 DEF HasChild
<1>7. n + 1 # parent
  BY <1>1, <1>2
<1>8. Children(y, n + 1) = 0
  BY <1>1, <1>4, <1>6, <1>7, ChildrenIs, Zenon
<1> DEFINE node == [text |-> text, parent |-> parent]
<1>9. y.nodes[n + 1].text = text
  <2>1. node.text = text /\ y.nodes[n + 1] = node
    BY <1>1
  <2> QED
    BY <2>1, Zenon
<1>10. Width[text] \in Nat
  BY <1>5, WidthIs
<1>11. NodeSize(y, n + 1) = Width[text] + 0
  <2>1. CASE text \in Containers
    <3>1. NodeSize(y, n + 1) = Width[text] + (0 + (IF 0 > 1 THEN 0 - 1 ELSE 0))
      BY <1>4, <1>8, <1>9, <2>1, Zenon DEF NodeSize
    <3>2. 0 + (IF 0 > 1 THEN 0 - 1 ELSE 0) = 0
      OBVIOUS
    <3> QED
      BY <3>1, <3>2, Zenon
  <2>2. CASE text \notin Containers
    BY <1>8, <1>9, <2>2, Zenon DEF NodeSize
  <2> QED
    BY <2>1, <2>2, Zenon
<1> QED
  BY <1>10, <1>11 DEF n

(* Of the others only the parent changes its size. *)
LEMMA OthersKeepTheirSize ==
  ASSUME NEW x, NEW y, NEW text, NEW parent, TreeOK(x), Grown(x, y, text, parent),
         NEW i \in 1 .. Len(x.nodes)
  PROVE  /\ i # parent => NodeSize(y, i) = NodeSize(x, i)
         /\ i = parent => NodeSize(y, i) = NodeSize(x, i) + Extra(x, parent)
<1> DEFINE n == Len(x.nodes)
<1>1. n \in Nat /\ DOMAIN y.nodes = 1 .. n + 1 /\ n + 1 \in Nat /\ DOMAIN x.nodes = 1 .. n
      /\ y.nodes[n + 1] = [text |-> text, parent |-> parent]
      /\ \A j \in 1 .. n : y.nodes[j] = x.nodes[j]
  BY NodesAre, GrownIs
<1>2. IsOpen(y, i) <=> IsOpen(x, i)
  <2>1. IsOpen(y, i) <=> IsOpen(x, i) \/ (text \in Containers /\ i = n + 1)
    BY GrownIs, Zenon
  <2>2. i # n + 1
    BY <1>1
  <2> QED
    BY <2>1, <2>2, Zenon
<1> HIDE DEF n
<1>3. y.nodes[n + 1].parent = parent
  <2> DEFINE node == [text |-> text, parent |-> parent]
  <2>1. node.parent = parent /\ y.nodes[n + 1] = node
    BY <1>1
  <2> QED
    BY <2>1, Zenon
<1>4. Children(y, i) = Children(x, i) + (IF y.nodes[n + 1].parent = i THEN 1 ELSE 0)
  <2>1. \A j \in 1 .. n : y.nodes[j] = x.nodes[j]
    BY <1>1
  <2>2. n \in Nat /\ DOMAIN x.nodes = 1 .. n /\ DOMAIN y.nodes = 1 .. n + 1
    BY <1>1
  <2> QED
    BY <2>1, <2>2, ChildrenGrow
<1> DEFINE c == Children(x, i)
           d == Children(y, i)
           w == Width[x.nodes[i].text]
           o == IF IsOpen(x, i) THEN 0 ELSE 1
<1>5. c \in Nat /\ (c = 0 <=> ~ HasChild(x, i))
  BY <1>1, ChildrenIs
<1>6. y.nodes[i] = x.nodes[i]
  BY <1>1 DEF n
<1>7. x.nodes[i].text \in Values
  BY NodesAre DEF Nodes
<1>8. w \in Nat /\ o \in Nat
  <2>1. w \in Nat
    BY <1>7, WidthIs
  <2>2. o \in Nat
    OBVIOUS
  <2> QED
    BY <2>1, <2>2
<1>9. /\ NodeSize(x, i) = w + (IF x.nodes[i].text \in Containers
                              THEN o + (IF c > 1 THEN c - 1 ELSE 0) ELSE c)
      /\ NodeSize(y, i) = w + (IF x.nodes[i].text \in Containers
                              THEN o + (IF d > 1 THEN d - 1 ELSE 0) ELSE d)
  BY <1>2, <1>6, Zenon DEF NodeSize
<1> HIDE DEF c, d, w, o
<1>10. ASSUME i # parent PROVE NodeSize(y, i) = NodeSize(x, i)
  <2>1. d = c + 0
    BY <1>3, <1>4, <1>10 DEF c, d
  <2>2. d = c
    BY <1>5, <2>1
  <2>3. CASE x.nodes[i].text \in Containers
    BY <1>9, <2>2, <2>3
  <2>4. CASE x.nodes[i].text \notin Containers
    BY <1>9, <2>2, <2>4
  <2> QED
    BY <2>3, <2>4, Zenon
<1>11. ASSUME i = parent PROVE NodeSize(y, i) = NodeSize(x, i) + Extra(x, parent)
  <2>1. d = c + 1
    BY <1>3, <1>4, <1>11 DEF c, d
  <2>2. parent # 0
    BY <1>11
  <2>3. CASE x.nodes[i].text \in Containers
    <3>1. /\ NodeSize(x, i) = w + (o + (IF c > 1 THEN c - 1 ELSE 0))
          /\ NodeSize(y, i) = w + (o + (IF d > 1 THEN d - 1 ELSE 0))
      BY <1>9, <2>3, Zenon
    <3>2. CASE HasChild(x, i)
      <4>1. Extra(x, parent) = 1
        BY <1>11, <2>2, <2>3, <3>2, Zenon DEF Extra
      <4>2. c > 0
        BY <1>5, <3>2
      <4> QED
        BY <1>5, <1>8, <2>1, <3>1, <4>1, <4>2
    <3>3. CASE ~ HasChild(x, i)
      <4>1. Extra(x, parent) = 0
        BY <1>11, <2>2, <2>3, <3>3, Zenon DEF Extra
      <4>2. c = 0
        BY <1>5, <3>3
      <4> QED
        BY <1>8, <2>1, <3>1, <4>1, <4>2
    <3> QED
      BY <3>2, <3>3, Zenon
  <2>4. CASE x.nodes[i].text \notin Containers
    <3>1. Extra(x, parent) = 1
      BY <1>11, <2>2, <2>4, Zenon DEF Extra
    <3>2. NodeSize(x, i) = w + c /\ NodeSize(y, i) = w + d
      BY <1>9, <2>4, Zenon
    <3> QED
      BY <1>5, <1>8, <2>1, <3>1, <3>2
  <2> QED
    BY <2>3, <2>4, Zenon
<1> QED
  BY <1>10, <1>11

(* So a node adds its symbol, and the comma or colon before it. *)
LEMMA SizeGrows ==
  ASSUME NEW x, NEW y, NEW text, NEW parent, TreeOK(x), Grown(x, y, text, parent)
  PROVE  Size(y) = Size(x) + Width[text] + Extra(x, parent)
<1> DEFINE n == Len(x.nodes)
           m == Len(y.nodes)
           f == [i \in 1 .. n |-> NodeSize(x, i)]
           g == [i \in 1 .. m |-> NodeSize(y, i)]
           e == Extra(x, parent)
<1>1. TreeOK(y)
  BY TreeGrows
<1>2. n \in Nat /\ n + 1 \in Nat /\ m = n + 1
  <2>1. Len(x.nodes) \in Nat
    BY NodesAre
  <2>2. Len(y.nodes) = Len(x.nodes) + 1
    BY GrownIs, Zenon
  <2> QED
    BY <2>1, <2>2
<1>3. Size(x) = Total(f, n) /\ Size(y) = Total(g, m)
  BY <1>1, SizeType
<1>4. g[n + 1] = Width[text]
  BY <1>2, LeafSize
<1>5. \A i \in 1 .. n : f[i] \in Int /\ g[i] \in Int
  <2>1. \A i \in 1 .. n : NodeSize(x, i) \in Nat
    BY NodeSizeType
  <2>2. \A i \in 1 .. m : NodeSize(y, i) \in Nat
    BY <1>1, NodeSizeType
  <2> QED
    BY <1>2, <2>1, <2>2
<1>6. ASSUME NEW i \in 1 .. n
      PROVE  (i # parent => g[i] = f[i]) /\ (i = parent => g[i] = f[i] + e)
  <2>1. g[i] = NodeSize(y, i) /\ f[i] = NodeSize(x, i)
    BY <1>2
  <2>2. /\ i # parent => NodeSize(y, i) = NodeSize(x, i)
        /\ i = parent => NodeSize(y, i) = NodeSize(x, i) + Extra(x, parent)
    BY OthersKeepTheirSize
  <2> QED
    BY <2>1, <2>2, Zenon
<1>7. parent \in 0 .. n
  BY DEF Grown
<1>8. e \in Int /\ (parent = 0 => e = 0)
  BY DEF Extra
<1> HIDE DEF n, m, f, g, e
<1>9. Total(g, n + 1) = Total(g, n) + g[n + 1]
  BY <1>2, TotalGrows
<1>10. Total(f, n) \in Int
  BY <1>2, <1>5, TotalType
<1>11. Width[text] \in Nat
  <2>1. text \in Values
    BY DEF Grown
  <2> QED
    BY <2>1, WidthIs
<1>12. Total(g, n) = Total(f, n) + e
  <2>1. CASE parent = 0
    <3>1. \A i \in 1 .. n : f[i] = g[i]
      <4>1. \A i \in 1 .. n : i # parent
        BY <2>1
      <4> QED
        BY <1>6, <4>1, Zenon
    <3>2. Total(f, n) = Total(g, n)
      BY <1>2, <3>1, TotalGrows
    <3> QED
      BY <1>8, <1>10, <2>1, <3>2
  <2>2. CASE parent # 0
    <3>1. parent \in 1 .. n
      BY <1>2, <1>7, <2>2
    <3>2. \A i \in 1 .. n : g[i] \in Int /\ f[i] \in Int /\ (i # parent => g[i] = f[i])
      BY <1>5, <1>6, Zenon
    <3>3. g[parent] = f[parent] + e
      BY <1>6, <3>1
    <3> QED
      BY <1>2, <1>8, <3>1, <3>2, <3>3, TotalChange
  <2> QED
    BY <2>1, <2>2
<1> QED
  BY <1>2, <1>3, <1>4, <1>8, <1>9, <1>10, <1>11, <1>12 DEF e

(* y is x with its innermost container closed. *)
Closed(x, y) ==
  /\ x.open # <<>> /\ y.nodes = x.nodes
  /\ y.open = SubSeq(x.open, 1, Len(x.open) - 1)

(* A tree with a container closed is a tree. *)
LEMMA ClosedIs ==
  ASSUME NEW x, NEW y, TreeOK(x), Closed(x, y)
  PROVE  /\ TreeOK(y) /\ Len(y.open) = Len(x.open) - 1 /\ Len(x.open) > 0
         /\ \A k \in 1 .. Len(y.open) : y.open[k] = x.open[k]
         /\ \A i : IsOpen(y, i) <=> IsOpen(x, i) /\ i # Innermost(x)
<1> DEFINE m == Len(x.open)
<1>1. x.nodes \in Seq(Nodes) /\ x.open \in Seq(Nat)
  BY DEF TreeOK
<1>2. m \in Nat /\ m > 0 /\ DOMAIN x.open = 1 .. m
  BY <1>1, EmptySeq DEF Closed
<1>3. y.open = SubSeq(x.open, 1, m - 1) /\ y.nodes = x.nodes
  BY DEF Closed
<1> DEFINE l == m - 1
<1>4. l \in Nat /\ l + 1 = m
  BY <1>2
<1>5. /\ y.open \in Seq(Nat) /\ Len(y.open) = l /\ DOMAIN y.open = 1 .. l
      /\ \A k \in 1 .. l : y.open[k] = x.open[k]
  BY <1>1, <1>2, <1>3
<1>6. Innermost(x) = x.open[m]
  BY Zenon DEF Innermost, Closed
<1>7. \A k \in 1 .. m : /\ x.open[k] \in 1 .. Len(x.nodes) /\ x.nodes[x.open[k]].text \in Containers
                       /\ \A j \in 1 .. m : k < j => x.open[k] < x.open[j]
  BY DEF TreeOK
<1>8. (\A i \in 1 .. Len(x.nodes) : x.nodes[i].parent < i) /\ (x.nodes # <<>> => x.nodes[1].text = "{")
  BY DEF TreeOK
<1> HIDE DEF m, l
<1>9. \A k \in 1 .. l : k \in 1 .. m /\ k < m
  BY <1>4
<1>10. TreeOK(y)
  <2>1. \A k \in 1 .. l : /\ y.open[k] \in 1 .. Len(y.nodes) /\ y.nodes[y.open[k]].text \in Containers
                         /\ \A j \in 1 .. l : k < j => y.open[k] < y.open[j]
    BY <1>3, <1>5, <1>7, <1>9, Zenon
  <2> QED
    BY <1>1, <1>3, <1>5, <1>8, <2>1, Zenon DEF TreeOK
<1>11. \A k \in 1 .. l : x.open[k] # x.open[m]
  <2> SUFFICES ASSUME NEW k \in 1 .. l PROVE x.open[k] # x.open[m]
    OBVIOUS
  <2>1. m \in 1 .. m
    BY <1>2
  <2>2. x.open[k] < x.open[m] /\ x.open[k] \in 1 .. Len(x.nodes) /\ x.open[m] \in 1 .. Len(x.nodes)
    BY <1>7, <1>9, <2>1, Zenon
  <2> QED
    BY <2>2
<1>12. \A k : k \in 1 .. m <=> k \in 1 .. l \/ k = m
  BY <1>2, <1>4
<1>13. \A i : IsOpen(y, i) <=> IsOpen(x, i) /\ i # Innermost(x)
  BY <1>2, <1>5, <1>6, <1>11, <1>12, Zenon DEF IsOpen
<1> QED
  BY <1>2, <1>5, <1>10, <1>13 DEF l, m

(* The size of a node by what it is. *)
LEMMA NodeSizeIs ==
  ASSUME NEW x, NEW i, NEW text, NEW c, x.nodes[i].text = text, Children(x, i) = c
  PROVE  /\ text \notin Containers => NodeSize(x, i) = Width[text] + c
         /\ text \in Containers /\ IsOpen(x, i) =>
              NodeSize(x, i) = Width[text] + (0 + (IF c > 1 THEN c - 1 ELSE 0))
         /\ text \in Containers /\ ~ IsOpen(x, i) =>
              NodeSize(x, i) = Width[text] + (1 + (IF c > 1 THEN c - 1 ELSE 0))
BY Zenon DEF NodeSize

(* The size of a node depends on the nodes and on its being open. *)
LEMMA NodeSizeSame ==
  ASSUME NEW x, NEW y, NEW i, y.nodes = x.nodes, IsOpen(y, i) <=> IsOpen(x, i)
  PROVE  NodeSize(y, i) = NodeSize(x, i)
<1> DEFINE text == x.nodes[i].text
           d == Children(x, i)
           e == IF d > 1 THEN d - 1 ELSE 0
<1>1. y.nodes[i].text = text /\ Children(y, i) = d
  BY Zenon DEF Children
<1>2. x.nodes[i].text = text /\ Children(x, i) = d
  OBVIOUS
<1> HIDE DEF text, d
<1>3. /\ text \notin Containers => NodeSize(x, i) = Width[text] + d
      /\ text \in Containers /\ IsOpen(x, i) => NodeSize(x, i) = Width[text] + (0 + e)
      /\ text \in Containers /\ ~ IsOpen(x, i) => NodeSize(x, i) = Width[text] + (1 + e)
  BY <1>2, NodeSizeIs
<1>4. /\ text \notin Containers => NodeSize(y, i) = Width[text] + d
      /\ text \in Containers /\ IsOpen(y, i) => NodeSize(y, i) = Width[text] + (0 + e)
      /\ text \in Containers /\ ~ IsOpen(y, i) => NodeSize(y, i) = Width[text] + (1 + e)
  BY <1>1, NodeSizeIs
<1> HIDE DEF e
<1> QED
  BY <1>3, <1>4, Zenon

(* A container that is closed has one mark more. *)
LEMMA SizeCloses ==
  ASSUME NEW x, NEW y, TreeOK(x), Closed(x, y)
  PROVE  Size(y) = Size(x) + 1
<1> DEFINE n == Len(x.nodes)
           f == [i \in 1 .. n |-> NodeSize(x, i)]
           g == [i \in 1 .. n |-> NodeSize(y, i)]
           c == Innermost(x)
<1>1. TreeOK(y) /\ y.nodes = x.nodes /\ \A i : IsOpen(y, i) <=> IsOpen(x, i) /\ i # c
  BY ClosedIs, Zenon DEF Closed
<1>2. n \in Nat /\ c \in 1 .. n /\ x.nodes[c].text \in Containers /\ IsOpen(x, c)
  <2>1. x.open # <<>>
    BY DEF Closed
  <2> QED
    BY <2>1, NodesAre, InnermostIs
<1>3. Size(x) = Total(f, n) /\ Size(y) = Total(g, n) /\ Size(x) \in Int
  <2>1. Size(y) = Total([i \in 1 .. Len(y.nodes) |-> NodeSize(y, i)], Len(y.nodes))
    BY <1>1, SizeType
  <2> QED
    BY <1>1, <2>1, SizeType
<1>4. \A i \in 1 .. n : NodeSize(x, i) \in Nat /\ NodeSize(y, i) \in Nat
  BY <1>1, NodeSizeType
<1>5. \A i : Children(y, i) = Children(x, i)
  BY <1>1, Zenon DEF Children
<1>6. \A i \in 1 .. n : i # c => NodeSize(y, i) = NodeSize(x, i)
  <2> SUFFICES ASSUME NEW i \in 1 .. n, i # c PROVE NodeSize(y, i) = NodeSize(x, i)
    OBVIOUS
  <2>1. IsOpen(y, i) <=> IsOpen(x, i)
    BY <1>1, Zenon
  <2> QED
    BY <1>1, <2>1, NodeSizeSame
<1>7. NodeSize(y, c) = NodeSize(x, c) + 1
  <2> DEFINE d == Children(x, c)
             w == Width[x.nodes[c].text]
             e == IF d > 1 THEN d - 1 ELSE 0
  <2>1. NodeSize(x, c) = w + (0 + e)
    BY <1>2, Zenon DEF NodeSize
  <2>2. ~ IsOpen(y, c)
    BY <1>1, Zenon
  <2>3. NodeSize(y, c) = w + (1 + e)
    <3>1. y.nodes[c].text = x.nodes[c].text /\ Children(y, c) = d
      BY <1>1, <1>5, Zenon
    <3> HIDE DEF w, e, d
    <3>2. x.nodes[c].text \in Containers /\ ~ IsOpen(y, c) => NodeSize(y, c) = Width[x.nodes[c].text] + (1 + e)
      BY <3>1, NodeSizeIs DEF e
    <3> QED
      BY <1>2, <2>2, <3>2, Zenon DEF w
  <2>4. d \in Nat
    BY NodesAre, ChildrenIs
  <2>5. w \in Nat
    <3>1. x.nodes[c].text \in Values
      BY <1>2 DEF Values
    <3> QED
      BY <3>1, WidthIs
  <2>6. e \in Int
    BY <2>4
  <2> HIDE DEF w, d, e
  <2> QED
    BY <2>1, <2>3, <2>5, <2>6
<1>8. \A i \in 1 .. n : g[i] \in Int /\ f[i] \in Int /\ (i # c => g[i] = f[i])
  BY <1>4, <1>6
<1>9. g[c] = f[c] + 1
  BY <1>2, <1>7
<1> HIDE DEF f, g, n, c
<1>10. Total(g, n) = Total(f, n) + 1
  BY <1>2, <1>8, <1>9, TotalChange, SMTT(30)
<1> QED
  BY <1>3, <1>10

(***************************************************************************)
(* A text as it is written: its nodes, the containers that are open, and   *)
(* what came last.  The next symbol is one of five.                        *)
(***************************************************************************)
MayFollow(x) ==
  x.open # <<>> /\ (x.last = "comma" \/ (x.last = "value" /\ ~ HasChild(x, Innermost(x))))
InsideOf(x) == x.nodes[Innermost(x)].text

AddsComma(x, symbol, y) ==
  /\ x.last = "value" /\ x.open # <<>> /\ HasChild(x, Innermost(x))
  /\ symbol = "," /\ y.last = "comma" /\ y.nodes = x.nodes /\ y.open = x.open
AddsKey(x, symbol, y) ==
  /\ MayFollow(x) /\ InsideOf(x) = "{"
  /\ symbol \in Strings /\ y.last = "key" /\ Grown(x, y, symbol, Innermost(x))
AddsColon(x, symbol, y) ==
  /\ x.last = "key"
  /\ symbol = ":" /\ y.last = "colon" /\ y.nodes = x.nodes /\ y.open = x.open
AddsValue(x, symbol, y, parent) ==
  /\ \/ x.last = "colon" /\ parent = Len(x.nodes)
     \/ x.nodes = <<>> /\ symbol = "{" /\ parent = 0
     \/ MayFollow(x) /\ InsideOf(x) = "[" /\ parent = Innermost(x)
  /\ symbol \in Values /\ y.last = "value" /\ Grown(x, y, symbol, parent)
AddsEnd(x, symbol, y) ==
  /\ x.last = "value" /\ Closed(x, y)
  /\ symbol = (IF InsideOf(x) = "{" THEN "}" ELSE "]") /\ y.last = "value"

DocOK(x) ==
  /\ TreeOK(x)
  /\ \A k \in 1 .. Len(x.open) : k < Len(x.open) => HasChild(x, x.open[k])
  /\ x.last \in {"comma", "key", "colon", "value"}
  /\ x.last # "value" => x.open # <<>> /\ HasChild(x, Innermost(x))
  /\ x.last \in {"key", "colon"} => x.nodes[Len(x.nodes)].text \in Strings /\ InsideOf(x) = "{"

(* The bytes of the text. *)
Bound(x) == Size(x) + (IF x.last \in {"comma", "colon"} THEN 1 ELSE 0)

(* The size depends on the nodes and the open containers only. *)
LEMMA SizeSame ==
  ASSUME NEW x, NEW y, TreeOK(x), y.nodes = x.nodes, y.open = x.open
  PROVE  /\ TreeOK(y) /\ Size(y) = Size(x) /\ Innermost(y) = Innermost(x)
         /\ \A i : (HasChild(y, i) <=> HasChild(x, i)) /\ (IsOpen(y, i) <=> IsOpen(x, i))
<1>1. TreeOK(y)
  BY Zenon DEF TreeOK
<1>2. Innermost(y) = Innermost(x)
  BY Zenon DEF Innermost
<1>3. \A i : (HasChild(y, i) <=> HasChild(x, i)) /\ (IsOpen(y, i) <=> IsOpen(x, i))
  BY Zenon DEF HasChild, IsOpen
<1>4. \A i : NodeSize(y, i) = NodeSize(x, i)
  BY <1>3, NodeSizeSame
<1> DEFINE n == Len(x.nodes)
           f == [i \in 1 .. n |-> NodeSize(x, i)]
           g == [i \in 1 .. n |-> NodeSize(y, i)]
<1>5. Size(x) = Total(f, n)
  BY SizeType
<1>6. Size(y) = Total([i \in 1 .. Len(y.nodes) |-> NodeSize(y, i)], Len(y.nodes))
  BY <1>1, SizeType
<1>7. Size(y) = Total(g, n)
  BY <1>6
<1>8. n \in Nat /\ \A i \in 1 .. n : g[i] = f[i]
  BY <1>4, NodesAre
<1> HIDE DEF n, f, g
<1>9. Total(g, n) = Total(f, n)
  BY <1>8, TotalGrows
<1> QED
  BY <1>1, <1>2, <1>3, <1>5, <1>7, <1>9, Zenon

(* The bytes of a text: one more than its nodes have after a comma or colon. *)
LEMMA Bounds ==
  ASSUME NEW x, DocOK(x)
  PROVE  /\ Size(x) \in Int /\ Bound(x) \in Int
         /\ x.last \in {"comma", "colon"} => Bound(x) = Size(x) + 1
         /\ x.last \notin {"comma", "colon"} => Bound(x) = Size(x)
<1>1. Size(x) \in Int
  BY SizeType DEF DocOK
<1>2. x.last \in {"comma", "colon"} => Bound(x) = Size(x) + 1
  BY Zenon DEF Bound
<1>3. x.last \notin {"comma", "colon"} => Bound(x) = Size(x) + 0
  BY Zenon DEF Bound
<1>4. Size(x) + 0 = Size(x)
  BY <1>1
<1>5. Bound(x) \in Int
  BY <1>1, <1>2, <1>3
<1> QED
  BY <1>1, <1>2, <1>3, <1>4, <1>5, Zenon

(* Marks, strings and primitives are different things. *)
LEMMA NotContainers ==
  /\ \A s \in Strings : s \notin Containers /\ s \notin Marks /\ s \notin Primitives
  /\ \A s \in Primitives : s \notin Containers /\ s \notin Marks /\ s \notin Strings
  /\ Containers \subseteq Marks
<1>1. Containers \subseteq Marks
  BY Zenon DEF Containers, Marks
<1>2. (Strings \cup Primitives) \cap Marks = {} /\ Strings \cap Primitives = {}
  BY JsmnAssumption, Zenon DEF Marks
<1> QED
  BY <1>1, <1>2, Zenon

(* A comma keeps the text one, and counts its bytes. *)
LEMMA CommaFits ==
  ASSUME NEW x, NEW symbol, NEW y, DocOK(x), AddsComma(x, symbol, y)
  PROVE  DocOK(y) /\ Bound(y) = Bound(x) + Width[symbol]
<1>1. y.nodes = x.nodes /\ y.open = x.open /\ symbol = "," /\ x.last = "value" /\ y.last = "comma"
      /\ x.open # <<>> /\ HasChild(x, Innermost(x))
  BY Zenon DEF AddsComma
<1>2. DocOK(y)
  BY <1>1, SizeSame, Zenon DEF DocOK
<1>3. Width[symbol] = 1
  BY <1>1, WordsAssumption, Zenon DEF Marks
<1>4. x.last \notin {"comma", "colon"} /\ y.last \in {"comma", "colon"}
  BY <1>1, Zenon
<1>5. Bound(y) = Size(x) + 1 /\ Bound(x) = Size(x)
  <2>1. TreeOK(x)
    BY DEF DocOK
  <2>2. Size(y) = Size(x)
    BY <1>1, <2>1, SizeSame
  <2> QED
    BY <1>2, <1>4, <2>2, Bounds, Zenon
<1> QED
  BY <1>2, <1>3, <1>5

(* So does a colon. *)
LEMMA ColonFits ==
  ASSUME NEW x, NEW symbol, NEW y, DocOK(x), AddsColon(x, symbol, y)
  PROVE  DocOK(y) /\ Bound(y) = Bound(x) + Width[symbol]
<1>1. y.nodes = x.nodes /\ y.open = x.open /\ symbol = ":" /\ x.last = "key" /\ y.last = "colon"
  BY Zenon DEF AddsColon
<1>2. DocOK(y)
  <2>1. x.last # "value" /\ x.last \in {"key", "colon"}
    BY <1>1, Zenon
  <2> QED
    BY <1>1, <2>1, SizeSame, Zenon DEF DocOK, InsideOf
<1>3. Width[symbol] = 1
  BY <1>1, WordsAssumption, Zenon DEF Marks
<1>4. x.last \notin {"comma", "colon"} /\ y.last \in {"comma", "colon"}
  BY <1>1, Zenon
<1>5. Bound(y) = Size(x) + 1 /\ Bound(x) = Size(x)
  <2>1. TreeOK(x)
    BY DEF DocOK
  <2>2. Size(y) = Size(x)
    BY <1>1, <2>1, SizeSame
  <2> QED
    BY <1>2, <1>4, <2>2, Bounds, Zenon
<1> QED
  BY <1>2, <1>3, <1>5

(* What is common to a key and a value. *)
LEMMA NodeFits ==
  ASSUME NEW x, NEW symbol, NEW y, NEW parent, DocOK(x), Grown(x, y, symbol, parent),
         parent # 0 => HasChild(y, Innermost(x)), x.open # <<>> => parent # 0
  PROVE  /\ TreeOK(y)
         /\ \A k \in 1 .. Len(y.open) : k < Len(y.open) => HasChild(y, y.open[k])
         /\ Size(y) = Size(x) + Width[symbol] + Extra(x, parent)
         /\ y.nodes[Len(y.nodes)].text = symbol
         /\ symbol \notin Containers => y.open = x.open /\ Innermost(y) = Innermost(x)
         /\ symbol \in Containers => /\ Innermost(y) = Len(y.nodes) /\ y.open # <<>>
                                     /\ ~ HasChild(y, Innermost(y))
         /\ \A i \in 1 .. Len(x.nodes) : y.nodes[i] = x.nodes[i]
<1> DEFINE n == Len(x.nodes)
           m == Len(x.open)
           l == Len(y.open)
<1>1. TreeOK(x) /\ (\A k \in 1 .. m : k < m => HasChild(x, x.open[k]))
  BY DEF DocOK
<1>2. TreeOK(y)
  BY <1>1, TreeGrows
<1>3. n \in Nat /\ m \in Nat /\ l \in Nat
  BY <1>1, <1>2, NodesAre
<1>4. /\ Len(y.nodes) = n + 1
      /\ y.nodes[n + 1] = [text |-> symbol, parent |-> parent]
      /\ \A i \in 1 .. n : y.nodes[i] = x.nodes[i]
      /\ \A k \in 1 .. m : y.open[k] = x.open[k]
      /\ symbol \in Containers => l = m + 1 /\ y.open[m + 1] = n + 1
      /\ symbol \notin Containers => y.open = x.open
      /\ \A i : HasChild(y, i) <=> HasChild(x, i) \/ i = parent
  <2>1. TreeOK(x) /\ Grown(x, y, symbol, parent)
    BY <1>1
  <2> QED
    BY <2>1, GrownIs
<1>5. Size(y) = Size(x) + Width[symbol] + Extra(x, parent)
  BY <1>1, SizeGrows
<1>6. y.nodes[Len(y.nodes)].text = symbol
  <2> DEFINE node == [text |-> symbol, parent |-> parent]
  <2>1. node.text = symbol /\ y.nodes[Len(y.nodes)] = node
    BY <1>4
  <2> QED
    BY <2>1, Zenon
<1>7. x.open # <<>> => Innermost(x) = x.open[m]
  BY Zenon DEF Innermost
<1>8. m > 0 => x.open # <<>>
  BY <1>3
<1>9. l = 0 => y.open = <<>>
  <2>1. y.open \in Seq(Nat)
    BY <1>2 DEF TreeOK
  <2> QED
    BY <2>1, EmptySeq
<1>10. y.open # <<>> => Innermost(y) = y.open[l]
  BY Zenon DEF Innermost
<1>11. parent \in 0 .. n
  BY DEF Grown
<1>12. ~ HasChild(x, n + 1)
  <2>1. \A i \in 1 .. n : x.nodes[i].parent < i /\ x.nodes[i].parent \in Nat
    BY <1>1, NodesAre DEF TreeOK, Nodes
  <2>2. DOMAIN x.nodes = 1 .. n
    BY <1>1, NodesAre
  <2> HIDE DEF n
  <2> QED
    BY <1>3, <2>1, <2>2 DEF HasChild
<1> HIDE DEF n, m, l
<1>13. CASE symbol \notin Containers
  <2>1. y.open = x.open /\ Innermost(y) = Innermost(x) /\ l = m
    BY <1>4, <1>13, Zenon DEF Innermost, l, m
  <2>2. \A k \in 1 .. l : k < l => HasChild(y, y.open[k])
    BY <1>1, <1>4, <2>1, Zenon
  <2> QED
    BY <1>2, <1>4, <1>5, <1>6, <1>13, <2>1, <2>2, Zenon DEF l, n
<1>14. CASE symbol \in Containers
  <2>1. l = m + 1 /\ l # 0
    BY <1>3, <1>4, <1>14
  <2>2. y.open # <<>>
    <3>1. Len(<<>>) = 0
      OBVIOUS
    <3> QED
      BY <2>1, <3>1, Zenon DEF l
  <2>3. Innermost(y) = n + 1
    BY <1>4, <1>10, <1>14, <2>1, <2>2, Zenon
  <2>4. ~ HasChild(y, n + 1)
    <3>1. parent # n + 1
      BY <1>3, <1>11
    <3> QED
      BY <1>4, <1>12, <3>1, Zenon
  <2>5. ASSUME NEW k \in 1 .. l, k < l PROVE HasChild(y, y.open[k])
    <3>1. k \in 1 .. m /\ (k < m \/ k = m) /\ m > 0
      BY <1>3, <2>1, <2>5
    <3>2. CASE k < m
      BY <1>1, <1>4, <3>1, <3>2, Zenon
    <3>3. CASE k = m
      <4>1. Innermost(x) = x.open[m] /\ y.open[m] = x.open[m] /\ parent # 0
        BY <1>4, <1>7, <1>8, <3>1, <3>3, Zenon
      <4> QED
        BY <3>3, <4>1, Zenon
    <3> QED
      BY <3>1, <3>2, <3>3
  <2> QED
    BY <1>2, <1>4, <1>5, <1>6, <1>14, <2>2, <2>3, <2>4, <2>5, Zenon DEF l, n
<1> QED
  BY <1>13, <1>14, Zenon

(* So does a key. *)
LEMMA KeyFits ==
  ASSUME NEW x, NEW symbol, NEW y, DocOK(x), AddsKey(x, symbol, y)
  PROVE  DocOK(y) /\ Bound(y) = Bound(x) + Width[symbol]
<1> DEFINE c == Innermost(x)
<1>1. /\ x.open # <<>> /\ (x.last = "comma" \/ (x.last = "value" /\ ~ HasChild(x, c)))
      /\ x.nodes[c].text = "{" /\ symbol \in Strings /\ y.last = "key" /\ Grown(x, y, symbol, c)
  BY Zenon DEF AddsKey, MayFollow, InsideOf
<1>2. TreeOK(x)
  BY DEF DocOK
<1>3. c \in 1 .. Len(x.nodes) /\ x.nodes[c].text \in Containers /\ c # 0
  <2>1. c \in 1 .. Len(x.nodes) /\ x.nodes[c].text \in Containers
    BY <1>1, <1>2, InnermostIs, Zenon
  <2> QED
    BY <2>1
<1>4. symbol \notin Containers
  BY <1>1, NotContainers, Zenon
<1>5. \A i : HasChild(y, i) <=> HasChild(x, i) \/ i = c
  BY <1>1, <1>2, GrownIs, Zenon
<1>6. HasChild(y, c)
  BY <1>5, Zenon
<1>7. /\ TreeOK(y)
      /\ \A k \in 1 .. Len(y.open) : k < Len(y.open) => HasChild(y, y.open[k])
      /\ Size(y) = Size(x) + Width[symbol] + Extra(x, c)
      /\ y.nodes[Len(y.nodes)].text = symbol
      /\ y.open = x.open /\ Innermost(y) = c
      /\ \A i \in 1 .. Len(x.nodes) : y.nodes[i] = x.nodes[i]
  <2>1. Grown(x, y, symbol, c) /\ c # 0
    BY <1>1, <1>3, Zenon
  <2> QED
    BY <1>4, <1>6, <2>1, NodeFits
<1>8. DocOK(y)
  <2>1. y.nodes[Innermost(y)].text = "{"
    BY <1>1, <1>3, <1>7, Zenon
  <2> QED
    BY <1>1, <1>6, <1>7, <2>1, Zenon DEF DocOK, InsideOf
<1>9. Bound(y) = Size(y) /\ Size(x) \in Int
  <2>1. y.last \notin {"comma", "colon"}
    BY <1>1, Zenon
  <2> QED
    BY <1>8, <2>1, Bounds, Zenon
<1>10. Width[symbol] \in Nat
  <2>1. symbol \in Values
    BY <1>1, Zenon DEF Values
  <2> QED
    BY <2>1, WidthIs
<1>11. Bound(x) = Size(x) + Extra(x, c) /\ Extra(x, c) \in Int
  <2>1. CASE x.last = "comma"
    <3>1. HasChild(x, c) /\ x.last \in {"comma", "colon"}
      BY <2>1, Zenon DEF DocOK
    <3>2. Extra(x, c) = 1
      BY <1>3, <3>1, Zenon DEF Extra
    <3> QED
      BY <3>1, <3>2, Bounds
  <2>2. CASE x.last = "value" /\ ~ HasChild(x, c)
    <3>1. x.last \notin {"comma", "colon"}
      BY <2>2, Zenon
    <3>2. Extra(x, c) = 0
      BY <1>3, <2>2, Zenon DEF Extra
    <3>3. Bound(x) = Size(x)
      BY <3>1, Bounds, Zenon
    <3> QED
      BY <1>9, <3>2, <3>3
  <2> QED
    BY <1>1, <2>1, <2>2, Zenon
<1> HIDE DEF c
<1> QED
  BY <1>7, <1>8, <1>9, <1>10, <1>11

(* So does a value, simple or opening. *)
LEMMA ValueFits ==
  ASSUME NEW x, NEW symbol, NEW y, NEW parent, DocOK(x), AddsValue(x, symbol, y, parent)
  PROVE  /\ DocOK(y) /\ Bound(y) = Bound(x) + Width[symbol]
         /\ symbol \notin Containers => y.open # <<>> /\ HasChild(y, Innermost(y))
<1> DEFINE c == Innermost(x)
           n == Len(x.nodes)
<1>1. /\ \/ x.last = "colon" /\ parent = n
         \/ x.nodes = <<>> /\ symbol = "{" /\ parent = 0
         \/ /\ x.open # <<>> /\ (x.last = "comma" \/ (x.last = "value" /\ ~ HasChild(x, c)))
            /\ x.nodes[c].text = "[" /\ parent = c
      /\ symbol \in Values /\ y.last = "value" /\ Grown(x, y, symbol, parent)
  BY Zenon DEF AddsValue, MayFollow, InsideOf
<1>2. TreeOK(x) /\ n \in Nat
  BY NodesAre DEF DocOK
<1>3. x.open # <<>> => c \in 1 .. n /\ x.nodes[c].text \in Containers /\ c # 0
  <2>1. x.open # <<>> => c \in 1 .. n /\ x.nodes[c].text \in Containers
    BY <1>2, InnermostIs, Zenon
  <2> QED
    BY <1>2, <2>1
<1>4. \A i : HasChild(y, i) <=> HasChild(x, i) \/ i = parent
  <2>1. Grown(x, y, symbol, parent)
    BY <1>1, Zenon
  <2> QED
    BY <1>2, <2>1, GrownIs, Zenon
<1>5. x.nodes = <<>> => x.open = <<>>
  <2>1. x.nodes = <<>> => n = 0
    OBVIOUS
  <2> QED
    BY <1>3, <2>1
<1>6. /\ x.open # <<>> => parent # 0
      /\ parent # 0 => HasChild(y, c)
  <2>1. CASE x.last = "colon" /\ parent = n
    <3>1. x.open # <<>> /\ HasChild(x, c)
      BY <2>1, Zenon DEF DocOK
    <3>2. n # 0
      BY <1>2, <1>3, <3>1
    <3> QED
      BY <1>4, <2>1, <3>1, <3>2, Zenon
  <2>2. CASE x.nodes = <<>> /\ symbol = "{" /\ parent = 0
    BY <1>5, <2>2, Zenon
  <2>3. CASE x.open # <<>> /\ parent = c
    BY <1>3, <1>4, <2>3, Zenon
  <2> QED
    BY <1>1, <2>1, <2>2, <2>3, Zenon
<1>7. /\ TreeOK(y)
      /\ \A k \in 1 .. Len(y.open) : k < Len(y.open) => HasChild(y, y.open[k])
      /\ Size(y) = Size(x) + Width[symbol] + Extra(x, parent)
      /\ symbol \notin Containers => y.open = x.open /\ Innermost(y) = c
  <2>1. Grown(x, y, symbol, parent)
    BY <1>1, Zenon
  <2> QED
    BY <1>6, <2>1, NodeFits
<1>8. DocOK(y)
  BY <1>1, <1>7, Zenon DEF DocOK
<1>9. Bound(y) = Size(y) /\ Size(x) \in Int
  <2>1. y.last \notin {"comma", "colon"}
    BY <1>1, Zenon
  <2> QED
    BY <1>8, <2>1, Bounds, Zenon
<1>10. Width[symbol] \in Nat
  BY <1>1, WidthIs
<1>11. Bound(x) = Size(x) + Extra(x, parent) /\ Extra(x, parent) \in Int
  <2>1. CASE x.last = "colon" /\ parent = n
    <3>1. x.open # <<>> /\ x.last \in {"comma", "colon"} /\ x.nodes[n].text \in Strings
      BY <2>1, Zenon DEF DocOK
    <3>2. n # 0
      BY <1>2, <1>3, <3>1
    <3>3. Extra(x, parent) = 1
      BY <2>1, <3>1, <3>2, NotContainers, Zenon DEF Extra
    <3> QED
      BY <3>1, <3>3, Bounds
  <2>2. CASE x.nodes = <<>> /\ symbol = "{" /\ parent = 0
    <3>1. x.open = <<>>
      BY <1>5, <2>2, Zenon
    <3>2. x.last \notin {"comma", "colon"}
      BY <3>1, Zenon DEF DocOK
    <3>3. Bound(x) = Size(x)
      BY <3>2, Bounds, Zenon
    <3>4. Extra(x, parent) = 0
      BY <2>2, Zenon DEF Extra
    <3> QED
      BY <1>9, <3>3, <3>4
  <2>3. CASE x.open # <<>> /\ parent = c /\ x.last = "comma"
    <3>1. HasChild(x, c) /\ x.last \in {"comma", "colon"}
      BY <2>3, Zenon DEF DocOK
    <3>2. Extra(x, parent) = 1
      BY <1>3, <2>3, <3>1, Zenon DEF Extra
    <3> QED
      BY <3>1, <3>2, Bounds
  <2>4. CASE x.open # <<>> /\ parent = c /\ x.last = "value" /\ ~ HasChild(x, c)
    <3>1. x.last \notin {"comma", "colon"}
      BY <2>4, Zenon
    <3>2. Extra(x, parent) = 0
      BY <1>3, <2>4, Zenon DEF Extra
    <3>3. Bound(x) = Size(x)
      BY <3>1, Bounds, Zenon
    <3> QED
      BY <1>9, <3>2, <3>3
  <2> QED
    BY <1>1, <2>1, <2>2, <2>3, <2>4, Zenon
<1>12. Bound(y) = Bound(x) + Width[symbol]
  <2> HIDE DEF c, n
  <2> QED
    BY <1>7, <1>9, <1>10, <1>11
<1>13. ASSUME symbol \notin Containers PROVE y.open # <<>> /\ HasChild(y, Innermost(y))
  <2>1. x.open # <<>> /\ parent # 0
    <3>1. symbol # "{"
      BY <1>13, Zenon DEF Containers
    <3>2. x.open # <<>>
      BY <1>1, <3>1, Zenon DEF DocOK
    <3> QED
      BY <1>6, <3>2, Zenon
  <2> QED
    BY <1>6, <1>7, <1>13, <2>1, Zenon
<1> QED
  BY <1>8, <1>12, <1>13, Zenon

(* So does the mark that closes a container. *)
LEMMA EndFits ==
  ASSUME NEW x, NEW symbol, NEW y, DocOK(x), AddsEnd(x, symbol, y)
  PROVE  /\ DocOK(y) /\ Bound(y) = Bound(x) + Width[symbol]
         /\ y.open # <<>> => HasChild(y, Innermost(y))
<1> DEFINE l == Len(y.open)
<1>1. /\ x.last = "value" /\ Closed(x, y) /\ y.last = "value"
      /\ symbol = (IF InsideOf(x) = "{" THEN "}" ELSE "]")
  BY Zenon DEF AddsEnd
<1>2. TreeOK(x)
  BY DEF DocOK
<1>3. /\ TreeOK(y) /\ l = Len(x.open) - 1 /\ Len(x.open) > 0
      /\ \A k \in 1 .. l : y.open[k] = x.open[k]
      /\ y.nodes = x.nodes
  BY <1>1, <1>2, ClosedIs DEF Closed
<1>4. \A k \in 1 .. Len(x.open) : k < Len(x.open) => HasChild(x, x.open[k])
  BY DEF DocOK
<1>5. \A i : HasChild(y, i) <=> HasChild(x, i)
  BY <1>3, Zenon DEF HasChild
<1>6. \A k \in 1 .. l : HasChild(y, y.open[k])
  <2>1. Len(x.open) \in Nat
    BY <1>2, NodesAre
  <2>2. \A k \in 1 .. l : k \in 1 .. Len(x.open) /\ k < Len(x.open)
    BY <1>3, <2>1
  <2> QED
    BY <1>3, <1>4, <1>5, <2>2, Zenon
<1>7. DocOK(y)
  BY <1>1, <1>3, <1>6, Zenon DEF DocOK
<1>8. y.open # <<>> => HasChild(y, Innermost(y))
  <2>1. y.open # <<>> => Innermost(y) = y.open[l] /\ l \in 1 .. l
    BY <1>3, InnermostIs, Zenon
  <2> QED
    BY <1>6, <2>1, Zenon
<1>9. Width[symbol] = 1
  <2>1. symbol \in {"}", "]"}
    BY <1>1, Zenon
  <2>2. symbol \in Marks
    BY <2>1, Zenon DEF Marks
  <2> QED
    BY <2>2, WordsAssumption, Zenon
<1>10. Size(y) = Size(x) + 1
  BY <1>1, <1>2, SizeCloses
<1>11. Bound(y) = Size(y) /\ Bound(x) = Size(x)
  <2>1. y.last \notin {"comma", "colon"} /\ x.last \notin {"comma", "colon"}
    BY <1>1, Zenon
  <2> QED
    BY <1>7, <2>1, Bounds, Zenon
<1> QED
  BY <1>7, <1>8, <1>9, <1>10, <1>11

(* One symbol more for the reference, case by case. *)
LEMMA ReadsComma ==
  ASSUME NEW d, NEW s, d.want = "comma or close"
  PROVE  Read(d, ",", s) = [d EXCEPT !.want = IF InObject(d) THEN "key" ELSE "value"]
<1>1. ~ MayBeginKey(d) /\ ~ MayBeginValue(d)
  BY Zenon DEF MayBeginKey, MayBeginValue
<1>2. "," \notin {"{", "["} /\ "," \notin {"}", "]"} /\ "," # ":"
  BY Zenon
<1> QED
  BY <1>1, <1>2 DEF Read

LEMMA ReadsColon ==
  ASSUME NEW d, NEW s, d.want = "colon"
  PROVE  Read(d, ":", s) = [d EXCEPT !.want = "value"]
<1>1. ~ MayBeginKey(d) /\ ~ MayBeginValue(d)
  BY Zenon DEF MayBeginKey, MayBeginValue
<1>2. ":" \notin {"{", "["} /\ ":" \notin {"}", "]"} /\ ":" # ","
  BY Zenon
<1> QED
  BY <1>1, <1>2 DEF Read

LEMMA ReadsKey ==
  ASSUME NEW d, NEW s \in Strings, MayBeginKey(d)
  PROVE  Read(d, s, TRUE) = [d EXCEPT !.key = s, !.values = @ + 1, !.want = "colon"]
<1>1. s \notin {"{", "[", "}", "]", ":", ","}
  BY JsmnAssumption, Zenon
<1>2. ~ MayBeginValue(d)
  BY Zenon DEF MayBeginKey, MayBeginValue
<1> QED
  BY <1>1, <1>2 DEF Read

LEMMA ReadsValue ==
  ASSUME NEW d, NEW s \in Strings \cup Primitives, NEW string, MayBeginValue(d)
  PROVE  Read(d, s, string) = [Value(d) EXCEPT !.want = AfterValue(d.stack)]
<1>1. s \notin {"{", "[", "}", "]", ":", ","}
  BY JsmnAssumption, Zenon
<1>2. ~ MayBeginKey(d)
  BY Zenon DEF MayBeginKey, MayBeginValue
<1> QED
  BY <1>1, <1>2 DEF Read

LEMMA ReadsOpening ==
  ASSUME NEW d, NEW s \in Containers, NEW string, MayBeginValue(d)
  PROVE  Read(d, s, string) =
           [Value(d) EXCEPT !.stack = Append(@, [mark |-> s, at |-> d.values + 1]),
                            !.want = IF s = "{" THEN "key or close" ELSE "value or close"]
<1>1. s \in {"{", "["} /\ s \notin {"}", "]", ":", ","} /\ s \in {"{", "}", "[", "]", ":", ","}
  BY Zenon DEF Containers
<1>2. ~ MayBeginKey(d)
  BY Zenon DEF MayBeginKey, MayBeginValue
<1> QED
  BY <1>1, <1>2 DEF Read

LEMMA ReadsClosing ==
  ASSUME NEW d, NEW s \in {"}", "]"}, NEW string, ~ string, MayClose(d, s)
  PROVE  Read(d, s, string) = [d EXCEPT !.stack = SubSeq(d.stack, 1, Len(d.stack) - 1),
                                       !.want = AfterValue(SubSeq(d.stack, 1, Len(d.stack) - 1))]
<1>1. s \notin {"{", "["} /\ s # ":" /\ s # "," /\ s \in {"{", "}", "[", "]", ":", ","}
  BY Zenon
<1> QED
  BY <1>1 DEF Read

(* What the reference expects next, and what it has read, when a text is x. *)
WantIs(x, want) ==
  /\ x.last = "key" => want = "colon"
  /\ x.last = "colon" => want = "value"
  /\ x.last = "comma" => want = (IF InsideOf(x) = "{" THEN "key" ELSE "value")
  /\ x.last = "value" =>
       /\ x.nodes = <<>> => want = "value"
       /\ x.nodes # <<>> /\ x.open = <<>> => want = "end"
       /\ x.open # <<>> /\ HasChild(x, Innermost(x)) => want = "comma or close"
       /\ x.open # <<>> /\ ~ HasChild(x, Innermost(x)) =>
            want = (IF InsideOf(x) = "{" THEN "key or close" ELSE "value or close")

Levels == [mark : Containers, at : Nat]
DocIs(x, d) ==
  /\ d = [want |-> d.want, stack |-> d.stack, key |-> d.key, values |-> d.values,
          members |-> d.members]
  /\ d.values \in Nat /\ d.stack \in Seq(Levels) /\ Len(d.stack) = Len(x.open)
  /\ \A k \in 1 .. Len(x.open) : d.stack[k].mark = x.nodes[x.open[k]].text
  /\ WantIs(x, d.want)

(* The top of its stack is the innermost open container. *)
LEMMA TopIs ==
  ASSUME NEW x, NEW d, DocOK(x), DocIs(x, d)
  PROVE  /\ x.open # <<>> => d.stack # <<>> /\ Top(d).mark = InsideOf(x)
                             /\ InsideOf(x) \in Containers /\ x.nodes # <<>>
         /\ x.open = <<>> => d.stack = <<>>
<1>1. TreeOK(x) /\ d.stack \in Seq(Levels) /\ Len(d.stack) = Len(x.open)
  BY DEF DocOK, DocIs
<1>2. x.open = <<>> => d.stack = <<>>
  <2>1. x.open = <<>> => Len(x.open) = 0
    OBVIOUS
  <2> QED
    BY <1>1, <2>1, EmptySeq
<1>3. ASSUME x.open # <<>>
      PROVE  d.stack # <<>> /\ Top(d).mark = InsideOf(x) /\ InsideOf(x) \in Containers
             /\ x.nodes # <<>>
  <2>1. /\ Innermost(x) = x.open[Len(x.open)] /\ Innermost(x) \in 1 .. Len(x.nodes)
        /\ Len(x.open) \in 1 .. Len(x.open) /\ x.nodes[Innermost(x)].text \in Containers
    BY <1>1, <1>3, InnermostIs, Zenon
  <2>2. d.stack # <<>>
    <3>1. d.stack = <<>> => Len(d.stack) = 0
      OBVIOUS
    <3>2. Len(x.open) # 0
      BY <2>1
    <3> QED
      BY <1>1, <3>1, <3>2, Zenon
  <2>3. x.nodes # <<>>
    <3>1. x.nodes = <<>> => Len(x.nodes) = 0
      OBVIOUS
    <3>2. Len(x.nodes) # 0
      BY <2>1
    <3> QED
      BY <3>1, <3>2, Zenon
  <2>4. d.stack[Len(x.open)].mark = x.nodes[x.open[Len(x.open)]].text
    BY <2>1, Zenon DEF DocIs
  <2> QED
    BY <1>1, <2>1, <2>2, <2>3, <2>4, Zenon DEF Top, InsideOf
<1> QED
  BY <1>2, <1>3, Zenon

(* It stays so with a comma, *)
LEMMA DocComma ==
  ASSUME NEW x, NEW symbol, NEW y, NEW d, DocOK(x), DocIs(x, d), AddsComma(x, symbol, y)
  PROVE  DocIs(y, Read(d, symbol, symbol \in Strings))
<1> DEFINE e == [d EXCEPT !.want = IF InObject(d) THEN "key" ELSE "value"]
<1>1. y.nodes = x.nodes /\ y.open = x.open /\ symbol = "," /\ x.last = "value" /\ y.last = "comma"
      /\ x.open # <<>> /\ HasChild(x, Innermost(x))
  BY Zenon DEF AddsComma
<1>2. d.want = "comma or close"
  BY <1>1, Zenon DEF DocIs, WantIs
<1>3. Read(d, symbol, symbol \in Strings) = e
  BY <1>1, <1>2, ReadsComma
<1>4. InObject(d) <=> InsideOf(x) = "{"
  BY <1>1, TopIs, Zenon DEF InObject
<1>5. /\ e = [want |-> e.want, stack |-> d.stack, key |-> d.key, values |-> d.values,
              members |-> d.members]
      /\ e.want = (IF InObject(d) THEN "key" ELSE "value")
  BY DEF DocIs
<1>6. /\ e = [want |-> e.want, stack |-> e.stack, key |-> e.key, values |-> e.values,
              members |-> e.members]
      /\ e.values = d.values /\ e.stack = d.stack
  BY <1>5
<1> HIDE DEF e
<1>7. WantIs(y, e.want)
  <2>1. InsideOf(y) = InsideOf(x)
    BY <1>1, Zenon DEF InsideOf, Innermost
  <2> QED
    BY <1>1, <1>4, <1>5, <2>1, Zenon DEF WantIs
<1> QED
  BY <1>1, <1>3, <1>6, <1>7, Zenon DEF DocIs

(* with a colon, *)
LEMMA DocColon ==
  ASSUME NEW x, NEW symbol, NEW y, NEW d, DocOK(x), DocIs(x, d), AddsColon(x, symbol, y)
  PROVE  DocIs(y, Read(d, symbol, symbol \in Strings))
<1> DEFINE e == [d EXCEPT !.want = "value"]
<1>1. y.nodes = x.nodes /\ y.open = x.open /\ symbol = ":" /\ x.last = "key" /\ y.last = "colon"
  BY Zenon DEF AddsColon
<1>2. d.want = "colon"
  BY <1>1, Zenon DEF DocIs, WantIs
<1>3. Read(d, symbol, symbol \in Strings) = e
  BY <1>1, <1>2, ReadsColon
<1>4. /\ e = [want |-> e.want, stack |-> e.stack, key |-> e.key, values |-> e.values,
              members |-> e.members]
      /\ e.values = d.values /\ e.stack = d.stack /\ e.want = "value"
  BY DEF DocIs
<1> HIDE DEF e
<1>5. WantIs(y, e.want)
  BY <1>1, <1>4, Zenon DEF WantIs
<1> QED
  BY <1>1, <1>3, <1>4, <1>5, Zenon DEF DocIs

(* with a key, *)
LEMMA DocKey ==
  ASSUME NEW x, NEW symbol, NEW y, NEW d, DocOK(x), DocIs(x, d), AddsKey(x, symbol, y)
  PROVE  DocIs(y, Read(d, symbol, symbol \in Strings))
<1> DEFINE e == [d EXCEPT !.key = symbol, !.values = @ + 1, !.want = "colon"]
<1>1. /\ x.open # <<>> /\ (x.last = "comma" \/ (x.last = "value" /\ ~ HasChild(x, Innermost(x))))
      /\ InsideOf(x) = "{" /\ symbol \in Strings /\ y.last = "key"
      /\ Grown(x, y, symbol, Innermost(x))
  BY Zenon DEF AddsKey, MayFollow
<1>2. MayBeginKey(d)
  BY <1>1, Zenon DEF DocIs, WantIs, MayBeginKey
<1>3. Read(d, symbol, symbol \in Strings) = e
  BY <1>1, <1>2, ReadsKey
<1>4. /\ e = [want |-> e.want, stack |-> e.stack, key |-> e.key, values |-> e.values,
              members |-> e.members]
      /\ e.values = d.values + 1 /\ e.stack = d.stack /\ e.want = "colon"
  <2>1. d = [want |-> d.want, stack |-> d.stack, key |-> d.key, values |-> d.values,
             members |-> d.members]
    BY DEF DocIs
  <2> DEFINE v == d.values + 1
  <2> HIDE DEF v
  <2>2. e = [f \in {"want", "stack", "key", "values", "members"} |-> e[f]]
    BY <2>1
  <2>3. e.values = v /\ e.stack = d.stack /\ e.want = "colon"
    BY <2>1 DEF v
  <2> HIDE DEF e
  <2>4. e = [want |-> e.want, stack |-> e.stack, key |-> e.key, values |-> e.values,
             members |-> e.members]
    BY <2>2
  <2> QED
    BY <2>3, <2>4, Zenon DEF v
<1> HIDE DEF e
<1>5. TreeOK(x) /\ symbol \notin Containers
  BY <1>1, NotContainers, Zenon DEF DocOK
<1>6. y.open = x.open /\ \A i \in 1 .. Len(x.nodes) : y.nodes[i] = x.nodes[i]
  BY <1>1, <1>5, GrownIs
<1>7. \A k \in 1 .. Len(x.open) : x.open[k] \in 1 .. Len(x.nodes)
  BY <1>5, Zenon DEF TreeOK
<1>8. \A k \in 1 .. Len(y.open) : e.stack[k].mark = y.nodes[y.open[k]].text
  BY <1>4, <1>6, <1>7, Zenon DEF DocIs
<1>9. e.values \in Nat
  BY <1>4 DEF DocIs
<1>10. WantIs(y, e.want)
  BY <1>1, <1>4, Zenon DEF WantIs
<1> QED
  BY <1>3, <1>4, <1>6, <1>8, <1>9, <1>10, Zenon DEF DocIs

(* A value begins. *)
LEMMA ValueIs ==
  ASSUME NEW d, d.values \in Nat,
         d = [want |-> d.want, stack |-> d.stack, key |-> d.key, values |-> d.values,
              members |-> d.members]
  PROVE  \E m : Value(d) = [want |-> d.want, stack |-> d.stack, key |-> NoKey,
                            values |-> d.values + 1, members |-> m]
<1> DEFINE v == d.values + 1
           m == IF d.key = NoKey THEN d.members
                ELSE Append(d.members, [object |-> Top(d).at, key |-> d.key, value |-> v])
<1>1. Value(d) = [d EXCEPT !.values = v, !.members = m, !.key = NoKey]
  BY DEF Value
<1> HIDE DEF v, m
<1>2. Value(d) = [want |-> d.want, stack |-> d.stack, key |-> NoKey, values |-> v, members |-> m]
  BY <1>1
<1> QED
  BY <1>2 DEF v

(* with a value, simple or opening, *)
LEMMA DocValue ==
  ASSUME NEW x, NEW symbol, NEW y, NEW parent, NEW d, DocOK(x), DocIs(x, d),
         AddsValue(x, symbol, y, parent)
  PROVE  DocIs(y, Read(d, symbol, symbol \in Strings))
<1> DEFINE n == Len(x.nodes)
           k == Len(x.open)
           v == d.values + 1
           string == symbol \in Strings
           level == [mark |-> symbol, at |-> v]
           want == IF symbol = "{" THEN "key or close" ELSE "value or close"
<1>1. /\ \/ x.last = "colon" /\ parent = n
         \/ x.nodes = <<>> /\ symbol = "{" /\ parent = 0
         \/ /\ x.open # <<>> /\ (x.last = "comma" \/ (x.last = "value" /\ ~ HasChild(x, Innermost(x))))
            /\ InsideOf(x) = "[" /\ parent = Innermost(x)
      /\ symbol \in Values /\ y.last = "value"
  BY Zenon DEF AddsValue, MayFollow
<1>2. TreeOK(x) /\ Grown(x, y, symbol, parent) /\ DocOK(y)
  BY ValueFits DEF AddsValue, DocOK
<1>3. MayBeginValue(d)
  <2>1. x.nodes = <<>> => x.last = "value"
    <3>1. x.nodes = <<>> => x.open = <<>>
      BY TopIs, Zenon
    <3> QED
      BY <3>1, Zenon DEF DocOK
  <2>2. "[" # "{"
    BY Zenon
  <2> QED
    BY <1>1, <2>1, <2>2, Zenon DEF DocIs, WantIs, MayBeginValue
<1>4. d.values \in Nat /\ v \in Nat /\ d.stack \in Seq(Levels) /\ Len(d.stack) = k
  BY DEF DocIs
<1>5. PICK m : Value(d) = [want |-> d.want, stack |-> d.stack, key |-> NoKey, values |-> v, members |-> m]
  BY ValueIs DEF DocIs
<1>6. /\ \A i \in 1 .. n : y.nodes[i] = x.nodes[i]
      /\ \A i \in 1 .. k : y.open[i] = x.open[i]
      /\ y.nodes[n + 1] = [text |-> symbol, parent |-> parent]
      /\ Len(y.nodes) = n + 1
      /\ symbol \in Containers => Len(y.open) = k + 1 /\ y.open[k + 1] = n + 1
      /\ symbol \notin Containers => y.open = x.open
  BY <1>2, GrownIs, SMTT(30)
<1>7. /\ symbol \notin Containers => y.open # <<>> /\ HasChild(y, Innermost(y))
      /\ symbol \in Containers => /\ Innermost(y) = Len(y.nodes) /\ y.open # <<>>
                                  /\ ~ HasChild(y, Innermost(y))
  <2>1. symbol \notin Containers => y.open # <<>> /\ HasChild(y, Innermost(y))
    BY ValueFits
  <2>2. /\ parent # 0 => HasChild(y, Innermost(x))
        /\ x.open # <<>> => parent # 0
    <3>1. \A i : HasChild(y, i) <=> HasChild(x, i) \/ i = parent
      BY <1>2, GrownIs, Zenon
    <3>2. x.open # <<>> => Innermost(x) \in 1 .. n /\ Innermost(x) # 0 /\ n # 0
      <4>1. x.open # <<>> => Innermost(x) \in 1 .. n
        BY <1>2, InnermostIs, Zenon
      <4>2. n \in Nat
        BY <1>2, NodesAre
      <4> QED
        BY <4>1, <4>2
    <3>3. x.nodes = <<>> => x.open = <<>>
      BY TopIs, Zenon
    <3>4. x.last = "colon" => x.open # <<>> /\ HasChild(x, Innermost(x))
      BY Zenon DEF DocOK
    <3> QED
      BY <1>1, <3>1, <3>2, <3>3, <3>4, Zenon
  <2> QED
    BY <1>2, <2>1, <2>2, NodeFits
<1>8. \A i \in 1 .. k : /\ x.open[i] \in 1 .. n
                       /\ y.nodes[y.open[i]].text = x.nodes[x.open[i]].text
                       /\ d.stack[i].mark = x.nodes[x.open[i]].text
  BY <1>2, <1>6, Zenon DEF TreeOK, DocIs
<1>9. k \in Nat /\ n \in Nat
  BY <1>2, NodesAre
<1>10. CASE symbol \notin Containers
  <2> DEFINE e == [want |-> AfterValue(d.stack), stack |-> d.stack, key |-> NoKey, values |-> v,
                   members |-> m]
             q == Value(d)
  <2> HIDE DEF v
  <2>1. Read(d, symbol, string) = [q EXCEPT !.want = AfterValue(d.stack)]
    <3>1. symbol \in Strings \cup Primitives
      BY <1>1, <1>10, Zenon DEF Values
    <3> HIDE DEF string
    <3> QED
      BY <1>3, <3>1, ReadsValue
  <2> HIDE DEF q
  <2>2. q = [want |-> d.want, stack |-> d.stack, key |-> NoKey, values |-> v, members |-> m]
    BY <1>5, Zenon DEF q
  <2>3. Read(d, symbol, string) = e
    BY <2>1, <2>2
  <2>4. /\ e = [want |-> e.want, stack |-> e.stack, key |-> e.key, values |-> e.values,
                members |-> e.members]
        /\ e.values = v /\ e.stack = d.stack /\ e.want = AfterValue(d.stack)
    OBVIOUS
  <2> HIDE DEF e
  <2>5. x.open # <<>> /\ d.stack # <<>>
    BY <1>6, <1>7, <1>10, TopIs, Zenon
  <2>6. e.want = "comma or close"
    BY <2>4, <2>5, Zenon DEF AfterValue
  <2>7. y.nodes # <<>>
    <3>1. y.nodes = <<>> => Len(y.nodes) = 0
      OBVIOUS
    <3> QED
      BY <1>6, <1>9, <3>1
  <2>8. WantIs(y, e.want)
    BY <1>1, <1>7, <1>10, <2>6, <2>7, Zenon DEF WantIs
  <2>9. y.open = x.open
    BY <1>6, <1>10, Zenon
  <2> QED
    BY <1>4, <1>8, <2>3, <2>4, <2>8, <2>9, Zenon DEF DocIs
<1>11. CASE symbol \in Containers
  <2> DEFINE stack == Append(d.stack, level)
             e == [want |-> want, stack |-> stack, key |-> NoKey, values |-> v, members |-> m]
             q == Value(d)
  <2>1. Read(d, symbol, string) = [q EXCEPT !.stack = Append(@, level), !.want = want]
    BY <1>3, <1>11, ReadsOpening
  <2>2. level \in Levels /\ level.mark = symbol
    BY <1>4, <1>11 DEF Levels
  <2> HIDE DEF q, v, want, level
  <2>3. q = [want |-> d.want, stack |-> d.stack, key |-> NoKey, values |-> v, members |-> m]
    BY <1>5, Zenon DEF q
  <2>4. Read(d, symbol, string) = e
    BY <2>1, <2>3
  <2>5. /\ stack \in Seq(Levels) /\ Len(stack) = k + 1 /\ stack[k + 1] = level
        /\ \A i \in 1 .. k : stack[i] = d.stack[i]
    <3> HIDE DEF k
    <3> QED
      BY <1>4, <1>9, <2>2
  <2> HIDE DEF stack
  <2>6. /\ e = [want |-> e.want, stack |-> e.stack, key |-> e.key, values |-> e.values,
                members |-> e.members]
        /\ e.values = v /\ e.stack = stack /\ e.want = want
    OBVIOUS
  <2> HIDE DEF e, k, n, string
  <2>7. InsideOf(y) = symbol
    <3> DEFINE node == [text |-> symbol, parent |-> parent]
    <3>1. node.text = symbol /\ y.nodes[n + 1] = node
      BY <1>6
    <3>2. Innermost(y) = n + 1
      BY <1>6, <1>7, <1>11, Zenon
    <3> QED
      BY <3>1, <3>2, Zenon DEF InsideOf
  <2>8. y.nodes # <<>>
    <3>1. y.nodes = <<>> => Len(y.nodes) = 0
      OBVIOUS
    <3> QED
      BY <1>6, <1>9, <3>1
  <2>9. WantIs(y, e.want)
    BY <1>1, <1>7, <1>11, <2>6, <2>7, <2>8, Zenon DEF WantIs, want
  <2>10. y.nodes[n + 1].text = symbol
    <3> DEFINE node == [text |-> symbol, parent |-> parent]
    <3>1. node.text = symbol /\ y.nodes[n + 1] = node
      BY <1>6
    <3> QED
      BY <3>1, Zenon
  <2>11. \A i \in 1 .. k + 1 : stack[i].mark = y.nodes[y.open[i]].text
    <3> SUFFICES ASSUME NEW i \in 1 .. k + 1 PROVE stack[i].mark = y.nodes[y.open[i]].text
      OBVIOUS
    <3>1. i \in 1 .. k \/ i = k + 1
      BY <1>9
    <3> QED
      BY <1>6, <1>8, <1>11, <2>2, <2>5, <2>10, <3>1, Zenon
  <2>12. Len(y.open) = k + 1
    BY <1>6, <1>11, Zenon
  <2> QED
    BY <1>4, <2>4, <2>5, <2>6, <2>9, <2>11, <2>12, Zenon DEF DocIs, string
<1> QED
  BY <1>10, <1>11, Zenon

(* and with the mark that closes a container. *)
LEMMA DocEnd ==
  ASSUME NEW x, NEW symbol, NEW y, NEW d, DocOK(x), DocIs(x, d), AddsEnd(x, symbol, y)
  PROVE  DocIs(y, Read(d, symbol, symbol \in Strings))
<1> DEFINE k == Len(x.open)
           rest == SubSeq(d.stack, 1, Len(d.stack) - 1)
           e == [d EXCEPT !.stack = rest, !.want = AfterValue(rest)]
<1>1. /\ x.last = "value" /\ Closed(x, y) /\ y.last = "value"
      /\ symbol = (IF InsideOf(x) = "{" THEN "}" ELSE "]") /\ x.open # <<>> /\ y.nodes = x.nodes
  BY Zenon DEF AddsEnd, Closed
<1>2. TreeOK(x) /\ DocOK(y) /\ (y.open # <<>> => HasChild(y, Innermost(y)))
  BY EndFits DEF DocOK
<1>3. /\ d.stack # <<>> /\ Top(d).mark = InsideOf(x) /\ InsideOf(x) \in Containers /\ x.nodes # <<>>
  BY <1>1, TopIs, Zenon
<1>4. symbol \in {"}", "]"} /\ MayClose(d, symbol)
  <2>1. d.want \in {"value or close", "key or close", "comma or close"}
    BY <1>1, <1>3, Zenon DEF DocIs, WantIs
  <2>2. CASE InsideOf(x) = "{"
    BY <1>1, <1>3, <2>1, <2>2, Zenon DEF MayClose
  <2>3. CASE InsideOf(x) # "{"
    <3>1. InsideOf(x) = "[" /\ symbol = "]"
      BY <1>1, <1>3, <2>3, Zenon DEF Containers
    <3>2. "]" # "}"
      BY Zenon
    <3> QED
      BY <1>3, <2>1, <3>1, <3>2, Zenon DEF MayClose
  <2> QED
    BY <2>2, <2>3, Zenon
<1>5. ~ (symbol \in Strings)
  <2>1. symbol \in Marks
    BY <1>4, Zenon DEF Marks
  <2> QED
    BY <2>1, NotContainers, Zenon
<1>6. Read(d, symbol, symbol \in Strings) = e
  <2> DEFINE string == symbol \in Strings
  <2>1. ~ string
    BY <1>5
  <2> HIDE DEF string
  <2>2. Read(d, symbol, string) = e
    BY <1>4, <2>1, ReadsClosing
  <2> QED
    BY <2>2 DEF string
<1>7. /\ Len(y.open) = k - 1 /\ k > 0 /\ k \in Nat /\ \A i \in 1 .. Len(y.open) : y.open[i] = x.open[i]
  BY <1>1, <1>2, ClosedIs, NodesAre
<1>8. /\ d.stack \in Seq(Levels) /\ Len(d.stack) = k /\ d.values \in Nat
      /\ \A i \in 1 .. k : d.stack[i].mark = x.nodes[x.open[i]].text
  BY DEF DocIs
<1>9. /\ rest \in Seq(Levels) /\ Len(rest) = k - 1 /\ \A i \in 1 .. k - 1 : rest[i] = d.stack[i]
  <2> HIDE DEF k
  <2> QED
    BY <1>7, <1>8
<1> HIDE DEF rest, k
<1>10. /\ e = [want |-> e.want, stack |-> e.stack, key |-> e.key, values |-> e.values,
              members |-> e.members]
      /\ e.values = d.values /\ e.stack = rest /\ e.want = AfterValue(rest)
  <2>1. d = [want |-> d.want, stack |-> d.stack, key |-> d.key, values |-> d.values,
             members |-> d.members]
    BY DEF DocIs
  <2>2. e = [f \in {"want", "stack", "key", "values", "members"} |-> e[f]]
    BY <2>1
  <2>3. e.values = d.values /\ e.stack = rest /\ e.want = AfterValue(rest)
    BY <2>1
  <2> HIDE DEF e
  <2>4. e = [want |-> e.want, stack |-> e.stack, key |-> e.key, values |-> e.values,
             members |-> e.members]
    BY <2>2
  <2> QED
    BY <2>3, <2>4, Zenon
<1> HIDE DEF e
<1>11. \A i \in 1 .. Len(y.open) : e.stack[i].mark = y.nodes[y.open[i]].text
  <2>1. \A i \in 1 .. k - 1 : i \in 1 .. k
    BY <1>7
  <2> QED
    BY <1>1, <1>7, <1>8, <1>9, <1>10, <2>1, Zenon
<1>12. rest = <<>> <=> y.open = <<>>
  <2>1. y.open \in Seq(Nat)
    BY <1>2 DEF DocOK, TreeOK
  <2>2. Len(rest) = Len(y.open)
    BY <1>7, <1>9
  <2> QED
    BY <1>9, <2>1, <2>2, EmptySeq
<1>13. WantIs(y, e.want)
  BY <1>1, <1>2, <1>3, <1>10, <1>12, Zenon DEF WantIs, AfterValue
<1>14. Len(e.stack) = Len(y.open)
  BY <1>7, <1>9, <1>10
<1> QED
  BY <1>6, <1>8, <1>9, <1>10, <1>11, <1>13, <1>14, Zenon DEF DocIs

(* What jsmn has made of a text that is x. *)
Types == Containers \cup {"string", "primitive"}
TypeOf(text) ==
  IF text \in Containers THEN text ELSE IF text \in Strings THEN "string" ELSE "primitive"
TokenSet == [type : Types, text : Values, size : Nat, open : BOOLEAN, parent : Nat]

TokenIs(x, i, token) ==
  /\ token.text = x.nodes[i].text /\ token.parent = x.nodes[i].parent
  /\ token.type = TypeOf(x.nodes[i].text) /\ (token.open <=> IsOpen(x, i))

SuperIs(x, super) ==
  /\ x.last = "colon" => super = Len(x.nodes)
  /\ x.last \in {"comma", "key"} => super = Innermost(x)
  /\ x.last = "value" =>
       \/ super = Innermost(x)
       \/ /\ x.open # <<>> /\ HasChild(x, Innermost(x))
          /\ super \in 1 .. Len(x.nodes) /\ x.nodes[super].text \in Strings

ParserIs(x, room, p) ==
  /\ p = [tokens |-> p.tokens, super |-> p.super, status |-> "ok", max |-> room]
  /\ p.tokens \in Seq(TokenSet) /\ Len(p.tokens) = Len(x.nodes)
  /\ \A i \in 1 .. Len(x.nodes) : TokenIs(x, i, p.tokens[i])
  /\ x.last \in {"key", "colon"} => p.tokens[Len(x.nodes)].size = 0
  /\ SuperIs(x, p.super)

(* A member no other exceeds is the largest. *)
LEMMA MaxMember ==
  ASSUME NEW S, NEW m \in S, S \subseteq Nat, \A i \in S : i <= m
  PROVE  Max(S) = m
<1>1. \E j \in S : \A y \in S : j >= y
  BY DEF Max
<1>2. Max(S) \in S /\ \A y \in S : Max(S) >= y
  BY <1>1, Zenon DEF Max
<1> DEFINE n == Max(S)
<1>3. n \in S /\ n >= m
  BY <1>2
<1> HIDE DEF n
<1>4. n = m
  BY <1>3
<1> QED
  BY <1>4 DEF n

(* The last open token is the innermost open container. *)
LEMMA InnermostOpenIs ==
  ASSUME NEW x, NEW tokens \in Seq(TokenSet), TreeOK(x), Len(tokens) = Len(x.nodes),
         \A i \in 1 .. Len(x.nodes) : tokens[i].open <=> IsOpen(x, i)
  PROVE  InnermostOpen(tokens) = Innermost(x)
<1> DEFINE open == {i \in DOMAIN tokens : tokens[i].open}
<1>1. InnermostOpen(tokens) = (IF open = {} THEN 0 ELSE Max(open))
  BY DEF InnermostOpen
<1>2. DOMAIN tokens = 1 .. Len(x.nodes) /\ Len(x.nodes) \in Nat
  <2>1. DOMAIN tokens = 1 .. Len(tokens) /\ Len(tokens) \in Nat
    OBVIOUS
  <2> QED
    BY <2>1
<1>3. CASE x.open = <<>>
  <2>1. Innermost(x) = 0 /\ \A i : ~ IsOpen(x, i)
    BY <1>3, InnermostIs, Zenon
  <2>2. open = {}
    BY <1>2, <2>1
  <2> QED
    BY <1>1, <2>1, <2>2
<1>4. CASE x.open # <<>>
  <2>1. /\ Innermost(x) \in 1 .. Len(x.nodes) /\ IsOpen(x, Innermost(x))
        /\ \A i : IsOpen(x, i) => i <= Innermost(x)
    BY <1>4, InnermostIs, Zenon
  <2>2. Innermost(x) \in open /\ open \subseteq 1 .. Len(x.nodes) /\ \A i \in open : i <= Innermost(x)
    BY <1>2, <2>1
  <2>3. open \subseteq Nat
    BY <1>2, <2>2
  <2> HIDE DEF open
  <2>4. Max(open) = Innermost(x)
    BY <2>2, <2>3, MaxMember
  <2> QED
    BY <1>1, <2>2, <2>4
<1> QED
  BY <1>3, <1>4

(* One token more. *)
Running(p, room) == p = [tokens |-> p.tokens, super |-> p.super, status |-> "ok", max |-> room]

Allocated(p, room, type, text, open, t) ==
  /\ Alloc(p, type, text, open) = [tokens |-> t, super |-> p.super, status |-> "ok", max |-> room]
  /\ Len(t) = Len(p.tokens) + 1
  /\ t[Len(p.tokens) + 1] = [type |-> type, text |-> text, size |-> 0, open |-> open,
                             parent |-> p.super]
  /\ \A i \in 1 .. Len(p.tokens) :
       /\ t[i].type = p.tokens[i].type /\ t[i].text = p.tokens[i].text
       /\ t[i].open = p.tokens[i].open /\ t[i].parent = p.tokens[i].parent

(* Alloc() with a token left adds one, and leaves what the others are. *)
LEMMA AllocIs ==
  ASSUME NEW p, NEW room \in Nat, NEW type \in Types, NEW text \in Values, NEW open \in BOOLEAN,
         Running(p, room), p.tokens \in Seq(TokenSet), p.super \in 0 .. Len(p.tokens),
         Len(p.tokens) < room
  PROVE  \E t \in Seq(TokenSet) : Allocated(p, room, type, text, open, t)
<1> DEFINE n == Len(p.tokens)
           s == p.super
           counted == IF s = 0 THEN p.tokens ELSE [p.tokens EXCEPT ![s].size = @ + 1]
           token == [type |-> type, text |-> text, size |-> 0, open |-> open, parent |-> s]
           t == Append(counted, token)
<1>1. n \in Nat /\ DOMAIN p.tokens = 1 .. n /\ s \in Nat
      /\ \A i \in 1 .. n : p.tokens[i] \in TokenSet
  OBVIOUS
<1>2. token \in TokenSet
  BY <1>1 DEF TokenSet
<1>3. p.status = "ok" /\ p.max = room
  <2>1. p = [tokens |-> p.tokens, super |-> p.super, status |-> "ok", max |-> room]
    BY DEF Running
  <2> QED
    BY <2>1
<1>4. Alloc(p, type, text, open) = [p EXCEPT !.tokens = t]
  <2>1. ~ (n >= p.max)
    BY <1>1, <1>3
  <2> QED
    BY <2>1, Zenon DEF Alloc
<1>5. /\ counted \in Seq(TokenSet) /\ Len(counted) = n
      /\ \A i \in 1 .. n :
           /\ counted[i].type = p.tokens[i].type /\ counted[i].text = p.tokens[i].text
           /\ counted[i].open = p.tokens[i].open /\ counted[i].parent = p.tokens[i].parent
  <2>1. CASE s = 0
    BY <1>1, <2>1
  <2>2. CASE s # 0
    <3>1. s \in 1 .. n
      BY <1>1, <2>2
    <3> DEFINE old == p.tokens[s]
               grown == [old EXCEPT !.size = @ + 1]
    <3>2. grown \in TokenSet /\ grown.type = old.type /\ grown.text = old.text
          /\ grown.open = old.open /\ grown.parent = old.parent
      <4>1. old \in TokenSet
        BY <1>1, <3>1
      <4> HIDE DEF old
      <4>2. /\ old.size \in Nat /\ old.type \in Types /\ old.text \in Values
            /\ old.open \in BOOLEAN /\ old.parent \in Nat
            /\ old = [f \in {"type", "text", "size", "open", "parent"} |-> old[f]]
        BY <4>1 DEF TokenSet
      <4>3. grown = [f \in {"type", "text", "size", "open", "parent"} |-> grown[f]]
        BY <4>2
      <4>4. /\ grown.size = old.size + 1 /\ grown.type = old.type /\ grown.text = old.text
            /\ grown.open = old.open /\ grown.parent = old.parent
        BY <4>2
      <4> HIDE DEF grown
      <4>5. grown = [type |-> grown.type, text |-> grown.text, size |-> grown.size,
                     open |-> grown.open, parent |-> grown.parent]
        BY <4>3
      <4>6. grown.size \in Nat
        BY <4>2, <4>4
      <4>7. grown \in TokenSet
        BY <4>2, <4>4, <4>5, <4>6 DEF TokenSet
      <4> QED
        BY <4>4, <4>7
    <3>3. counted = [p.tokens EXCEPT ![s] = grown]
      BY <2>2
    <3> HIDE DEF grown, counted
    <3>4. /\ counted \in Seq(TokenSet) /\ Len(counted) = n /\ counted[s] = grown
          /\ \A i \in 1 .. n : i # s => counted[i] = p.tokens[i]
      BY <3>1, <3>2, <3>3
    <3> HIDE DEF n
    <3> QED
      BY <3>1, <3>2, <3>4, Zenon
  <2> QED
    BY <2>1, <2>2
<1> HIDE DEF counted, token
<1>6. /\ t \in Seq(TokenSet) /\ Len(t) = n + 1 /\ t[n + 1] = token
      /\ \A i \in 1 .. n : t[i] = counted[i]
  BY <1>1, <1>2, <1>5
<1> HIDE DEF t
<1>7. Alloc(p, type, text, open) = [tokens |-> t, super |-> s, status |-> "ok", max |-> room]
  <2> DEFINE q == [p EXCEPT !.tokens = t]
  <2>1. q = [f \in {"tokens", "super", "status", "max"} |-> q[f]]
    BY DEF Running
  <2>2. q.tokens = t /\ q.super = s /\ q.status = "ok" /\ q.max = room
    BY <1>3 DEF Running
  <2> HIDE DEF q
  <2>3. q = [tokens |-> t, super |-> s, status |-> "ok", max |-> room]
    BY <2>1, <2>2
  <2> QED
    BY <1>4, <2>3 DEF q
<1>8. \A i \in 1 .. n : /\ t[i].type = p.tokens[i].type /\ t[i].text = p.tokens[i].text
                       /\ t[i].open = p.tokens[i].open /\ t[i].parent = p.tokens[i].parent
  BY <1>5, <1>6
<1> HIDE DEF n, s
<1> QED
  BY <1>6, <1>7, <1>8, Zenon DEF n, s, token, Allocated

(* One symbol more for jsmn, case by case. *)
LEMMA Feeds ==
  ASSUME NEW p, p.status = "ok", NEW s
  PROVE  /\ s = "," => Feed(p, s) = Comma(p)
         /\ s = ":" => Feed(p, s) = Colon(p)
         /\ s \in {"}", "]"} => Feed(p, s) = CloseContainer(p, s)
         /\ s \in Containers => Feed(p, s) = OpenContainer(p, s)
         /\ s \in Strings => Feed(p, s) = ReadString(p, s)
         /\ s \in Primitives => Feed(p, s) = ReadPrimitive(p, s)
<1>1. ASSUME s = "," PROVE Feed(p, s) = Comma(p)
  <2>1. s \notin {"{", "["} /\ s \notin {"}", "]"} /\ s # ":" /\ s \in Marks
    BY <1>1, Zenon DEF Marks
  <2>2. s \notin Strings /\ s \notin Primitives
    BY <2>1, NotContainers, Zenon
  <2> QED
    BY <1>1, <2>1, <2>2 DEF Feed
<1>2. ASSUME s = ":" PROVE Feed(p, s) = Colon(p)
  <2>1. s \notin {"{", "["} /\ s \notin {"}", "]"} /\ s # "," /\ s \in Marks
    BY <1>2, Zenon DEF Marks
  <2>2. s \notin Strings /\ s \notin Primitives
    BY <2>1, NotContainers, Zenon
  <2> QED
    BY <1>2, <2>1, <2>2 DEF Feed
<1>3. ASSUME s \in {"}", "]"} PROVE Feed(p, s) = CloseContainer(p, s)
  <2>1. s \notin {"{", "["} /\ s # "," /\ s # ":" /\ s \in Marks
    BY <1>3, Zenon DEF Marks
  <2>2. s \notin Strings /\ s \notin Primitives
    BY <2>1, NotContainers, Zenon
  <2> QED
    BY <1>3, <2>1, <2>2 DEF Feed
<1>4. ASSUME s \in Containers PROVE Feed(p, s) = OpenContainer(p, s)
  <2>1. s \in {"{", "["} /\ s \notin {"}", "]"} /\ s # "," /\ s # ":" /\ s \in Marks
    BY <1>4, Zenon DEF Marks, Containers
  <2>2. s \notin Strings /\ s \notin Primitives
    BY <2>1, NotContainers, Zenon
  <2> QED
    BY <2>1, <2>2 DEF Feed
<1>5. ASSUME s \in Strings PROVE Feed(p, s) = ReadString(p, s)
  <2>1. s \notin Primitives /\ s \notin Marks
    BY <1>5, NotContainers, Zenon
  <2>2. s \notin {"{", "["} /\ s \notin {"}", "]"} /\ s # "," /\ s # ":"
    BY <2>1, Zenon DEF Marks
  <2> QED
    BY <1>5, <2>1, <2>2 DEF Feed
<1>6. ASSUME s \in Primitives PROVE Feed(p, s) = ReadPrimitive(p, s)
  <2>1. s \notin Strings /\ s \notin Marks
    BY <1>6, NotContainers, Zenon
  <2>2. s \notin {"{", "["} /\ s \notin {"}", "]"} /\ s # "," /\ s # ":"
    BY <2>1, Zenon DEF Marks
  <2> QED
    BY <1>6, <2>1, <2>2 DEF Feed
<1> QED
  BY <1>1, <1>2, <1>3, <1>4, <1>5, <1>6

(* Its super token, and the containers that are open. *)
LEMMA SuperToken ==
  ASSUME NEW x, NEW room, NEW p, DocOK(x), ParserIs(x, room, p)
  PROVE  /\ p.status = "ok" /\ p.max = room /\ p.super \in 0 .. Len(p.tokens)
         /\ Len(p.tokens) \in Nat /\ DOMAIN p.tokens = 1 .. Len(p.tokens)
         /\ \A i \in 1 .. Len(p.tokens) : p.tokens[i] \in TokenSet
         /\ InnermostOpen(p.tokens) = Innermost(x)
         /\ p.super # 0 => TypeOfSuper(p) = TypeOf(x.nodes[p.super].text)
         /\ p.super = 0 => TypeOfSuper(p) = "none"
         /\ x.open # <<>> => /\ Innermost(x) \in 1 .. Len(x.nodes) /\ Innermost(x) # 0
                             /\ InsideOf(x) \in Containers
         /\ x.nodes = <<>> => x.open = <<>>
<1>1. /\ p.status = "ok" /\ p.max = room
  <2>1. p = [tokens |-> p.tokens, super |-> p.super, status |-> "ok", max |-> room]
    BY DEF ParserIs
  <2> QED
    BY <2>1
<1>2. /\ p.tokens \in Seq(TokenSet) /\ Len(p.tokens) = Len(x.nodes) /\ SuperIs(x, p.super)
      /\ \A i \in 1 .. Len(x.nodes) : TokenIs(x, i, p.tokens[i])
      /\ TreeOK(x)
  BY Zenon DEF ParserIs, DocOK
<1>3. /\ Len(p.tokens) \in Nat /\ DOMAIN p.tokens = 1 .. Len(p.tokens)
      /\ \A i \in 1 .. Len(p.tokens) : p.tokens[i] \in TokenSet
  BY <1>2
<1>4. InnermostOpen(p.tokens) = Innermost(x)
  BY <1>2, InnermostOpenIs, Zenon DEF TokenIs
<1>5. x.open # <<>> => /\ Innermost(x) \in 1 .. Len(x.nodes) /\ InsideOf(x) \in Containers
  BY <1>2, InnermostIs, Zenon DEF InsideOf
<1>6. x.open # <<>> => Innermost(x) # 0
  BY <1>2, <1>3, <1>5
<1>7. x.open = <<>> => Innermost(x) = 0
  BY Zenon DEF Innermost
<1>8. x.nodes = <<>> => x.open = <<>>
  <2>1. x.nodes = <<>> => Len(x.nodes) = 0
    OBVIOUS
  <2> QED
    BY <1>5, <2>1
<1>9. p.super \in 0 .. Len(p.tokens)
  <2>1. p.super = Len(x.nodes) \/ p.super = Innermost(x) \/ p.super \in 1 .. Len(x.nodes)
    BY <1>2, Zenon DEF SuperIs, DocOK
  <2> QED
    BY <1>2, <1>3, <1>5, <1>7, <2>1
<1>10. p.super # 0 => TypeOfSuper(p) = TypeOf(x.nodes[p.super].text)
  <2>1. p.super # 0 => p.super \in 1 .. Len(x.nodes)
    BY <1>2, <1>3, <1>9
  <2> QED
    BY <1>2, <2>1, Zenon DEF TypeOfSuper, TokenIs
<1>11. p.super = 0 => TypeOfSuper(p) = "none"
  BY Zenon DEF TypeOfSuper
<1> QED
  BY <1>1, <1>3, <1>4, <1>5, <1>6, <1>8, <1>9, <1>10, <1>11, Zenon

(* The types of tokens tell containers, strings and primitives apart. *)
LEMMA TypesAre ==
  /\ \A s \in Containers : TypeOf(s) = s /\ TypeOf(s) \in {"{", "["} /\ TypeOf(s) # "string"
  /\ \A s \in Strings : TypeOf(s) = "string"
  /\ \A s \in Primitives : TypeOf(s) = "primitive"
  /\ "string" \notin {"{", "["} /\ "none" # "{" /\ "none" # "string"
<1>1. \A s \in Containers : TypeOf(s) = s /\ TypeOf(s) \in {"{", "["} /\ TypeOf(s) # "string"
  BY Zenon DEF TypeOf, Containers
<1>2. \A s \in Strings : TypeOf(s) = "string"
  BY NotContainers, Zenon DEF TypeOf
<1>3. \A s \in Primitives : TypeOf(s) = "primitive"
  BY NotContainers, Zenon DEF TypeOf
<1>4. "string" \notin {"{", "["} /\ "none" # "{" /\ "none" # "string"
  BY Zenon
<1> QED
  BY <1>1, <1>2, <1>3, <1>4, Zenon

(* A token is right as long as its node and its being open stay. *)
LEMMA TokensStay ==
  ASSUME NEW x, NEW y, NEW i, NEW token, y.nodes = x.nodes, y.open = x.open
  PROVE  TokenIs(y, i, token) <=> TokenIs(x, i, token)
<1>1. IsOpen(y, i) <=> IsOpen(x, i)
  BY Zenon DEF IsOpen
<1> QED
  BY <1>1, Zenon DEF TokenIs

(* jsmn stays right with a colon, *)
LEMMA ParserColon ==
  ASSUME NEW x, NEW symbol, NEW y, NEW room, NEW p, DocOK(x), ParserIs(x, room, p),
         AddsColon(x, symbol, y)
  PROVE  ParserIs(y, room, Feed(p, symbol))
<1> DEFINE e == [p EXCEPT !.super = Len(p.tokens)]
<1>1. y.nodes = x.nodes /\ y.open = x.open /\ symbol = ":" /\ x.last = "key" /\ y.last = "colon"
  BY Zenon DEF AddsColon
<1>2. p.status = "ok"
  BY SuperToken, Zenon
<1>3. Feed(p, symbol) = e
  BY <1>1, <1>2, Feeds DEF Colon
<1>4. /\ p = [tokens |-> p.tokens, super |-> p.super, status |-> "ok", max |-> room]
      /\ Len(p.tokens) = Len(x.nodes)
  BY DEF ParserIs
<1>5. /\ e = [tokens |-> e.tokens, super |-> e.super, status |-> "ok", max |-> room]
      /\ e.tokens = p.tokens /\ e.super = Len(x.nodes)
  BY <1>4
<1> HIDE DEF e
<1>6. SuperIs(y, e.super)
  <2>1. y.last \notin {"comma", "key"} /\ y.last # "value"
    BY <1>1, Zenon
  <2> QED
    BY <1>1, <1>5, <2>1, Zenon DEF SuperIs
<1>7. p.tokens[Len(x.nodes)].size = 0
  BY <1>1, Zenon DEF ParserIs
<1>8. \A i \in 1 .. Len(y.nodes) : TokenIs(y, i, e.tokens[i])
  BY <1>1, <1>5, TokensStay, Zenon DEF ParserIs
<1> QED
  BY <1>1, <1>3, <1>5, <1>6, <1>7, <1>8, Zenon DEF ParserIs

(* with a comma, *)
LEMMA ParserComma ==
  ASSUME NEW x, NEW symbol, NEW y, NEW room, NEW p, DocOK(x), ParserIs(x, room, p),
         AddsComma(x, symbol, y)
  PROVE  ParserIs(y, room, Feed(p, symbol))
<1> DEFINE e == Comma(p)
           q == [p EXCEPT !.super = InnermostOpen(p.tokens)]
           c == Innermost(x)
<1>1. y.nodes = x.nodes /\ y.open = x.open /\ symbol = "," /\ x.last = "value" /\ y.last = "comma"
      /\ x.open # <<>>
  BY Zenon DEF AddsComma
<1>2. /\ p.status = "ok" /\ InnermostOpen(p.tokens) = c /\ c # 0
      /\ p.super \in 0 .. Len(p.tokens) /\ Len(p.tokens) \in Nat
      /\ p.super # 0 => TypeOfSuper(p) = TypeOf(x.nodes[p.super].text)
      /\ x.nodes[c].text \in Containers
  <2>1. x.open # <<>>
    BY <1>1, Zenon
  <2> QED
    BY <2>1, SuperToken DEF InsideOf
<1>3. Feed(p, symbol) = e
  BY <1>1, <1>2, Feeds
<1>4. p = [tokens |-> p.tokens, super |-> p.super, status |-> "ok", max |-> room]
  BY DEF ParserIs
<1>5. /\ q = [tokens |-> q.tokens, super |-> q.super, status |-> "ok", max |-> room]
      /\ q.tokens = p.tokens /\ q.super = c
  BY <1>2, <1>4
<1> HIDE DEF q
<1>6. /\ e = [tokens |-> e.tokens, super |-> e.super, status |-> "ok", max |-> room]
      /\ e.tokens = p.tokens /\ e.super = c
  <2>1. CASE p.super = c
    <3>1. TypeOfSuper(p) \in {"{", "["}
      BY <1>2, <2>1, TypesAre, Zenon
    <3>2. e = p
      BY <3>1, Zenon DEF Comma
    <3> QED
      BY <1>4, <2>1, <3>2, Zenon
  <2>2. CASE p.super # c
    <3>1. p.super \in 1 .. Len(x.nodes) /\ x.nodes[p.super].text \in Strings
      BY <1>1, <2>2, Zenon DEF ParserIs, SuperIs
    <3>2. p.super # 0
      BY <3>1
    <3>3. TypeOfSuper(p) \notin {"{", "["}
      BY <1>2, <3>1, <3>2, TypesAre, Zenon
    <3>4. e = q
      BY <1>2, <3>2, <3>3, Zenon DEF Comma, q
    <3> QED
      BY <1>5, <3>4, Zenon
  <2> QED
    BY <2>1, <2>2
<1> HIDE DEF e
<1>7. Innermost(y) = c
  BY <1>1, Zenon DEF Innermost
<1>8. SuperIs(y, e.super)
  <2>1. y.last # "colon" /\ y.last # "value"
    BY <1>1, Zenon
  <2> QED
    BY <1>6, <1>7, <2>1, Zenon DEF SuperIs
<1>9. \A i \in 1 .. Len(y.nodes) : TokenIs(y, i, e.tokens[i])
  BY <1>1, <1>6, TokensStay, Zenon DEF ParserIs
<1>10. y.last \notin {"key", "colon"}
  BY <1>1, Zenon
<1> QED
  BY <1>1, <1>3, <1>6, <1>8, <1>9, <1>10, Zenon DEF ParserIs

(* A token for the node that is added. *)
HasToken(x, y, p, room, q, t) ==
  /\ q = [tokens |-> t, super |-> p.super, status |-> "ok", max |-> room]
  /\ Len(t) = Len(y.nodes) /\ Len(y.nodes) = Len(x.nodes) + 1 /\ t[Len(t)].size = 0
  /\ \A i \in 1 .. Len(y.nodes) : TokenIs(y, i, t[i])

(* The token of a new node, open or not. *)
LEMMA TokenGrows ==
  ASSUME NEW x, NEW symbol, NEW y, NEW room \in Nat, NEW p, NEW type, NEW open \in BOOLEAN,
         DocOK(x), ParserIs(x, room, p), Grown(x, y, symbol, p.super), Len(x.nodes) < room,
         type = TypeOf(symbol), open <=> symbol \in Containers
  PROVE  \E t \in Seq(TokenSet) : HasToken(x, y, p, room, Alloc(p, type, symbol, open), t)
<1> DEFINE n == Len(x.nodes)
           parent == p.super
<1>1. /\ p = [tokens |-> p.tokens, super |-> p.super, status |-> "ok", max |-> room]
      /\ p.tokens \in Seq(TokenSet) /\ Len(p.tokens) = n
      /\ \A i \in 1 .. n : TokenIs(x, i, p.tokens[i])
  BY DEF ParserIs
<1>2. p.super \in 0 .. Len(p.tokens) /\ n \in Nat
  <2>1. p.super \in 0 .. Len(p.tokens)
    BY SuperToken, Zenon
  <2>2. n \in Nat
    BY NodesAre DEF DocOK
  <2> QED
    BY <2>1, <2>2
<1>3. symbol \in Values
  BY DEF Grown
<1>4. type \in Types
  BY <1>3, TypesAre, Zenon DEF Types, Values
<1>5. open \in BOOLEAN
  OBVIOUS
<1>6. PICK t \in Seq(TokenSet) : Allocated(p, room, type, symbol, open, t)
  <2>1. Len(p.tokens) < room /\ Running(p, room) /\ p.tokens \in Seq(TokenSet)
    BY <1>1 DEF Running
  <2>2. p.super \in 0 .. Len(p.tokens)
    BY <1>2
  <2> QED
    BY <1>3, <1>4, <2>1, <2>2, AllocIs, Zenon
<1>7. /\ Len(y.nodes) = n + 1 /\ y.nodes[n + 1] = [text |-> symbol, parent |-> parent]
      /\ \A i \in 1 .. n : y.nodes[i] = x.nodes[i]
      /\ \A i : IsOpen(y, i) <=> IsOpen(x, i) \/ (symbol \in Containers /\ i = n + 1)
  <2>1. TreeOK(x)
    BY DEF DocOK
  <2> QED
    BY <2>1, GrownIs
<1>8. ~ IsOpen(x, n + 1)
  <2>1. TreeOK(x)
    BY DEF DocOK
  <2>2. IsOpen(x, n + 1) => n + 1 \in 1 .. n
    BY <2>1, InnermostIs, Zenon
  <2> QED
    BY <1>2, <2>2
<1> DEFINE new == t[n + 1]
           node == [text |-> symbol, parent |-> parent]
<1>9. /\ new.type = type /\ new.text = symbol /\ new.size = 0 /\ new.parent = parent
      /\ new.open = open
  <2> DEFINE rec == [type |-> type, text |-> symbol, size |-> 0, open |-> open, parent |-> p.super]
  <2>1. rec.type = type /\ rec.text = symbol /\ rec.size = 0 /\ rec.parent = p.super /\ rec.open = open
    OBVIOUS
  <2>2. new = rec
    BY <1>1, <1>6 DEF Allocated
  <2> HIDE DEF rec, new
  <2> QED
    BY <2>1, <2>2, Zenon
<1>10. node.text = symbol /\ node.parent = parent
  OBVIOUS
<1> HIDE DEF node, new
<1>11. TokenIs(y, n + 1, new)
  <2>1. new.open <=> IsOpen(y, n + 1)
    BY <1>7, <1>8, <1>9, Zenon
  <2>2. y.nodes[n + 1] = node
    BY <1>7 DEF node
  <2> QED
    BY <1>9, <1>10, <2>1, <2>2, Zenon DEF TokenIs
<1>12. \A i \in 1 .. n : TokenIs(y, i, t[i])
  <2> SUFFICES ASSUME NEW i \in 1 .. n PROVE TokenIs(y, i, t[i])
    OBVIOUS
  <2>1. i # n + 1
    BY <1>2
  <2>2. IsOpen(y, i) <=> IsOpen(x, i)
    <3>1. IsOpen(y, i) <=> IsOpen(x, i) \/ (symbol \in Containers /\ i = n + 1)
      BY <1>7
    <3> QED
      BY <2>1, <3>1, Zenon
  <2>3. i \in 1 .. Len(p.tokens)
    BY <1>1
  <2> HIDE DEF n
  <2>4. /\ t[i].type = p.tokens[i].type /\ t[i].text = p.tokens[i].text
        /\ t[i].open = p.tokens[i].open /\ t[i].parent = p.tokens[i].parent
    BY <1>6, <2>3, Zenon DEF Allocated
  <2>5. TokenIs(x, i, p.tokens[i]) /\ y.nodes[i] = x.nodes[i]
    BY <1>1, <1>7, Zenon
  <2> QED
    BY <2>2, <2>4, <2>5, Zenon DEF TokenIs
<1>13. \A i \in 1 .. n + 1 : TokenIs(y, i, t[i])
  <2>1. \A i \in 1 .. n + 1 : i \in 1 .. n \/ i = n + 1
    BY <1>2
  <2> QED
    BY <1>11, <1>12, <2>1, Zenon DEF new
<1> HIDE DEF n
<1>14. Len(t) = n + 1
  BY <1>1, <1>6 DEF Allocated
<1> QED
  BY <1>6, <1>7, <1>9, <1>13, <1>14, Zenon DEF new, n, Allocated, HasToken

(* With a key, *)
LEMMA ParserKey ==
  ASSUME NEW x, NEW symbol, NEW y, NEW room \in Nat, NEW p, DocOK(x), ParserIs(x, room, p),
         AddsKey(x, symbol, y), Len(x.nodes) < room
  PROVE  ParserIs(y, room, Feed(p, symbol))
<1> DEFINE c == Innermost(x)
<1>1. /\ x.open # <<>> /\ (x.last = "comma" \/ (x.last = "value" /\ ~ HasChild(x, c)))
      /\ symbol \in Strings /\ y.last = "key" /\ Grown(x, y, symbol, c)
  BY Zenon DEF AddsKey, MayFollow
<1>2. p.super = c
  <2>1. SuperIs(x, p.super)
    BY DEF ParserIs
  <2> QED
    BY <1>1, <2>1, Zenon DEF SuperIs
<1>3. symbol \notin Containers /\ p.status = "ok" /\ TypeOf(symbol) = "string"
  <2>1. p.status = "ok"
    BY SuperToken, Zenon
  <2> QED
    BY <1>1, <2>1, NotContainers, TypesAre, Zenon
<1>4. Feed(p, symbol) = Alloc(p, "string", symbol, FALSE)
  BY <1>1, <1>3, Feeds DEF ReadString
<1>5. PICK t \in Seq(TokenSet) : HasToken(x, y, p, room, Alloc(p, "string", symbol, FALSE), t)
  <2>1. Grown(x, y, symbol, p.super)
    BY <1>1, <1>2, Zenon
  <2>2. TypeOf(symbol) = "string" /\ (FALSE <=> symbol \in Containers) /\ FALSE \in BOOLEAN
    BY <1>3, Zenon
  <2> HIDE DEF c
  <2> QED
    BY <2>1, <2>2, TokenGrows, Zenon
<1> DEFINE e == [tokens |-> t, super |-> p.super, status |-> "ok", max |-> room]
<1>6. /\ e = [tokens |-> e.tokens, super |-> e.super, status |-> "ok", max |-> room]
      /\ e.tokens = t /\ e.super = p.super
  OBVIOUS
<1>7. Feed(p, symbol) = e
  BY <1>4, <1>5 DEF HasToken
<1> HIDE DEF e
<1>8. Innermost(y) = c
  <2>1. TreeOK(x)
    BY DEF DocOK
  <2>2. y.open = x.open
    BY <1>1, <1>3, <2>1, GrownIs
  <2> QED
    BY <2>2, Zenon DEF Innermost
<1>9. SuperIs(y, e.super)
  <2>1. y.last # "colon" /\ y.last # "value"
    BY <1>1, Zenon
  <2> QED
    BY <1>2, <1>6, <1>8, <2>1, Zenon DEF SuperIs
<1> QED
  <2>1. /\ Len(t) = Len(y.nodes) /\ t[Len(t)].size = 0
        /\ \A i \in 1 .. Len(y.nodes) : TokenIs(y, i, t[i])
    BY <1>5 DEF HasToken
  <2> QED
    BY <1>6, <1>7, <1>9, <2>1, Zenon DEF ParserIs

(* The type of the super token is that of its node. *)
LEMMA SuperType ==
  ASSUME NEW x, NEW room, NEW p, DocOK(x), ParserIs(x, room, p), p.super # 0
  PROVE  TypeOfSuper(p) = TypeOf(x.nodes[p.super].text)
<1>1. /\ Len(p.tokens) = Len(x.nodes) /\ \A i \in 1 .. Len(x.nodes) : TokenIs(x, i, p.tokens[i])
  BY Zenon DEF ParserIs
<1>2. p.super \in 0 .. Len(p.tokens) /\ Len(p.tokens) \in Nat
  BY SuperToken, Zenon
<1>3. p.super \in 1 .. Len(x.nodes)
  BY <1>1, <1>2
<1> QED
  BY <1>1, <1>3, Zenon DEF TypeOfSuper, TokenIs

(* When a value comes, the super token is its parent, and may have it. *)
LEMMA SuperIsParent ==
  ASSUME NEW x, NEW symbol, NEW y, NEW room, NEW p, NEW parent, DocOK(x), ParserIs(x, room, p),
         AddsValue(x, symbol, y, parent)
  PROVE  /\ p.super = parent /\ TypeOfSuper(p) # "{"
         /\ ~ (TypeOfSuper(p) = "string" /\ p.tokens[p.super].size # 0)
         /\ \/ parent \in 1 .. Len(x.nodes) /\ x.nodes[parent].text \in Strings
            \/ parent = Innermost(x) /\ x.open # <<>>
            \/ symbol \in Containers
<1>1. /\ SuperIs(x, p.super) /\ Len(p.tokens) = Len(x.nodes)
      /\ x.last \in {"key", "colon"} => p.tokens[Len(x.nodes)].size = 0
  BY Zenon DEF ParserIs
<1>2. /\ p.super \in 0 .. Len(p.tokens) /\ Len(p.tokens) \in Nat
      /\ p.super # 0 => TypeOfSuper(p) = TypeOf(x.nodes[p.super].text)
      /\ p.super = 0 => TypeOfSuper(p) = "none"
  <2>1. p.super \in 0 .. Len(p.tokens) /\ Len(p.tokens) \in Nat
    BY SuperToken, Zenon
  <2>2. p.super # 0 => TypeOfSuper(p) = TypeOf(x.nodes[p.super].text)
    BY SuperType, Zenon
  <2>3. p.super = 0 => TypeOfSuper(p) = "none"
    BY Zenon DEF TypeOfSuper
  <2> QED
    BY <2>1, <2>2, <2>3, Zenon
<1>7. x.open # <<>> => Innermost(x) # 0 /\ InsideOf(x) \in Containers
  BY SuperToken, Zenon
<1>3. CASE x.last = "colon" /\ parent = Len(x.nodes)
  <2>1. p.super = Len(x.nodes) /\ p.tokens[Len(x.nodes)].size = 0
    BY <1>1, <1>3, Zenon DEF SuperIs
  <2>2. x.nodes[Len(x.nodes)].text \in Strings /\ x.open # <<>>
    BY <1>3, Zenon DEF DocOK
  <2>3. Len(x.nodes) # 0 /\ Len(x.nodes) \in 1 .. Len(x.nodes)
    <3>1. TreeOK(x) /\ Len(x.nodes) \in Nat
      BY <1>1, <1>2 DEF DocOK
    <3>2. Innermost(x) \in 1 .. Len(x.nodes)
      BY <2>2, <3>1, InnermostIs, Zenon
    <3> QED
      BY <3>1, <3>2
  <2>4. TypeOfSuper(p) = "string" /\ "string" # "{"
    BY <1>2, <2>1, <2>2, <2>3, TypesAre, Zenon
  <2> QED
    BY <1>3, <2>1, <2>2, <2>3, <2>4, Zenon
<1>4. CASE x.nodes = <<>> /\ symbol = "{" /\ parent = 0
  <2>1. Len(x.nodes) = 0
    <3>1. x.nodes = <<>>
      BY <1>4
    <3> QED
      BY <3>1
  <2>2. p.super = 0
    BY <1>1, <1>2, <2>1
  <2>3. TypeOfSuper(p) = "none" /\ symbol \in Containers
    BY <1>2, <1>4, <2>2, Zenon DEF Containers
  <2>4. "none" # "{" /\ "none" # "string"
    BY Zenon
  <2> QED
    BY <1>4, <2>2, <2>3, <2>4, Zenon
<1>5. CASE MayFollow(x) /\ InsideOf(x) = "[" /\ parent = Innermost(x)
  <2>1. x.open # <<>> /\ p.super = Innermost(x)
    BY <1>1, <1>5, Zenon DEF MayFollow, SuperIs
  <2>2. TypeOfSuper(p) = "["
    <3>1. x.nodes[p.super].text = "[" /\ p.super # 0 /\ "[" \in Containers
      BY <1>7, <1>5, <2>1, Zenon DEF InsideOf, Containers
    <3> QED
      BY <1>2, <3>1, TypesAre, Zenon
  <2>3. "[" # "{" /\ "[" # "string"
    BY Zenon
  <2> QED
    BY <1>5, <2>1, <2>2, <2>3, Zenon
<1>6. \/ x.last = "colon" /\ parent = Len(x.nodes)
      \/ x.nodes = <<>> /\ symbol = "{" /\ parent = 0
      \/ MayFollow(x) /\ InsideOf(x) = "[" /\ parent = Innermost(x)
  BY Zenon DEF AddsValue
<1> QED
  BY <1>3, <1>4, <1>5, <1>6, Zenon

(* with a simple value, *)
LEMMA ParserLeaf ==
  ASSUME NEW x, NEW symbol, NEW y, NEW room \in Nat, NEW p, NEW parent, DocOK(x),
         ParserIs(x, room, p), AddsValue(x, symbol, y, parent), Len(x.nodes) < room,
         symbol \notin Containers
  PROVE  ParserIs(y, room, Feed(p, symbol))
<1> DEFINE type == TypeOf(symbol)
<1>1. /\ p.super = parent /\ TypeOfSuper(p) # "{"
      /\ ~ (TypeOfSuper(p) = "string" /\ p.tokens[p.super].size # 0)
      /\ \/ parent \in 1 .. Len(x.nodes) /\ x.nodes[parent].text \in Strings
         \/ parent = Innermost(x) /\ x.open # <<>>
  BY SuperIsParent, Zenon
<1>2. symbol \in Strings \cup Primitives /\ Grown(x, y, symbol, p.super) /\ y.last = "value"
  BY <1>1, Zenon DEF AddsValue, Values
<1>3. p.status = "ok"
  BY SuperToken, Zenon
<1>4. Feed(p, symbol) = Alloc(p, type, symbol, FALSE)
  <2>1. CASE symbol \in Strings
    <3>1. type = "string"
      BY <2>1, TypesAre, Zenon
    <3>2. Feed(p, symbol) = ReadString(p, symbol)
      BY <1>3, <2>1, Feeds, Zenon
    <3> QED
      BY <3>1, <3>2, Zenon DEF ReadString
  <2>2. CASE symbol \in Primitives
    <3>1. type = "primitive"
      BY <2>2, TypesAre, Zenon
    <3>2. Feed(p, symbol) = ReadPrimitive(p, symbol)
      BY <1>3, <2>2, Feeds, Zenon
    <3> QED
      BY <1>1, <3>1, <3>2, Zenon DEF ReadPrimitive
  <2> QED
    BY <1>2, <2>1, <2>2, Zenon
<1>5. PICK t \in Seq(TokenSet) : HasToken(x, y, p, room, Alloc(p, type, symbol, FALSE), t)
  <2>1. (FALSE <=> symbol \in Containers) /\ FALSE \in BOOLEAN
    BY Zenon
  <2> QED
    BY <1>2, <2>1, TokenGrows, Zenon
<1> HIDE DEF type
<1> DEFINE e == [tokens |-> t, super |-> p.super, status |-> "ok", max |-> room]
<1>6. /\ e = [tokens |-> e.tokens, super |-> e.super, status |-> "ok", max |-> room]
      /\ e.tokens = t /\ e.super = p.super
  OBVIOUS
<1>7. Feed(p, symbol) = e
  BY <1>4, <1>5 DEF HasToken
<1> HIDE DEF e
<1>8. SuperIs(y, e.super)
  <2>1. TreeOK(x)
    BY DEF DocOK
  <2>2. /\ y.open = x.open /\ Len(y.nodes) = Len(x.nodes) + 1
        /\ \A i \in 1 .. Len(x.nodes) : y.nodes[i] = x.nodes[i]
    BY <1>2, <2>1, GrownIs
  <2>3. y.open # <<>> /\ HasChild(y, Innermost(y))
    BY ValueFits
  <2>4. Innermost(y) = Innermost(x)
    BY <2>2, Zenon DEF Innermost
  <2>5. \A i \in 1 .. Len(x.nodes) : i \in 1 .. Len(y.nodes)
    <3>1. Len(x.nodes) \in Nat
      BY <2>1, NodesAre
    <3> QED
      BY <2>2, <3>1
  <2>6. \/ e.super = Innermost(y)
        \/ e.super \in 1 .. Len(y.nodes) /\ y.nodes[e.super].text \in Strings
    BY <1>1, <1>6, <2>2, <2>4, <2>5, Zenon
  <2>7. y.last # "colon" /\ y.last \notin {"comma", "key"}
    BY <1>2, Zenon
  <2> QED
    BY <2>3, <2>6, <2>7, Zenon DEF SuperIs
<1>9. y.last \notin {"key", "colon"}
  BY <1>2, Zenon
<1>10. Len(t) = Len(y.nodes) /\ \A i \in 1 .. Len(y.nodes) : TokenIs(y, i, t[i])
  BY <1>5 DEF HasToken
<1> QED
  BY <1>6, <1>7, <1>8, <1>9, <1>10, Zenon DEF ParserIs

(* with a container that opens, *)
LEMMA ParserContainer ==
  ASSUME NEW x, NEW symbol, NEW y, NEW room \in Nat, NEW p, NEW parent, DocOK(x),
         ParserIs(x, room, p), AddsValue(x, symbol, y, parent), Len(x.nodes) < room,
         symbol \in Containers
  PROVE  ParserIs(y, room, Feed(p, symbol))
<1> DEFINE q == Alloc(p, symbol, symbol, TRUE)
           e == [q EXCEPT !.super = Len(q.tokens)]
<1>1. /\ p.super = parent /\ TypeOfSuper(p) # "{"
  BY SuperIsParent, Zenon
<1>2. Grown(x, y, symbol, p.super) /\ y.last = "value"
  BY <1>1, Zenon DEF AddsValue
<1>3. PICK t \in Seq(TokenSet) : HasToken(x, y, p, room, q, t)
  <2>1. symbol = TypeOf(symbol) /\ (TRUE <=> symbol \in Containers) /\ TRUE \in BOOLEAN
    BY TypesAre, Zenon
  <2> QED
    BY <1>2, <2>1, TokenGrows, Zenon
<1>4. q = [tokens |-> t, super |-> p.super, status |-> "ok", max |-> room]
  BY <1>3 DEF HasToken
<1> HIDE DEF q
<1>5. /\ e = [tokens |-> e.tokens, super |-> e.super, status |-> "ok", max |-> room]
      /\ e.tokens = t /\ e.super = Len(t) /\ q.status = "ok"
  BY <1>4
<1> HIDE DEF e
<1>6. Feed(p, symbol) = e
  <2>1. p.status = "ok"
    BY SuperToken, Zenon
  <2>2. Feed(p, symbol) = OpenContainer(p, symbol)
    BY <2>1, Feeds, Zenon
  <2> QED
    BY <1>1, <1>5, <2>2, Zenon DEF OpenContainer, q, e
<1>7. Innermost(y) = Len(y.nodes)
  <2>1. TreeOK(x) /\ TreeOK(y)
    BY <1>2, TreeGrows DEF DocOK
  <2>2. /\ y.open[Len(x.open) + 1] = Len(x.nodes) + 1 /\ Len(y.nodes) = Len(x.nodes) + 1
        /\ Len(y.open) = Len(x.open) + 1
    BY <1>2, <2>1, GrownIs
  <2>3. y.open # <<>>
    BY <2>1, <2>2, NodesAre
  <2> QED
    BY <2>1, <2>2, <2>3, InnermostIs
<1>8. Len(t) = Len(y.nodes) /\ \A i \in 1 .. Len(y.nodes) : TokenIs(y, i, t[i])
  BY <1>3 DEF HasToken
<1>9. SuperIs(y, e.super)
  <2>1. y.last # "colon" /\ y.last \notin {"comma", "key"}
    BY <1>2, Zenon
  <2> QED
    BY <1>5, <1>7, <1>8, <2>1, Zenon DEF SuperIs
<1>10. y.last \notin {"key", "colon"}
  BY <1>2, Zenon
<1> QED
  BY <1>5, <1>6, <1>8, <1>9, <1>10, Zenon DEF ParserIs

(* and with the mark that closes one. *)
LEMMA ParserEnd ==
  ASSUME NEW x, NEW symbol, NEW y, NEW room, NEW p, DocOK(x), ParserIs(x, room, p),
         AddsEnd(x, symbol, y)
  PROVE  ParserIs(y, room, Feed(p, symbol))
<1> DEFINE c == Innermost(x)
           n == Len(x.nodes)
           old == p.tokens[c]
           new == [old EXCEPT !.open = FALSE]
           closed == [p.tokens EXCEPT ![c] = new]
           super == InnermostOpen(closed)
           e == [p EXCEPT !.tokens = closed, !.super = super]
<1>1. /\ Closed(x, y) /\ y.last = "value" /\ y.nodes = x.nodes /\ x.open # <<>>
      /\ symbol = (IF InsideOf(x) = "{" THEN "}" ELSE "]")
  BY Zenon DEF AddsEnd, Closed
<1>2. TreeOK(x) /\ TreeOK(y) /\ DocOK(y)
  BY EndFits DEF DocOK
<1>3. /\ p.status = "ok" /\ c \in 1 .. n /\ c # 0 /\ InnermostOpen(p.tokens) = c
      /\ x.nodes[c].text \in Containers
  BY <1>1, SuperToken, ZenonT(40) DEF InsideOf
<1>4. /\ p.tokens \in Seq(TokenSet) /\ Len(p.tokens) = n /\ n \in Nat
      /\ \A i \in 1 .. n : TokenIs(x, i, p.tokens[i])
      /\ p = [tokens |-> p.tokens, super |-> p.super, status |-> "ok", max |-> room]
  BY <1>2, NodesAre DEF ParserIs
<1>5. old \in TokenSet /\ TokenIs(x, c, old)
  BY <1>3, <1>4
<1>6. old.type = x.nodes[c].text
  BY <1>3, <1>5, TypesAre, Zenon DEF TokenIs
<1>7. Feed(p, symbol) = e
  <2>1. symbol \in {"}", "]"} /\ old.type = (IF symbol = "}" THEN "{" ELSE "[")
    <3>1. CASE InsideOf(x) = "{"
      <4>1. symbol = "}"
        BY <1>1, <3>1, Zenon
      <4> QED
        BY <1>6, <3>1, <4>1, Zenon DEF InsideOf
    <3>2. CASE InsideOf(x) # "{"
      <4>1. symbol = "]" /\ "]" # "}" /\ InsideOf(x) = "["
        BY <1>1, <1>3, <3>2, Zenon DEF InsideOf, Containers
      <4> QED
        BY <1>6, <4>1, Zenon DEF InsideOf
    <3> QED
      BY <3>1, <3>2
  <2>2. Feed(p, symbol) = CloseContainer(p, symbol)
    BY <1>3, <2>1, Feeds, Zenon
  <2>3. ~ (c = 0 \/ p.tokens[c].type # (IF symbol = "}" THEN "{" ELSE "["))
    BY <1>3, <2>1, Zenon
  <2> HIDE DEF c
  <2>4. CloseContainer(p, symbol) =
          [p EXCEPT !.tokens = [p.tokens EXCEPT ![c].open = FALSE],
                    !.super = InnermostOpen([p.tokens EXCEPT ![c].open = FALSE])]
    BY <1>3, <2>3, Zenon DEF CloseContainer
  <2> QED
    BY <2>2, <2>4
<1>8. /\ new.open = FALSE /\ new.type = old.type /\ new.text = old.text /\ new.parent = old.parent
      /\ new.size = old.size /\ new \in TokenSet
  <2> HIDE DEF old
  <2>1. /\ old.size \in Nat /\ old.type \in Types /\ old.text \in Values
        /\ old.open \in BOOLEAN /\ old.parent \in Nat
        /\ old = [f \in {"type", "text", "size", "open", "parent"} |-> old[f]]
    BY <1>5 DEF TokenSet
  <2>2. new = [f \in {"type", "text", "size", "open", "parent"} |-> new[f]]
    BY <2>1
  <2>3. /\ new.size = old.size /\ new.type = old.type /\ new.text = old.text
        /\ new.open = FALSE /\ new.parent = old.parent
    BY <2>1
  <2> HIDE DEF new
  <2>4. new = [type |-> new.type, text |-> new.text, size |-> new.size,
               open |-> new.open, parent |-> new.parent]
    BY <2>2
  <2>5. new \in TokenSet
    BY <2>1, <2>3, <2>4 DEF TokenSet
  <2> QED
    BY <2>3, <2>5
<1> HIDE DEF new, old
<1>9. /\ closed \in Seq(TokenSet) /\ Len(closed) = n /\ closed[c] = new
      /\ \A i \in 1 .. n : i # c => closed[i] = p.tokens[i]
  <2> HIDE DEF c, n
  <2> QED
    BY <1>3, <1>4, <1>8
<1> HIDE DEF closed
<1> HIDE DEF super
<1>10. /\ e = [tokens |-> e.tokens, super |-> e.super, status |-> "ok", max |-> room]
       /\ e.tokens = closed /\ e.super = super
  <2>1. p = [tokens |-> p.tokens, super |-> p.super, status |-> "ok", max |-> room]
    BY <1>4
  <2>2. p.status = "ok" /\ p.max = room
    BY <2>1
  <2>3. e = [f \in {"tokens", "super", "status", "max"} |-> e[f]]
    BY <2>1
  <2>4. e.tokens = closed /\ e.super = super /\ e.status = "ok" /\ e.max = room
    BY <2>1, <2>2
  <2> HIDE DEF e
  <2> QED
    BY <2>3, <2>4
<1> HIDE DEF e
<1>11. \A i : IsOpen(y, i) <=> IsOpen(x, i) /\ i # c
  BY <1>1, <1>2, ClosedIs, Zenon
<1>12. \A i \in 1 .. n : TokenIs(y, i, closed[i])
  <2> SUFFICES ASSUME NEW i \in 1 .. n PROVE TokenIs(y, i, closed[i])
    OBVIOUS
  <2>1. CASE i = c
    <3>1. ~ IsOpen(y, i)
      BY <1>11, <2>1, Zenon
    <3> QED
      BY <1>1, <1>5, <1>8, <1>9, <2>1, <3>1, Zenon DEF TokenIs
  <2>2. CASE i # c
    <3>1. IsOpen(y, i) <=> IsOpen(x, i)
      BY <1>11, <2>2, Zenon
    <3>2. closed[i] = p.tokens[i] /\ TokenIs(x, i, p.tokens[i])
      BY <1>4, <1>9, <2>2, Zenon
    <3> QED
      BY <1>1, <3>1, <3>2, Zenon DEF TokenIs
  <2> QED
    BY <2>1, <2>2
<1>13. InnermostOpen(closed) = Innermost(y)
  <2>1. \A i \in 1 .. Len(y.nodes) : closed[i].open <=> IsOpen(y, i)
    BY <1>1, <1>12, Zenon DEF TokenIs
  <2>2. Len(closed) = Len(y.nodes)
    BY <1>1, <1>9, Zenon
  <2> QED
    BY <1>2, <1>9, <2>1, <2>2, InnermostOpenIs, Zenon
<1>14. SuperIs(y, e.super)
  <2>1. y.last # "colon" /\ y.last \notin {"comma", "key"}
    BY <1>1, Zenon
  <2> QED
    BY <1>10, <1>13, <2>1, Zenon DEF SuperIs, super
<1>15. y.last \notin {"key", "colon"}
  BY <1>1, Zenon
<1>16. Len(closed) = Len(y.nodes) /\ \A i \in 1 .. Len(y.nodes) : TokenIs(y, i, closed[i])
  BY <1>1, <1>9, <1>12, Zenon
<1> QED
  BY <1>7, <1>9, <1>10, <1>14, <1>15, <1>16, Zenon DEF ParserIs

(***************************************************************************)
(* One symbol more, of any kind, for the text, its tokens and its tree.    *)
(***************************************************************************)
Symbols == Marks \cup Values

Extends(x, symbol, y) ==
  \/ AddsComma(x, symbol, y)
  \/ AddsKey(x, symbol, y)
  \/ AddsColon(x, symbol, y)
  \/ \E parent : AddsValue(x, symbol, y, parent)
  \/ AddsEnd(x, symbol, y)

(* Any of them keeps the text one, and counts its bytes. *)
LEMMA ExtendsFits ==
  ASSUME NEW x, NEW symbol, NEW y, DocOK(x), Extends(x, symbol, y)
  PROVE  /\ DocOK(y) /\ Bound(y) = Bound(x) + Width[symbol] /\ symbol \in Symbols
         /\ Len(x.nodes) \in Nat /\ Len(y.nodes) \in {Len(x.nodes), Len(x.nodes) + 1}
<1>1. Len(x.nodes) \in Nat /\ TreeOK(x)
  BY NodesAre DEF DocOK
<1>2. CASE AddsComma(x, symbol, y)
  <2>1. y.nodes = x.nodes /\ symbol \in Symbols
    BY <1>2, Zenon DEF AddsComma, Symbols, Marks
  <2>2. DocOK(y) /\ Bound(y) = Bound(x) + Width[symbol]
    BY <1>2, CommaFits, Zenon
  <2> QED
    BY <1>1, <2>1, <2>2, Zenon
<1>3. CASE AddsKey(x, symbol, y)
  <2>1. symbol \in Strings /\ Grown(x, y, symbol, Innermost(x))
    BY <1>3, Zenon DEF AddsKey
  <2>2. DocOK(y) /\ Bound(y) = Bound(x) + Width[symbol]
    BY <1>3, KeyFits, Zenon
  <2>3. Len(y.nodes) = Len(x.nodes) + 1
    BY <1>1, <2>1, GrownIs
  <2>4. symbol \in Symbols
    BY <2>1, Zenon DEF Symbols, Values
  <2> QED
    BY <1>1, <2>2, <2>3, <2>4, Zenon
<1>4. CASE AddsColon(x, symbol, y)
  <2>1. y.nodes = x.nodes /\ symbol \in Symbols
    BY <1>4, Zenon DEF AddsColon, Symbols, Marks
  <2>2. DocOK(y) /\ Bound(y) = Bound(x) + Width[symbol]
    BY <1>4, ColonFits, Zenon
  <2> QED
    BY <1>1, <2>1, <2>2, Zenon
<1>5. ASSUME NEW parent, AddsValue(x, symbol, y, parent)
      PROVE  /\ DocOK(y) /\ Bound(y) = Bound(x) + Width[symbol] /\ symbol \in Symbols
             /\ Len(y.nodes) = Len(x.nodes) + 1
  <2>1. symbol \in Values /\ Grown(x, y, symbol, parent)
    BY <1>5, Zenon DEF AddsValue
  <2>2. DocOK(y) /\ Bound(y) = Bound(x) + Width[symbol]
    BY <1>5, ValueFits, Zenon
  <2>3. Len(y.nodes) = Len(x.nodes) + 1
    BY <1>1, <2>1, GrownIs
  <2>4. symbol \in Symbols
    BY <2>1, Zenon DEF Symbols
  <2> QED
    BY <2>2, <2>3, <2>4, Zenon
<1>6. CASE AddsEnd(x, symbol, y)
  <2>1. y.nodes = x.nodes /\ symbol \in {"}", "]"}
    BY <1>6, Zenon DEF AddsEnd, Closed
  <2>2. symbol \in Symbols
    BY <2>1, Zenon DEF Symbols, Marks
  <2>3. DocOK(y) /\ Bound(y) = Bound(x) + Width[symbol]
    BY <1>6, EndFits, Zenon
  <2> QED
    BY <1>1, <2>1, <2>2, <2>3, Zenon
<1> QED
  BY <1>1, <1>2, <1>3, <1>4, <1>5, <1>6, Zenon DEF Extends

(* The reference follows any of them. *)
LEMMA DocExtends ==
  ASSUME NEW x, NEW symbol, NEW y, NEW d, DocOK(x), DocIs(x, d), Extends(x, symbol, y)
  PROVE  DocIs(y, Read(d, symbol, symbol \in Strings))
BY DocComma, DocKey, DocColon, DocValue, DocEnd, Zenon DEF Extends

(* jsmn follows any of them while it has a token for each symbol. *)
LEMMA ParserExtends ==
  ASSUME NEW x, NEW symbol, NEW y, NEW room \in Nat, NEW p, DocOK(x), ParserIs(x, room, p),
         Extends(x, symbol, y), Len(x.nodes) < room
  PROVE  ParserIs(y, room, Feed(p, symbol))
<1>1. ASSUME NEW parent, AddsValue(x, symbol, y, parent)
      PROVE  ParserIs(y, room, Feed(p, symbol))
  <2>1. CASE symbol \in Containers
    BY <1>1, <2>1, ParserContainer, Zenon
  <2>2. CASE symbol \notin Containers
    BY <1>1, <2>2, ParserLeaf, Zenon
  <2> QED
    BY <2>1, <2>2
<1> QED
  BY <1>1, ParserComma, ParserKey, ParserColon, ParserEnd, Zenon DEF Extends

(* The text is x, to jsmn and to the reference. *)
Reads(x, text) ==
  /\ text \in Seq(Symbols) /\ Len(x.nodes) <= Len(text)
  /\ \A room \in Nat : room >= Len(text) => ParserIs(x, room, Received(NewParser(room), text))
  /\ DocIs(x, ReadText(NewDoc, text))

(* So both read one symbol more. *)
LEMMA ReadsMore ==
  ASSUME NEW x, NEW symbol, NEW y, NEW text, DocOK(x), Reads(x, text), Extends(x, symbol, y)
  PROVE  Reads(y, Append(text, symbol))
<1> DEFINE more == Append(text, symbol)
<1>1. text \in Seq(Symbols) /\ Len(x.nodes) <= Len(text)
  BY DEF Reads
<1>2. symbol \in Symbols /\ Len(x.nodes) \in Nat /\ Len(y.nodes) \in {Len(x.nodes), Len(x.nodes) + 1}
  BY ExtendsFits, Zenon
<1>3. more \in Seq(Symbols) /\ Len(more) = Len(text) + 1 /\ Len(text) \in Nat
  BY <1>1, <1>2
<1>4. Len(y.nodes) <= Len(more)
  BY <1>1, <1>2, <1>3
<1>5. DocIs(y, ReadText(NewDoc, more))
  <2>1. ReadText(NewDoc, more) = Read(ReadText(NewDoc, text), symbol, symbol \in Strings)
    BY <1>1, ReadTextGrows
  <2>2. DocIs(x, ReadText(NewDoc, text))
    BY DEF Reads
  <2> QED
    BY <2>1, <2>2, DocExtends, Zenon
<1>6. ASSUME NEW room \in Nat, room >= Len(more)
      PROVE  ParserIs(y, room, Received(NewParser(room), more))
  <2>1. Received(NewParser(room), more) = Feed(Received(NewParser(room), text), symbol)
    BY <1>1, ReceivedGrows
  <2>2. room >= Len(text) /\ Len(x.nodes) < room
    BY <1>1, <1>2, <1>3, <1>6
  <2>3. ParserIs(x, room, Received(NewParser(room), text))
    BY <2>2, Zenon DEF Reads
  <2>4. ParserIs(y, room, Feed(Received(NewParser(room), text), symbol))
    BY <2>2, <2>3, ParserExtends, Zenon
  <2> QED
    BY <2>1, <2>4, Zenon
<1> QED
  BY <1>3, <1>4, <1>5, <1>6, Zenon DEF Reads

(* Only the nodes, the open containers and the last symbol tell. *)
LEMMA ReadsSame ==
  ASSUME NEW x, NEW y, y.nodes = x.nodes, y.open = x.open, y.last = x.last, NEW text, Reads(x, text)
  PROVE  Reads(y, text)
<1>1. /\ Innermost(y) = Innermost(x) /\ InsideOf(y) = InsideOf(x)
      /\ \A i : (HasChild(y, i) <=> HasChild(x, i)) /\ (IsOpen(y, i) <=> IsOpen(x, i))
  BY Zenon DEF Innermost, InsideOf, HasChild, IsOpen
<1>2. \A d : DocIs(x, d) => DocIs(y, d)
  <2>1. \A want : WantIs(x, want) => WantIs(y, want)
    BY <1>1, Zenon DEF WantIs
  <2> QED
    BY <2>1, Zenon DEF DocIs
<1>3. \A room, p : ParserIs(x, room, p) => ParserIs(y, room, p)
  <2>1. \A i, token : TokenIs(x, i, token) => TokenIs(y, i, token)
    BY TokensStay, Zenon
  <2>2. \A super : SuperIs(x, super) => SuperIs(y, super)
    BY <1>1, Zenon DEF SuperIs
  <2> QED
    BY <2>1, <2>2, Zenon DEF ParserIs
<1> QED
  BY <1>2, <1>3, Zenon DEF Reads

(* Before the first symbol. *)
LEMMA ReadsNothing ==
  ASSUME NEW x, x.nodes = <<>>, x.open = <<>>, x.last = "value"
  PROVE  DocOK(x) /\ Reads(x, <<>>) /\ Bound(x) = 0
<1> DEFINE none == <<>>
<1>1. none \in Seq(Nodes) /\ none \in Seq(Nat) /\ Len(none) = 0 /\ none \in Seq(Symbols)
      /\ none \in Seq(TokenSet) /\ none \in Seq(Levels)
  OBVIOUS
<1>2. x.nodes = none /\ x.open = none
  OBVIOUS
<1>3. 1 .. 0 = {}
  OBVIOUS
<1>4. "value" \notin {"comma", "key", "colon"}
  BY Zenon
<1> HIDE DEF none
<1>5. Len(x.nodes) = 0 /\ Len(x.open) = 0
  BY <1>1, <1>2, Zenon
<1>6. TreeOK(x)
  <2>1. (\A i \in 1 .. 0 : FALSE) /\ x.nodes \in Seq(Nodes) /\ x.open \in Seq(Nat)
    BY <1>1, <1>2, <1>3, Zenon
  <2>2. x.nodes = <<>>
    OBVIOUS
  <2> QED
    BY <1>5, <2>1, <2>2, Zenon DEF TreeOK
<1>7. DocOK(x)
  <2>1. x.last = "value" /\ x.last \notin {"key", "colon"}
    BY <1>4, Zenon
  <2>2. \A i \in 1 .. 0 : FALSE
    BY <1>3, Zenon
  <2>3. \A k \in 1 .. Len(x.open) : k < Len(x.open) => HasChild(x, x.open[k])
    BY <1>5, <2>2, Zenon
  <2> QED
    BY <1>6, <2>1, <2>3, Zenon DEF DocOK
<1>8. Bound(x) = 0
  <2> DEFINE f == [i \in 1 .. Len(x.nodes) |-> NodeSize(x, i)]
  <2>1. Size(x) = Total(f, 0)
    BY <1>5, <1>6, SizeType
  <2>2. Total(f, 0) = 0
    <3>1. 0 \in Nat /\ \A i \in 1 .. 0 : f[i] = 0
      BY <1>3
    <3> HIDE DEF f
    <3> QED
      BY <3>1, TotalZero
  <2>3. Bound(x) = Size(x)
    BY <1>4, <1>7, Bounds, Zenon
  <2> QED
    BY <2>1, <2>2, <2>3, Zenon
<1>9. DocIs(x, NewDoc)
  <2> DEFINE d == NewDoc
  <2>1. /\ d = [want |-> d.want, stack |-> d.stack, key |-> d.key, values |-> d.values,
                members |-> d.members]
        /\ d.values = 0 /\ d.stack = <<>> /\ d.want = "value"
    BY DEF NewDoc
  <2> HIDE DEF d
  <2>2. d.stack = none /\ d.values \in Nat
    BY <2>1 DEF none
  <2>3. WantIs(x, d.want)
    <3>1. x.open = <<>> /\ x.nodes = <<>> /\ x.last = "value" /\ d.want = "value"
      BY <2>1
    <3> QED
      BY <1>4, <3>1, Zenon DEF WantIs
  <2>4. \A i \in 1 .. 0 : FALSE
    BY <1>3, Zenon
  <2>5. \A k \in 1 .. Len(x.open) : d.stack[k].mark = x.nodes[x.open[k]].text
    BY <1>5, <2>4, Zenon
  <2>6. d.stack \in Seq(Levels) /\ Len(d.stack) = Len(x.open)
    BY <1>1, <1>5, <2>2, Zenon
  <2> QED
    BY <2>1, <2>2, <2>3, <2>5, <2>6, Zenon DEF DocIs, d
<1>10. ASSUME NEW room \in Nat
       PROVE  ParserIs(x, room, NewParser(room))
  <2> DEFINE p == NewParser(room)
  <2>1. /\ p = [tokens |-> p.tokens, super |-> p.super, status |-> "ok", max |-> room]
        /\ p.tokens = <<>> /\ p.super = 0
    BY DEF NewParser
  <2> HIDE DEF p
  <2>2. p.tokens \in Seq(TokenSet) /\ Len(p.tokens) = Len(x.nodes)
    BY <1>1, <1>5, <2>1, Zenon DEF none
  <2>3. \A i \in 1 .. 0 : FALSE
    BY <1>3, Zenon
  <2>4. \A i \in 1 .. Len(x.nodes) : TokenIs(x, i, p.tokens[i])
    BY <1>5, <2>3, Zenon
  <2>5. p.super = Innermost(x)
    BY <2>1, Zenon DEF Innermost
  <2>6. SuperIs(x, p.super) /\ x.last \notin {"key", "colon"}
    BY <1>4, <2>5, Zenon DEF SuperIs
  <2> QED
    BY <2>1, <2>2, <2>4, <2>6, Zenon DEF ParserIs, p
<1>11. Received(NewParser(0), <<>>) = NewParser(0) /\ ReadText(NewDoc, <<>>) = NewDoc
       /\ \A room \in Nat : Received(NewParser(room), <<>>) = NewParser(room)
  BY ReceivedNothing, ReadTextNothing, Zenon
<1>12. Len(x.nodes) <= Len(<<>>) /\ <<>> \in Seq(Symbols)
  BY <1>5
<1> QED
  BY <1>7, <1>8, <1>9, <1>10, <1>11, <1>12, Zenon DEF Reads

(***************************************************************************)
(* The writer: its text is x unless it has overflowed, and then x would    *)
(* not have fitted.                                                        *)
(***************************************************************************)
Writers == [cap : Nat, pos : Nat, depth : Nat, hasItems : SUBSET Nat, overflow : BOOLEAN,
            text : Seq(Symbols)]
Writes(x, w) ==
  /\ w \in Writers
  /\ ~ w.overflow => w.pos = Bound(x) /\ w.pos < w.cap /\ Reads(x, w.text)
  /\ w.overflow => Bound(x) >= w.cap
AlikeBut(w, v) == v.cap = w.cap /\ v.depth = w.depth /\ v.hasItems = w.hasItems

(* The fields of a writer, *)
LEMMA WriterFields ==
  ASSUME NEW w \in Writers
  PROVE  /\ w.cap \in Nat /\ w.pos \in Nat /\ w.depth \in Nat /\ w.hasItems \in SUBSET Nat
         /\ w.overflow \in BOOLEAN /\ w.text \in Seq(Symbols)
         /\ w = [f \in {"cap", "pos", "depth", "hasItems", "overflow", "text"} |-> w[f]]
BY DEF Writers

(* and what has these fields is one. *)
LEMMA WriterIs ==
  ASSUME NEW w,
         w = [f \in {"cap", "pos", "depth", "hasItems", "overflow", "text"} |-> w[f]],
         w.cap \in Nat, w.pos \in Nat, w.depth \in Nat, w.hasItems \in SUBSET Nat,
         w.overflow \in BOOLEAN, w.text \in Seq(Symbols)
  PROVE  w \in Writers
<1>1. w = [cap |-> w.cap, pos |-> w.pos, depth |-> w.depth, hasItems |-> w.hasItems,
           overflow |-> w.overflow, text |-> w.text]
  OBVIOUS
<1> QED
  BY <1>1 DEF Writers

(* put() writes the symbol, or overflows when it does not fit. *)
LEMMA PutFits ==
  ASSUME NEW x, NEW symbol, NEW y, NEW w, DocOK(x), Writes(x, w), Extends(x, symbol, y)
  PROVE  Writes(y, Put(w, symbol)) /\ AlikeBut(w, Put(w, symbol))
<1> DEFINE width == Width[symbol]
           full == [w EXCEPT !.overflow = TRUE]
           longer == Append(w.text, symbol)
           grown == [w EXCEPT !.pos = @ + width, !.text = longer]
<1>1. w \in Writers
  BY DEF Writes
<1>2. Bound(y) = Bound(x) + width /\ symbol \in Symbols /\ Bound(x) \in Int
  BY ExtendsFits, Bounds, Zenon
<1>3. width \in Nat \ {0}
  BY <1>2, WidthIs DEF Symbols
<1> HIDE DEF width
<1>4. /\ w.cap \in Nat /\ w.pos \in Nat /\ w.depth \in Nat /\ w.hasItems \in SUBSET Nat
      /\ w.overflow \in BOOLEAN /\ w.text \in Seq(Symbols)
      /\ w = [f \in {"cap", "pos", "depth", "hasItems", "overflow", "text"} |-> w[f]]
  BY <1>1, WriterFields, Zenon
<1>5. full \in Writers /\ full.overflow /\ AlikeBut(w, full)
  <2>1. /\ full = [f \in {"cap", "pos", "depth", "hasItems", "overflow", "text"} |-> full[f]]
        /\ full.cap = w.cap /\ full.pos = w.pos /\ full.depth = w.depth
        /\ full.hasItems = w.hasItems /\ full.overflow = TRUE /\ full.text = w.text
    BY <1>4
  <2> HIDE DEF full
  <2>2. full \in Writers
    BY <1>4, <2>1, WriterIs, Zenon
  <2> QED
    BY <2>1, <2>2, Zenon DEF AlikeBut
<1>6. /\ grown \in Writers /\ grown.overflow = w.overflow /\ AlikeBut(w, grown)
      /\ grown.pos = w.pos + width /\ grown.text = longer
  <2>1. longer \in Seq(Symbols) /\ w.pos + width \in Nat
    BY <1>2, <1>3, <1>4
  <2> HIDE DEF longer
  <2>2. /\ grown = [f \in {"cap", "pos", "depth", "hasItems", "overflow", "text"} |-> grown[f]]
        /\ grown.cap = w.cap /\ grown.pos = w.pos + width /\ grown.depth = w.depth
        /\ grown.hasItems = w.hasItems /\ grown.overflow = w.overflow /\ grown.text = longer
    BY <1>4
  <2> HIDE DEF grown
  <2>3. grown \in Writers
    BY <1>4, <2>1, <2>2, WriterIs, Zenon
  <2> QED
    BY <2>2, <2>3, Zenon DEF AlikeBut
<1>7. CASE w.overflow \/ w.pos + width >= w.cap
  <2>1. Put(w, symbol) = full
    BY <1>7, Zenon DEF Put, width
  <2>2. Bound(y) >= w.cap
    <3>1. CASE w.overflow
      <4>1. Bound(x) >= w.cap
        BY <3>1, Zenon DEF Writes
      <4> QED
        BY <1>2, <1>3, <1>4, <4>1
    <3>2. CASE ~ w.overflow
      <4>1. w.pos = Bound(x)
        BY <3>2, Zenon DEF Writes
      <4> QED
        BY <1>2, <1>7, <3>2, <4>1
    <3> QED
      BY <3>1, <3>2
  <2> QED
    BY <1>5, <2>1, <2>2, Zenon DEF Writes, AlikeBut
<1>8. CASE ~ (w.overflow \/ w.pos + width >= w.cap)
  <2>1. Put(w, symbol) = grown
    BY <1>8, Zenon DEF Put, width, longer
  <2>2. w.pos = Bound(x) /\ Reads(x, w.text)
    BY <1>8, Zenon DEF Writes
  <2>3. Reads(y, longer)
    BY <2>2, ReadsMore, Zenon
  <2>4. grown.pos = Bound(y) /\ grown.pos < grown.cap
    <3>1. grown.cap = w.cap
      BY <1>6 DEF AlikeBut
    <3> HIDE DEF grown
    <3> QED
      BY <1>2, <1>3, <1>4, <1>6, <1>8, <2>2, <3>1
  <2> HIDE DEF grown
  <2> QED
    BY <1>6, <1>8, <2>1, <2>3, <2>4, Zenon DEF Writes
<1> QED
  BY <1>7, <1>8

(* A writer with only the overflow set, or only its nesting, is one. *)
LEMMA OverflowSet ==
  ASSUME NEW w \in Writers, NEW v, v = [w EXCEPT !.overflow = TRUE]
  PROVE  v \in Writers /\ v.overflow /\ AlikeBut(w, v)
<1>1. /\ w.cap \in Nat /\ w.pos \in Nat /\ w.depth \in Nat /\ w.hasItems \in SUBSET Nat
      /\ w.overflow \in BOOLEAN /\ w.text \in Seq(Symbols)
      /\ w = [f \in {"cap", "pos", "depth", "hasItems", "overflow", "text"} |-> w[f]]
  BY WriterFields, Zenon
<1>2. /\ v = [f \in {"cap", "pos", "depth", "hasItems", "overflow", "text"} |-> v[f]]
      /\ v.cap = w.cap /\ v.pos = w.pos /\ v.depth = w.depth
      /\ v.hasItems = w.hasItems /\ v.overflow = TRUE /\ v.text = w.text
  BY <1>1
<1>3. v \in Writers
  BY <1>1, <1>2, WriterIs, Zenon
<1> QED
  BY <1>2, <1>3, Zenon DEF AlikeBut

SetTo(w, d, h) == [w EXCEPT !.depth = d, !.hasItems = h]

(* Depth and items changed. *)
LEMMA ItemsSet ==
  ASSUME NEW w \in Writers, NEW d \in Nat, NEW h \in SUBSET Nat, NEW v, v = SetTo(w, d, h)
  PROVE  /\ v \in Writers /\ v.depth = d /\ v.hasItems = h
         /\ v.cap = w.cap /\ v.pos = w.pos /\ v.overflow = w.overflow /\ v.text = w.text
<1>1. /\ w.cap \in Nat /\ w.pos \in Nat /\ w.depth \in Nat /\ w.hasItems \in SUBSET Nat
      /\ w.overflow \in BOOLEAN /\ w.text \in Seq(Symbols)
      /\ w = [f \in {"cap", "pos", "depth", "hasItems", "overflow", "text"} |-> w[f]]
  BY WriterFields, Zenon
<1>2. /\ v = [f \in {"cap", "pos", "depth", "hasItems", "overflow", "text"} |-> v[f]]
      /\ v.cap = w.cap /\ v.pos = w.pos /\ v.depth = d
      /\ v.hasItems = h /\ v.overflow = w.overflow /\ v.text = w.text
  BY <1>1 DEF SetTo
<1>3. v \in Writers
  BY <1>1, <1>2, WriterIs, Zenon
<1> QED
  BY <1>2, <1>3, Zenon

(* Items changed. *)
LEMMA OnlyItemsSet ==
  ASSUME NEW w \in Writers, NEW h \in SUBSET Nat, NEW v, v = [w EXCEPT !.hasItems = h]
  PROVE  /\ v \in Writers /\ v.depth = w.depth /\ v.hasItems = h
         /\ v.cap = w.cap /\ v.pos = w.pos /\ v.overflow = w.overflow /\ v.text = w.text
<1>1. /\ w.cap \in Nat /\ w.pos \in Nat /\ w.depth \in Nat /\ w.hasItems \in SUBSET Nat
      /\ w.overflow \in BOOLEAN /\ w.text \in Seq(Symbols)
      /\ w = [f \in {"cap", "pos", "depth", "hasItems", "overflow", "text"} |-> w[f]]
  BY WriterFields, Zenon
<1>2. /\ v = [f \in {"cap", "pos", "depth", "hasItems", "overflow", "text"} |-> v[f]]
      /\ v.cap = w.cap /\ v.pos = w.pos /\ v.depth = w.depth
      /\ v.hasItems = h /\ v.overflow = w.overflow /\ v.text = w.text
  BY <1>1
<1>3. v \in Writers
  BY <1>1, <1>2, WriterIs, Zenon
<1> QED
  BY <1>2, <1>3, Zenon

(* Depth changed. *)
LEMMA OnlyDepthSet ==
  ASSUME NEW w \in Writers, NEW d \in Nat, NEW v, v = [w EXCEPT !.depth = d]
  PROVE  /\ v \in Writers /\ v.depth = d /\ v.hasItems = w.hasItems
         /\ v.cap = w.cap /\ v.pos = w.pos /\ v.overflow = w.overflow /\ v.text = w.text
<1>1. /\ w.cap \in Nat /\ w.pos \in Nat /\ w.depth \in Nat /\ w.hasItems \in SUBSET Nat
      /\ w.overflow \in BOOLEAN /\ w.text \in Seq(Symbols)
      /\ w = [f \in {"cap", "pos", "depth", "hasItems", "overflow", "text"} |-> w[f]]
  BY WriterFields, Zenon
<1>2. /\ v = [f \in {"cap", "pos", "depth", "hasItems", "overflow", "text"} |-> v[f]]
      /\ v.cap = w.cap /\ v.pos = w.pos /\ v.depth = d
      /\ v.hasItems = w.hasItems /\ v.overflow = w.overflow /\ v.text = w.text
  BY <1>1
<1>3. v \in Writers
  BY <1>1, <1>2, WriterIs, Zenon
<1> QED
  BY <1>2, <1>3, Zenon

(* The nesting is no part of the text. *)
LEMMA WritesOn ==
  ASSUME NEW x, NEW w, NEW v \in Writers, Writes(x, w), v.cap = w.cap, v.pos = w.pos,
         v.overflow = w.overflow, v.text = w.text
  PROVE  Writes(x, v)
BY Zenon DEF Writes

(***************************************************************************)
(* The calls: first the separator and the key of a value.                  *)
(***************************************************************************)
MayName(x, key) ==
  \/ key = Unnamed /\ x.nodes = <<>>
  \/ key = Unnamed /\ x.open # <<>> /\ InsideOf(x) = "["
  \/ key # Unnamed /\ key \in Strings /\ x.open # <<>> /\ InsideOf(x) = "{"

Separated(x) ==
  [nodes |-> x.nodes, open |-> x.open,
   last |-> IF x.open # <<>> /\ HasChild(x, Innermost(x)) THEN "comma" ELSE "value"]
Keyed(x, key, last) ==
  [nodes |-> Append(x.nodes, [text |-> key, parent |-> Innermost(x)]), open |-> x.open,
   last |-> last]
Named(x, key) == IF key = Unnamed THEN Separated(x) ELSE Keyed(x, key, "colon")
ParentOf(x, key) == IF key = Unnamed THEN Innermost(x) ELSE Len(Named(x, key).nodes)

(* The comma, when there is a value before. *)
LEMMA SeparatedIs ==
  ASSUME NEW x, DocOK(x), x.last = "value"
  PROVE  /\ DocOK(Separated(x)) /\ Separated(x).nodes = x.nodes /\ Separated(x).open = x.open
         /\ Innermost(Separated(x)) = Innermost(x) /\ InsideOf(Separated(x)) = InsideOf(x)
         /\ x.open # <<>> => MayFollow(Separated(x))
         /\ x.open # <<>> /\ HasChild(x, Innermost(x)) => AddsComma(x, ",", Separated(x))
         /\ ~ (x.open # <<>> /\ HasChild(x, Innermost(x))) =>
              /\ Separated(x).last = "value"
              /\ Bound(Separated(x)) = Bound(x)
<1> DEFINE y == Separated(x)
<1>1. /\ y.nodes = x.nodes /\ y.open = x.open
      /\ y.last = IF x.open # <<>> /\ HasChild(x, Innermost(x)) THEN "comma" ELSE "value"
  BY DEF Separated
<1> HIDE DEF y
<1>2. /\ Innermost(y) = Innermost(x) /\ InsideOf(y) = InsideOf(x)
      /\ \A i : HasChild(y, i) <=> HasChild(x, i)
  BY <1>1, Zenon DEF Innermost, InsideOf, HasChild
<1>3. CASE x.open # <<>> /\ HasChild(x, Innermost(x))
  <2>1. y.last = "comma"
    BY <1>1, <1>3, Zenon
  <2>2. AddsComma(x, ",", y)
    BY <1>1, <1>3, <2>1, Zenon DEF AddsComma
  <2>3. DocOK(y)
    BY <2>2, CommaFits, Zenon
  <2>4. MayFollow(y)
    BY <1>1, <1>3, <2>1, Zenon DEF MayFollow
  <2> QED
    BY <1>1, <1>2, <1>3, <2>2, <2>3, <2>4, Zenon DEF y
<1>4. CASE ~ (x.open # <<>> /\ HasChild(x, Innermost(x)))
  <2>1. y.last = "value"
    BY <1>1, <1>4, Zenon
  <2>2. TreeOK(y) /\ Size(y) = Size(x) /\ TreeOK(x)
    BY <1>1, SizeSame DEF DocOK
  <2>3. DocOK(y)
    <3>1. \A k \in 1 .. Len(x.open) : k < Len(x.open) => HasChild(x, x.open[k])
      BY Zenon DEF DocOK
    <3>2. "value" \notin {"key", "colon"}
      BY Zenon
    <3> QED
      BY <1>1, <1>2, <2>1, <2>2, <3>1, <3>2, Zenon DEF DocOK
  <2>4. Bound(y) = Bound(x)
    <3>1. "value" \notin {"comma", "colon"}
      BY Zenon
    <3> QED
      BY <2>1, <2>2, <2>3, <3>1, Bounds, Zenon
  <2>5. x.open # <<>> => MayFollow(y)
    BY <1>1, <1>2, <1>4, <2>1, Zenon DEF MayFollow
  <2> QED
    BY <1>1, <1>2, <1>4, <2>1, <2>3, <2>4, <2>5, Zenon DEF y
<1> QED
  BY <1>3, <1>4

(* The comma and the key, when there is one: then a value may follow. *)
LEMMA NamedIs ==
  ASSUME NEW x, NEW key, DocOK(x), x.last = "value", MayName(x, key)
  PROVE  /\ DocOK(Named(x, key)) /\ Named(x, key).open = x.open
         /\ Len(Named(x, key).nodes) \in Nat
         /\ ParentOf(x, key) \in 0 .. Len(Named(x, key).nodes)
         /\ Named(x, key).nodes = <<>> => x.nodes = <<>>
         /\ \/ Named(x, key).last = "colon" /\ ParentOf(x, key) = Len(Named(x, key).nodes)
            \/ Named(x, key).nodes = <<>> /\ ParentOf(x, key) = 0
            \/ /\ MayFollow(Named(x, key)) /\ InsideOf(Named(x, key)) = "["
               /\ ParentOf(x, key) = Innermost(Named(x, key))
         /\ key # Unnamed => /\ AddsKey(Separated(x), key, Keyed(x, key, "key"))
                             /\ AddsColon(Keyed(x, key, "key"), ":", Keyed(x, key, "colon"))
<1> DEFINE s == Separated(x)
           c == Innermost(x)
           z == Named(x, key)
<1>1. /\ DocOK(s) /\ s.nodes = x.nodes /\ s.open = x.open
      /\ Innermost(s) = c /\ InsideOf(s) = InsideOf(x)
  BY SeparatedIs, Zenon
<1>2. x.open # <<>> => MayFollow(s)
  BY SeparatedIs, Zenon
<1>3. TreeOK(x) /\ TreeOK(s) /\ Len(x.nodes) \in Nat
  BY <1>1, NodesAre DEF DocOK
<1>4. c \in 0 .. Len(x.nodes)
  <2>1. x.open # <<>> => c \in 1 .. Len(x.nodes)
    BY <1>3, InnermostIs, Zenon
  <2>2. x.open = <<>> => c = 0
    BY Zenon DEF Innermost
  <2> QED
    BY <1>3, <2>1, <2>2
<1>5. x.nodes = <<>> => x.open = <<>>
  <2>1. x.open # <<>> => c \in 1 .. Len(x.nodes)
    BY <1>3, InnermostIs, Zenon
  <2>2. x.nodes = <<>> => Len(x.nodes) = 0
    OBVIOUS
  <2> QED
    BY <2>1, <2>2
<1> HIDE DEF s
<1>6. CASE key = Unnamed
  <2>1. z = s /\ ParentOf(x, key) = c
    BY <1>6, Zenon DEF Named, ParentOf, s
  <2>2. \/ z.nodes = <<>> /\ ParentOf(x, key) = 0
        \/ MayFollow(z) /\ InsideOf(z) = "[" /\ ParentOf(x, key) = Innermost(z)
    <3>1. CASE x.nodes = <<>>
      <4>1. c = 0
        BY <1>5, <3>1, Zenon DEF Innermost
      <4> QED
        BY <1>1, <2>1, <3>1, <4>1, Zenon
    <3>2. CASE x.nodes # <<>>
      <4>1. x.open # <<>> /\ InsideOf(x) = "["
        BY <1>6, <3>2, Zenon DEF MayName
      <4> QED
        BY <1>1, <1>2, <2>1, <4>1, Zenon
    <3> QED
      BY <3>1, <3>2
  <2> HIDE DEF c, z
  <2> QED
    BY <1>1, <1>3, <1>4, <1>6, <2>1, <2>2, Zenon DEF z
<1>7. CASE key # Unnamed
  <2> DEFINE k == Keyed(x, key, "key")
             l == Keyed(x, key, "colon")
             node == [text |-> key, parent |-> c]
  <2>1. /\ k.nodes = Append(x.nodes, node) /\ k.open = x.open /\ k.last = "key"
        /\ l.nodes = Append(x.nodes, node) /\ l.open = x.open /\ l.last = "colon"
    BY DEF Keyed
  <2>2. z = l /\ ParentOf(x, key) = Len(z.nodes)
    BY <1>7, Zenon DEF Named, ParentOf
  <2>3. key \in Strings /\ x.open # <<>> /\ InsideOf(x) = "{"
    BY <1>7, Zenon DEF MayName
  <2>4. Grown(s, k, key, Innermost(s))
    <3>1. key \notin Containers /\ key \in Values
      BY <2>3, NotContainers, Zenon DEF Values
    <3>2. x.nodes # <<>>
      BY <1>5, <2>3
    <3> HIDE DEF k, l, c
    <3> QED
      BY <1>1, <1>4, <2>1, <3>1, <3>2, Zenon DEF Grown
  <2> HIDE DEF k, l
  <2>5. AddsKey(s, key, k)
    BY <1>1, <1>2, <2>1, <2>3, <2>4, Zenon DEF AddsKey
  <2>6. DocOK(k)
    BY <1>1, <2>5, KeyFits, Zenon
  <2>7. AddsColon(k, ":", l)
    BY <2>1, Zenon DEF AddsColon
  <2>8. DocOK(l)
    BY <2>6, <2>7, ColonFits, Zenon
  <2>9. Len(l.nodes) = Len(x.nodes) + 1 /\ l.nodes # <<>>
    <3>1. x.nodes \in Seq(Nodes)
      BY <1>3 DEF TreeOK
    <3> HIDE DEF node
    <3>2. l.nodes = Append(x.nodes, node)
      BY <2>1
    <3>3. Len(l.nodes) = Len(x.nodes) + 1
      BY <3>1, <3>2
    <3>4. l.nodes = <<>> => Len(l.nodes) = 0
      OBVIOUS
    <3> QED
      BY <1>3, <3>3, <3>4
  <2>10. Len(l.nodes) \in Nat /\ Len(l.nodes) \in 0 .. Len(l.nodes)
    BY <1>3, <2>9
  <2> HIDE DEF z
  <2> QED
    BY <1>7, <2>1, <2>2, <2>5, <2>7, <2>8, <2>9, <2>10, Zenon DEF z, k, l, s
<1> QED
  BY <1>6, <1>7

HasItems(x, w) ==
  /\ w.depth = Len(x.open)
  /\ \A k \in 1 .. Len(x.open) : k \in w.hasItems <=> HasChild(x, x.open[k])

Began(x, w, key, v) ==
  /\ Writes(Named(x, key), v) /\ v.cap = w.cap /\ v.depth = w.depth
  /\ v.hasItems = (IF w.depth > 0 THEN w.hasItems \cup {w.depth} ELSE w.hasItems)

(* begin_value() puts the comma and the key, by the bits it keeps. *)
LEMMA BeginsValue ==
  ASSUME NEW x, NEW key, NEW w, DocOK(x), x.last = "value", MayName(x, key), Writes(x, w),
         HasItems(x, w)
  PROVE  Began(x, w, key, BeginValue(w, key))
<1> DEFINE s == Separated(x)
           separated == IF w.depth > 0 /\ w.depth \in w.hasItems THEN Put(w, ",") ELSE w
           items == IF w.depth > 0 THEN separated.hasItems \cup {w.depth} ELSE separated.hasItems
           counted == [separated EXCEPT !.hasItems = items]
<1>1. w \in Writers /\ w.depth \in Nat /\ w.hasItems \in SUBSET Nat
  BY WriterFields, Zenon DEF Writes
<1>2. TreeOK(x) /\ Len(x.open) \in Nat /\ DOMAIN x.open = 1 .. Len(x.open)
  BY NodesAre DEF DocOK
<1>3. w.depth > 0 /\ w.depth \in w.hasItems <=> x.open # <<>> /\ HasChild(x, Innermost(x))
  <2>1. w.depth = Len(x.open)
    BY DEF HasItems
  <2>2. CASE x.open = <<>>
    <3>1. Len(x.open) = 0
      BY <2>2
    <3>2. ~ (w.depth > 0)
      BY <2>1, <3>1
    <3> QED
      BY <2>2, <3>2
  <2>3. CASE x.open # <<>>
    <3>1. Innermost(x) = x.open[Len(x.open)] /\ Len(x.open) \in 1 .. Len(x.open)
      BY <1>2, <2>3, InnermostIs, Zenon
    <3>2. w.depth > 0
      BY <2>1, <3>1
    <3>3. Len(x.open) \in w.hasItems <=> HasChild(x, x.open[Len(x.open)])
      BY <3>1, Zenon DEF HasItems
    <3> QED
      BY <2>1, <2>3, <3>1, <3>2, <3>3, Zenon
  <2> QED
    BY <2>2, <2>3
<1>4. Writes(s, separated) /\ AlikeBut(w, separated)
  <2>1. CASE x.open # <<>> /\ HasChild(x, Innermost(x))
    <3>1. separated = Put(w, ",")
      BY <1>3, <2>1, Zenon
    <3>2. AddsComma(x, ",", s)
      BY <2>1, SeparatedIs, Zenon
    <3> QED
      BY <3>1, <3>2, PutFits, Zenon DEF Extends
  <2>2. CASE ~ (x.open # <<>> /\ HasChild(x, Innermost(x)))
    <3>1. separated = w
      BY <1>3, <2>2, Zenon
    <3>2. s.nodes = x.nodes /\ s.open = x.open /\ s.last = x.last
      BY <2>2, Zenon, SeparatedIs
    <3>3. Writes(s, w)
      <4>1. s = [nodes |-> x.nodes, open |-> x.open, last |-> "value"]
        BY <2>2, Zenon DEF Separated
      <4>2. Bound(s) = Bound(x)
        BY <2>2, SeparatedIs, Zenon
      <4>3. \A text : Reads(x, text) => Reads(s, text)
        BY <3>2, ReadsSame, Zenon
      <4> QED
        BY <4>2, <4>3, Zenon DEF Writes
    <3> QED
      BY <3>1, <3>3, Zenon DEF AlikeBut
  <2> QED
    BY <2>1, <2>2
<1> HIDE DEF separated, s
<1>5. separated \in Writers /\ items \in SUBSET Nat
  BY <1>1, <1>4 DEF Writes, AlikeBut
<1> HIDE DEF items
<1>6. /\ counted \in Writers /\ counted.depth = separated.depth /\ counted.hasItems = items
      /\ counted.cap = separated.cap /\ Writes(s, counted)
  <2> DEFINE v == counted
  <2>1. v = [separated EXCEPT !.hasItems = items]
    OBVIOUS
  <2> HIDE DEF v
  <2>2. /\ v \in Writers /\ v.depth = separated.depth /\ v.hasItems = items
        /\ v.cap = separated.cap /\ v.pos = separated.pos /\ v.overflow = separated.overflow
        /\ v.text = separated.text
    BY <1>5, <2>1, OnlyItemsSet
  <2>3. Writes(s, v)
    BY <1>4, <2>2, WritesOn, Zenon
  <2> QED
    BY <2>2, <2>3 DEF v
<1>7. BeginValue(w, key) = IF key = Unnamed THEN counted ELSE Put(Put(counted, key), ":")
  <2>1. counted = [separated EXCEPT !.hasItems = IF w.depth > 0 THEN @ \cup {w.depth} ELSE @]
    BY Zenon DEF items
  <2> HIDE DEF counted
  <2> QED
    BY <2>1, Zenon DEF BeginValue, separated
<1> HIDE DEF counted
<1>8. counted.depth = w.depth /\ counted.cap = w.cap /\ counted.hasItems =
              (IF w.depth > 0 THEN w.hasItems \cup {w.depth} ELSE w.hasItems)
  BY <1>4, <1>6, Zenon DEF AlikeBut, items
<1>9. CASE key = Unnamed
  <2>1. BeginValue(w, key) = counted /\ Named(x, key) = s
    BY <1>7, <1>9, Zenon DEF Named, s
  <2> QED
    BY <1>6, <1>8, <2>1, Zenon DEF Began
<1>10. CASE key # Unnamed
  <2> DEFINE k == Keyed(x, key, "key")
             l == Keyed(x, key, "colon")
             p == Put(counted, key)
             q == Put(p, ":")
  <2>1. BeginValue(w, key) = q /\ Named(x, key) = l
    BY <1>7, <1>10, Zenon DEF Named
  <2>2. AddsKey(s, key, k) /\ AddsColon(k, ":", l) /\ DocOK(s)
    BY <1>10, NamedIs, SeparatedIs, Zenon DEF s
  <2>3. DocOK(k)
    BY <2>2, KeyFits, Zenon
  <2> HIDE DEF k, l
  <2>4. Writes(k, p) /\ AlikeBut(counted, p)
    BY <1>6, <2>2, PutFits, Zenon DEF Extends
  <2> HIDE DEF p
  <2>5. Writes(l, q) /\ AlikeBut(p, q)
    BY <2>2, <2>3, <2>4, PutFits, Zenon DEF Extends
  <2> HIDE DEF q
  <2> QED
    BY <1>8, <2>1, <2>4, <2>5, Zenon DEF AlikeBut, Began
<1> QED
  BY <1>9, <1>10

(* Then the value, which makes x y. *)
Follows(x, key, value, y) ==
  /\ DocOK(x) /\ x.last = "value" /\ MayName(x, key)
  /\ y.last = "value" /\ Grown(Named(x, key), y, value, ParentOf(x, key))
Ready(x, w) == Writes(x, w) /\ HasItems(x, w)

(* The containers of x have an item each once the value is there. *)
ValueIn(x, w, y, q) ==
  /\ Writes(y, q) /\ q.cap = w.cap /\ q.depth = w.depth
  /\ \A k \in 1 .. Len(x.open) : k \in q.hasItems

(* The parts of it, for steps that do not need it expanded. *)
LEMMA FollowsIs ==
  ASSUME NEW x, NEW key, NEW value, NEW y, Follows(x, key, value, y)
  PROVE  /\ DocOK(x) /\ x.last = "value" /\ MayName(x, key)
         /\ y.last = "value" /\ Grown(Named(x, key), y, value, ParentOf(x, key))
BY Zenon DEF Follows

(* The value is one of the five steps. *)
LEMMA ValueAdded ==
  ASSUME NEW x, NEW key, NEW value, NEW y, Follows(x, key, value, y)
  PROVE  /\ AddsValue(Named(x, key), value, y, ParentOf(x, key)) /\ DocOK(y)
         /\ Len(x.open) \in Nat
         /\ value \notin Containers => y.open = x.open /\ x.open # <<>> /\ HasChild(y, Innermost(y))
         /\ value \in Containers => /\ Len(y.open) = Len(x.open) + 1
                                    /\ \A k \in 1 .. Len(x.open) : y.open[k] = x.open[k]
                                    /\ ~ HasChild(y, y.open[Len(x.open) + 1])
<1> DEFINE z == Named(x, key)
           parent == ParentOf(x, key)
<1>1. /\ DocOK(z) /\ z.open = x.open
      /\ \/ z.last = "colon" /\ parent = Len(z.nodes)
         \/ z.nodes = <<>> /\ parent = 0
         \/ MayFollow(z) /\ InsideOf(z) = "[" /\ parent = Innermost(z)
  BY FollowsIs, NamedIs, Zenon
<1>2. /\ Grown(z, y, value, parent) /\ value \in Values /\ (z.nodes = <<>> => value = "{")
      /\ y.last = "value"
  <2>1. Grown(z, y, value, parent) /\ y.last = "value"
    BY FollowsIs, Zenon
  <2> QED
    BY <2>1, Zenon DEF Grown
<1> HIDE DEF z, parent
<1>3. AddsValue(z, value, y, parent)
  BY <1>1, <1>2, Zenon DEF AddsValue
<1>4. DocOK(y) /\ (value \notin Containers => y.open # <<>> /\ HasChild(y, Innermost(y)))
  BY <1>1, <1>3, ValueFits, Zenon
<1>5. TreeOK(z) /\ TreeOK(y)
  BY <1>1, <1>4 DEF DocOK
<1>6. Len(z.nodes) \in Nat /\ Len(x.open) \in Nat
  BY <1>1, <1>5, NodesAre
<1>7. /\ Len(y.nodes) = Len(z.nodes) + 1
      /\ \A k \in 1 .. Len(z.open) : y.open[k] = z.open[k]
      /\ value \in Containers => /\ Len(y.open) = Len(z.open) + 1
                                 /\ y.open[Len(z.open) + 1] = Len(z.nodes) + 1
      /\ value \notin Containers => y.open = z.open
  BY <1>2, <1>5, GrownIs
<1>8. ~ HasChild(y, Len(z.nodes) + 1)
  <2>1. /\ DOMAIN y.nodes = 1 .. Len(y.nodes) /\ Len(y.nodes) \in Nat
        /\ \A i \in 1 .. Len(y.nodes) : y.nodes[i] \in Nodes
    BY <1>5, NodesAre
  <2>2. \A i \in 1 .. Len(y.nodes) : y.nodes[i].parent < i
    BY <1>5, Zenon DEF TreeOK
  <2>3. \A i \in 1 .. Len(y.nodes) : y.nodes[i].parent \in Nat
    BY <2>1 DEF Nodes
  <2>4. ASSUME NEW i \in 1 .. Len(y.nodes) PROVE y.nodes[i].parent # Len(z.nodes) + 1
    <3> DEFINE p == y.nodes[i].parent
    <3>1. p < i /\ p \in Nat
      BY <2>2, <2>3
    <3> HIDE DEF p
    <3>2. p # Len(z.nodes) + 1
      BY <1>6, <1>7, <3>1
    <3> QED
      BY <3>2 DEF p
  <2> QED
    BY <2>1, <2>4, Zenon DEF HasChild
<1> QED
  BY <1>1, <1>3, <1>4, <1>6, <1>7, <1>8, Zenon DEF z, parent

(* The calls of a value put it, and the bits of the open containers are right. *)
LEMMA ValuePut ==
  ASSUME NEW x, NEW key, NEW value, NEW y, NEW w, Follows(x, key, value, y), Ready(x, w)
  PROVE  ValueIn(x, w, y, Put(BeginValue(w, key), value))
<1> DEFINE v == BeginValue(w, key)
           q == Put(v, value)
<1>1. DocOK(x) /\ x.last = "value" /\ MayName(x, key)
  BY FollowsIs, Zenon
<1>2. Writes(x, w) /\ HasItems(x, w)
  BY Zenon DEF Ready
<1>3. Began(x, w, key, v)
  BY <1>1, <1>2, BeginsValue, Zenon
<1>4. AddsValue(Named(x, key), value, y, ParentOf(x, key))
  BY ValueAdded, Zenon
<1>5. DocOK(Named(x, key))
  BY <1>1, NamedIs, Zenon
<1> HIDE DEF v
<1>6. Writes(y, q) /\ AlikeBut(v, q)
  <2>1. Extends(Named(x, key), value, y)
    BY <1>4, Zenon DEF Extends
  <2>2. Writes(Named(x, key), v)
    BY <1>3, Zenon DEF Began
  <2> QED
    BY <1>5, <2>1, <2>2, PutFits, Zenon
<1> HIDE DEF q
<1>7. /\ Writes(y, q) /\ q.cap = w.cap /\ q.depth = w.depth
      /\ q.hasItems = (IF w.depth > 0 THEN w.hasItems \cup {w.depth} ELSE w.hasItems)
  BY <1>3, <1>6, Zenon DEF AlikeBut, Began
<1>8. ASSUME NEW k \in 1 .. Len(x.open) PROVE k \in q.hasItems
  <2>1. w.depth = Len(x.open) /\ (k \in w.hasItems <=> HasChild(x, x.open[k]))
    BY <1>2, Zenon DEF HasItems
  <2>2. Len(x.open) \in Nat
    BY ValueAdded, Zenon
  <2>3. k < Len(x.open) => HasChild(x, x.open[k])
    BY <1>1, Zenon DEF DocOK
  <2>4. w.depth > 0 /\ (k < Len(x.open) \/ k = w.depth)
    BY <2>1, <2>2
  <2> QED
    BY <1>7, <2>1, <2>3, <2>4, Zenon
<1> QED
  BY <1>7, <1>8, Zenon DEF ValueIn, q, v

(* add_str() and the others keep the writer right. *)
LEMMA LeafCalled ==
  ASSUME NEW x, NEW key, NEW value, NEW y, NEW w, Follows(x, key, value, y),
         Ready(x, w), value \notin Containers, NEW q, q = AddValue(w, key, value)
  PROVE  Writes(y, q) /\ HasItems(y, q) /\ q.cap = w.cap
<1>1. q = Put(BeginValue(w, key), value)
  BY Zenon DEF AddValue
<1>2. /\ Writes(y, q) /\ q.cap = w.cap /\ q.depth = w.depth
      /\ \A k \in 1 .. Len(x.open) : k \in q.hasItems
  <2>1. ValueIn(x, w, y, q)
    BY <1>1, ValuePut, Zenon
  <2> QED
    BY <2>1, Zenon DEF ValueIn
<1>3. DocOK(y) /\ y.open = x.open /\ x.open # <<>> /\ HasChild(y, Innermost(y)) /\ Len(x.open) \in Nat
  <2>1. value \notin Containers
    OBVIOUS
  <2>2. DocOK(y) /\ Len(x.open) \in Nat
    BY ValueAdded, Zenon
  <2>3. value \notin Containers => y.open = x.open /\ x.open # <<>> /\ HasChild(y, Innermost(y))
    BY ValueAdded, Zenon
  <2> QED
    BY <2>1, <2>2, <2>3, Zenon
<1>4. \A k \in 1 .. Len(y.open) : HasChild(y, y.open[k])
  <2>1. \A k \in 1 .. Len(y.open) : k < Len(y.open) => HasChild(y, y.open[k])
    BY <1>3, Zenon DEF DocOK
  <2>2. Innermost(y) = y.open[Len(y.open)]
    BY <1>3, Zenon DEF Innermost
  <2>3. \A k \in 1 .. Len(y.open) : k < Len(y.open) \/ k = Len(y.open)
    BY <1>3
  <2> QED
    BY <1>3, <2>1, <2>2, <2>3, Zenon
<1>5. q.depth = Len(y.open)
  BY <1>2, <1>3, Zenon DEF HasItems, Ready
<1> QED
  BY <1>2, <1>3, <1>4, <1>5, Zenon DEF HasItems

Opened(x, y, w, v) ==
  /\ v.cap = w.cap /\ w.depth = Len(x.open)
  /\ w.depth < MaxDepth => Writes(y, v) /\ HasItems(y, v)
  /\ w.depth >= MaxDepth => v \in Writers /\ v.overflow

(* begin_object() and begin_array() do, unless they are nested too deeply. *)
LEMMA ContainerCalled ==
  ASSUME NEW x, NEW key, NEW value, NEW y, NEW w, Follows(x, key, value, y),
         Ready(x, w), value \in Containers, NEW v, v = Open(w, key, value)
  PROVE  Opened(x, y, w, v)
<1> DEFINE q == Put(BeginValue(w, key), value)
<1>1. /\ Writes(y, q) /\ q.cap = w.cap /\ q.depth = w.depth
      /\ \A k \in 1 .. Len(x.open) : k \in q.hasItems
  <2>1. ValueIn(x, w, y, q)
    BY ValuePut, Zenon
  <2> QED
    BY <2>1, Zenon DEF ValueIn
<1>2. w.depth = Len(x.open) /\ w.depth \in Nat /\ q \in Writers /\ MaxDepth \in Nat
  BY <1>1, WriterFields, WriterAssumption, Zenon DEF HasItems, Writes, Ready
<1>3. DocOK(y) /\ Len(y.open) = Len(x.open) + 1 /\ ~ HasChild(y, y.open[Len(x.open) + 1])
  <2>1. value \in Containers
    OBVIOUS
  <2>2. DocOK(y)
    BY ValueAdded, Zenon
  <2>3. value \in Containers => /\ Len(y.open) = Len(x.open) + 1
                                /\ ~ HasChild(y, y.open[Len(x.open) + 1])
    BY ValueAdded, ZenonT(40)
  <2> QED
    BY <2>1, <2>2, <2>3, Zenon
<1>4. v = IF w.depth >= MaxDepth THEN [q EXCEPT !.overflow = TRUE]
          ELSE [q EXCEPT !.depth = @ + 1, !.hasItems = @ \ {w.depth + 1}]
  BY Zenon DEF Open
<1> HIDE DEF q
<1>5. CASE w.depth >= MaxDepth
  <2>1. v = [q EXCEPT !.overflow = TRUE] /\ ~ (w.depth < MaxDepth)
    BY <1>2, <1>4, <1>5
  <2>2. v \in Writers /\ v.overflow /\ AlikeBut(q, v)
    BY <1>2, <2>1, OverflowSet
  <2> QED
    BY <1>1, <1>2, <2>1, <2>2, Zenon DEF AlikeBut, Opened
<1>6. CASE w.depth < MaxDepth
  <2> DEFINE d == q.depth + 1
             h == q.hasItems \ {w.depth + 1}
  <2>1. v = [q EXCEPT !.depth = d, !.hasItems = h]
    BY <1>2, <1>4, <1>6
  <2>2. d \in Nat /\ h \in SUBSET Nat
    BY <1>1, <1>2, WriterFields
  <2> HIDE DEF d, h
  <2>3. /\ v \in Writers /\ v.depth = d /\ v.hasItems = h
        /\ v.cap = q.cap /\ v.pos = q.pos /\ v.overflow = q.overflow /\ v.text = q.text
    <3>1. q \in Writers /\ v = SetTo(q, d, h)
      BY <1>2, <2>1 DEF SetTo
    <3> QED
      BY <2>2, <3>1, ItemsSet
  <2>4. Writes(y, v)
    BY <1>1, <2>3, WritesOn, Zenon
  <2>5. v.depth = Len(y.open)
    BY <1>1, <1>2, <1>3, <2>3 DEF d
  <2>6. \A k \in 1 .. Len(y.open) : k \in v.hasItems <=> HasChild(y, y.open[k])
    <3>1. \A k \in 1 .. Len(x.open) : k \in h /\ k < Len(y.open) /\ k \in 1 .. Len(y.open)
      BY <1>1, <1>2, <1>3 DEF h
    <3>2. Len(x.open) + 1 \notin h
      BY <1>2 DEF h
    <3>3. \A k \in 1 .. Len(y.open) : k \in 1 .. Len(x.open) \/ k = Len(x.open) + 1
      BY <1>2, <1>3
    <3>4. \A k \in 1 .. Len(y.open) : k < Len(y.open) => HasChild(y, y.open[k])
      BY <1>3, Zenon DEF DocOK
    <3> QED
      BY <1>3, <2>3, <3>1, <3>2, <3>3, <3>4, Zenon
  <2>7. ~ (w.depth >= MaxDepth)
    BY <1>2, <1>6
  <2> QED
    BY <1>1, <1>2, <2>3, <2>4, <2>5, <2>6, <2>7, Zenon DEF HasItems, Opened
<1> QED
  BY <1>2, <1>5, <1>6

(* end_object() and end_array() do. *)
LEMMA EndCalled ==
  ASSUME NEW x, NEW mark, NEW y, NEW w, DocOK(x), AddsEnd(x, mark, y), Writes(x, w),
         HasItems(x, w), NEW v, v = Close(w, mark)
  PROVE  DocOK(y) /\ Writes(y, v) /\ HasItems(y, v) /\ v.cap = w.cap
<1> DEFINE q == Put(w, mark)
           d == q.depth - 1
<1>1. Writes(y, q) /\ AlikeBut(w, q) /\ DocOK(y)
  BY PutFits, EndFits, Zenon DEF Extends
<1>2. Closed(x, y) /\ y.nodes = x.nodes /\ TreeOK(x)
  BY Zenon DEF AddsEnd, Closed, DocOK
<1>3. /\ Len(y.open) = Len(x.open) - 1 /\ Len(x.open) > 0
      /\ \A k \in 1 .. Len(y.open) : y.open[k] = x.open[k]
  BY <1>2, ClosedIs, Zenon
<1>4. w.depth = Len(x.open) /\ \A k \in 1 .. Len(x.open) : k \in w.hasItems <=> HasChild(x, x.open[k])
  BY Zenon DEF HasItems
<1>5. q \in Writers /\ q.depth \in Nat /\ q.depth = w.depth /\ q.hasItems = w.hasItems /\ q.cap = w.cap
  BY <1>1, WriterFields, Zenon DEF Writes, AlikeBut
<1>6. v = [q EXCEPT !.depth = IF @ > 0 THEN @ - 1 ELSE 0]
  BY Zenon DEF Close
<1> HIDE DEF q
<1>7. v = [q EXCEPT !.depth = d] /\ d \in Nat /\ d = Len(y.open)
  <2>1. q.depth > 0
    BY <1>3, <1>4, <1>5
  <2>2. v = [q EXCEPT !.depth = q.depth - 1]
    BY <1>6, <2>1
  <2> QED
    BY <1>3, <1>4, <1>5, <2>1, <2>2
<1> HIDE DEF d
<1>8. /\ v \in Writers /\ v.depth = d /\ v.hasItems = q.hasItems
      /\ v.cap = q.cap /\ v.pos = q.pos /\ v.overflow = q.overflow /\ v.text = q.text
  BY <1>5, <1>7, OnlyDepthSet
<1>9. Writes(y, v)
  BY <1>1, <1>8, WritesOn, Zenon
<1>10. \A k \in 1 .. Len(y.open) : k \in v.hasItems <=> HasChild(y, y.open[k])
  <2>1. \A k \in 1 .. Len(y.open) : k \in 1 .. Len(x.open)
    BY <1>3, <1>4, <1>5
  <2>2. \A i : HasChild(y, i) <=> HasChild(x, i)
    BY <1>2, Zenon DEF HasChild
  <2> QED
    BY <1>3, <1>4, <1>5, <1>8, <2>1, <2>2, Zenon
<1> QED
  BY <1>1, <1>5, <1>7, <1>8, <1>9, <1>10, Zenon DEF HasItems

(* A writer that has overflowed stays so. *)
Full(w, v) == v \in Writers /\ v.overflow /\ v.cap = w.cap

(* put() after an overflow, *)
LEMMA PutFull ==
  ASSUME NEW w \in Writers, w.overflow, NEW symbol
  PROVE  Full(w, Put(w, symbol)) /\ Put(w, symbol).depth = w.depth
<1>1. Put(w, symbol) = [w EXCEPT !.overflow = TRUE]
  BY Zenon DEF Put
<1> DEFINE v == Put(w, symbol)
<1> HIDE DEF v
<1>2. v \in Writers /\ v.overflow /\ AlikeBut(w, v)
  BY <1>1, OverflowSet DEF v
<1> QED
  BY <1>2, Zenon DEF Full, AlikeBut, v

(* a value, *)
LEMMA FullValue ==
  ASSUME NEW w \in Writers, w.overflow, NEW key, NEW value
  PROVE  Full(w, Put(BeginValue(w, key), value)) /\ Put(BeginValue(w, key), value).depth = w.depth
<1> DEFINE separated == IF w.depth > 0 /\ w.depth \in w.hasItems THEN Put(w, ",") ELSE w
           items == IF w.depth > 0 THEN separated.hasItems \cup {w.depth} ELSE separated.hasItems
           counted == [separated EXCEPT !.hasItems = items]
           v == BeginValue(w, key)
<1>1. Full(w, separated) /\ separated.depth = w.depth
  BY PutFull, Zenon DEF Full
<1> HIDE DEF separated
<1>2. separated \in Writers /\ items \in SUBSET Nat
  <2>1. separated \in Writers /\ w.depth \in Nat
    BY <1>1, WriterFields, Zenon DEF Full
  <2>2. separated.hasItems \in SUBSET Nat
    BY <2>1, WriterFields, Zenon
  <2> QED
    BY <2>1, <2>2
<1> HIDE DEF items
<1>3. Full(w, counted) /\ counted.depth = w.depth
  <2> DEFINE u == counted
  <2>1. u = [separated EXCEPT !.hasItems = items]
    OBVIOUS
  <2> HIDE DEF u
  <2>2. /\ u \in Writers /\ u.depth = separated.depth /\ u.cap = separated.cap
        /\ u.overflow = separated.overflow
    BY <1>2, <2>1, OnlyItemsSet
  <2>3. Full(w, u) /\ u.depth = w.depth
    BY <1>1, <2>2, Zenon DEF Full
  <2> QED
    BY <2>3 DEF u
<1>4. v = IF key = Unnamed THEN counted ELSE Put(Put(counted, key), ":")
  <2>1. counted = [separated EXCEPT !.hasItems = IF w.depth > 0 THEN @ \cup {w.depth} ELSE @]
    BY Zenon DEF items
  <2> HIDE DEF counted
  <2> QED
    BY <2>1, Zenon DEF BeginValue, separated
<1> HIDE DEF counted, v
<1>5. \A u, symbol : Full(w, u) /\ u.depth = w.depth =>
                       Full(w, Put(u, symbol)) /\ Put(u, symbol).depth = w.depth
  BY PutFull, Zenon DEF Full
<1>6. Full(w, v) /\ v.depth = w.depth
  BY <1>3, <1>4, <1>5, Zenon
<1> QED
  BY <1>5, <1>6, Zenon DEF v

(* and any call. *)
LEMMA FullCalled ==
  ASSUME NEW w \in Writers, w.overflow, NEW call, call.op \in {"begin", "end", "add"}
  PROVE  Full(w, Called(w, call))
<1> DEFINE q == Put(BeginValue(w, call.key), call.value)
<1>1. Full(w, q) /\ q.depth = w.depth
  BY FullValue, ZenonT(40)
<1>2. q \in Writers /\ q.overflow /\ q.cap = w.cap
  BY <1>1, Zenon DEF Full
<1>3. CASE call.op = "add"
  <2>1. Called(w, call) = q
    <3>1. call.op # "begin" /\ call.op # "end"
      BY <1>3, Zenon
    <3> QED
      BY <1>3, <3>1, Zenon DEF Called, AddValue
  <2> QED
    BY <1>1, <2>1, Zenon
<1>4. CASE call.op = "begin"
  <2> DEFINE v == Open(w, call.key, call.value)
  <2>1. Called(w, call) = v
    BY <1>4, Zenon DEF Called
  <2> HIDE DEF q
  <2>2. v = IF w.depth >= MaxDepth THEN [q EXCEPT !.overflow = TRUE]
            ELSE [q EXCEPT !.depth = @ + 1, !.hasItems = @ \ {w.depth + 1}]
    BY Zenon DEF Open, q
  <2> HIDE DEF v
  <2>3. CASE w.depth >= MaxDepth
    <3>1. v = [q EXCEPT !.overflow = TRUE]
      BY <2>2, <2>3, Zenon
    <3>2. v \in Writers /\ v.overflow /\ AlikeBut(q, v)
      BY <1>2, <3>1, OverflowSet
    <3> QED
      BY <1>2, <2>1, <3>2, Zenon DEF Full, AlikeBut
  <2>4. CASE ~ (w.depth >= MaxDepth)
    <3> DEFINE d == q.depth + 1
               h == q.hasItems \ {w.depth + 1}
    <3>1. v = SetTo(q, d, h)
      <4>1. v = [q EXCEPT !.depth = @ + 1, !.hasItems = @ \ {w.depth + 1}]
        BY <2>2, <2>4, Zenon
      <4> QED
        BY <4>1 DEF SetTo
    <3>2. d \in Nat /\ h \in SUBSET Nat
      <4>1. q.depth \in Nat /\ q.hasItems \in SUBSET Nat
        BY <1>2, WriterFields, Zenon
      <4> QED
        BY <4>1
    <3> HIDE DEF d, h
    <3>3. v \in Writers /\ v.cap = q.cap /\ v.overflow = q.overflow
      BY <1>2, <3>1, <3>2, ItemsSet
    <3> QED
      BY <1>2, <2>1, <3>3, Zenon DEF Full
  <2> QED
    BY <2>3, <2>4
<1>5. CASE call.op = "end"
  <2> DEFINE p == Put(w, call.value)
             v == Close(w, call.value)
             d == IF p.depth > 0 THEN p.depth - 1 ELSE 0
  <2>1. Called(w, call) = v
    <3>1. call.op # "begin"
      BY <1>5, Zenon
    <3> QED
      BY <1>5, <3>1, Zenon DEF Called
  <2>2. p \in Writers /\ p.overflow /\ p.cap = w.cap
    BY PutFull, Zenon DEF Full
  <2> HIDE DEF p
  <2>3. v = [p EXCEPT !.depth = d]
    <3>1. v = [p EXCEPT !.depth = IF @ > 0 THEN @ - 1 ELSE 0]
      BY Zenon DEF Close, p
    <3> QED
      BY <3>1
  <2>4. d \in Nat
    <3>1. p.depth \in Nat
      BY <2>2, WriterFields, Zenon
    <3> QED
      BY <3>1
  <2> HIDE DEF v, d
  <2>5. v \in Writers /\ v.cap = p.cap /\ v.overflow = p.overflow
    BY <2>2, <2>3, <2>4, OnlyDepthSet
  <2> QED
    BY <2>1, <2>2, <2>5, Zenon DEF Full
<1> QED
  BY <1>3, <1>4, <1>5

(***************************************************************************)
(* A call for both sides: what has been asked for, and the writer.         *)
(***************************************************************************)
AskedSet == [nodes : Seq(Nodes), open : Seq(Nat), deep : BOOLEAN]
AtValue(a) == [nodes |-> a.nodes, open |-> a.open, last |-> "value"]

MayBe(a, call) ==
  \/ /\ call.op = "end" /\ a.open # <<>>
     /\ call.value = (IF InsideOf(AtValue(a)) = "{" THEN "}" ELSE "]")
  \/ /\ call.op = "begin" /\ call.value \in Containers /\ MayName(AtValue(a), call.key)
     /\ a.nodes = <<>> => call.value = "{"
  \/ /\ call.op = "add" /\ call.value \in Strings \cup Primitives /\ a.nodes # <<>>
     /\ MayName(AtValue(a), call.key)

Image(a, w) ==
  /\ a \in AskedSet /\ DocOK(AtValue(a)) /\ w \in Writers
  /\ a.deep => w.overflow
  /\ ~ a.deep => Ready(AtValue(a), w)

(* What has been asked for, taken as a text. *)
LEMMA AtValueIs ==
  ASSUME NEW a
  PROVE  /\ AtValue(a).nodes = a.nodes /\ AtValue(a).open = a.open /\ AtValue(a).last = "value"
         /\ Innermost(AtValue(a)) = Innermost(a)
<1>1. AtValue(a).nodes = a.nodes /\ AtValue(a).open = a.open /\ AtValue(a).last = "value"
  BY DEF AtValue
<1> QED
  BY <1>1, Zenon DEF Innermost

(* What a call that adds a value or begins one asks for. *)
LEMMA AskValue ==
  ASSUME NEW a \in AskedSet, DocOK(AtValue(a)), NEW call, MayBe(a, call),
         call.op \in {"begin", "add"}
  PROVE  /\ Ask(a, call) \in AskedSet
         /\ Follows(AtValue(a), call.key, call.value, AtValue(Ask(a, call)))
         /\ Ask(a, call).deep <=> a.deep \/ (call.op = "begin" /\ Len(a.open) >= MaxDepth)
         /\ call.value \in Containers <=> call.op = "begin"
<1> DEFINE x == AtValue(a)
           b == Ask(a, call)
           y == AtValue(b)
           z == Named(x, call.key)
           named == [text |-> call.key, parent |-> Innermost(a)]
           keyed == IF call.key = Unnamed THEN a.nodes ELSE Append(a.nodes, named)
           parent == IF call.key = Unnamed THEN Innermost(a) ELSE Len(keyed)
           node == [text |-> call.value, parent |-> parent]
           open == IF call.op = "begin" THEN Append(a.open, Len(keyed) + 1) ELSE a.open
           deep == a.deep \/ (call.op = "begin" /\ Len(a.open) >= MaxDepth)
<1>1. x.nodes = a.nodes /\ x.open = a.open /\ x.last = "value" /\ Innermost(x) = Innermost(a)
  BY AtValueIs, Zenon
<1>2. /\ call.value \in Containers <=> call.op = "begin"
      /\ call.value \in Values /\ MayName(x, call.key)
      /\ a.nodes = <<>> => call.value = "{"
  <2>1. call.op # "end" /\ "begin" # "add"
    BY Zenon
  <2>2. \A s \in Strings \cup Primitives : s \notin Containers /\ s \in Values
    BY NotContainers, Zenon DEF Values
  <2>3. \A s \in Containers : s \in Values
    BY Zenon DEF Values
  <2> QED
    BY <2>1, <2>2, <2>3, Zenon DEF MayBe
<1>3. b = [nodes |-> Append(keyed, node), open |-> open, deep |-> deep]
  <2>1. call.op # "end"
    BY Zenon
  <2> QED
    BY <2>1 DEF Ask
<1>4. z.nodes = keyed /\ ParentOf(x, call.key) = parent
  <2>1. CASE call.key = Unnamed
    <3>1. z = Separated(x)
      BY <2>1, Zenon DEF Named
    <3>2. Separated(x).nodes = x.nodes
      BY DEF Separated
    <3> HIDE DEF x, z, named
    <3> QED
      BY <1>1, <2>1, <3>1, <3>2, Zenon DEF ParentOf
  <2>2. CASE call.key # Unnamed
    <3>1. z = Keyed(x, call.key, "colon")
      BY <2>2, Zenon DEF Named
    <3>2. Keyed(x, call.key, "colon").nodes = Append(x.nodes, [text |-> call.key, parent |-> Innermost(x)])
      BY DEF Keyed
    <3>3. z.nodes = keyed
      <4> HIDE DEF x, z
      <4> QED
        BY <1>1, <2>2, <3>1, <3>2, Zenon
    <3>4. ParentOf(x, call.key) = Len(z.nodes)
      BY <2>2, Zenon DEF ParentOf
    <3> HIDE DEF x, z, keyed
    <3> QED
      BY <2>2, <3>3, <3>4, Zenon
  <2> QED
    BY <2>1, <2>2
<1>5. /\ DocOK(z) /\ z.open = x.open /\ parent \in 0 .. Len(z.nodes)
      /\ z.nodes = <<>> => x.nodes = <<>>
  <2>1. /\ DocOK(z) /\ z.open = x.open /\ ParentOf(x, call.key) \in 0 .. Len(z.nodes)
        /\ z.nodes = <<>> => x.nodes = <<>>
    BY <1>1, <1>2, NamedIs, Zenon
  <2> HIDE DEF z, parent
  <2> QED
    BY <1>4, <2>1, Zenon
<1> HIDE DEF keyed, parent, open, deep
<1>6. b.nodes = Append(keyed, node) /\ b.open = open /\ b.deep = deep
  BY <1>3
<1> HIDE DEF b
<1>7. y.nodes = Append(keyed, node) /\ y.open = open /\ y.last = "value"
  BY <1>6, AtValueIs, Zenon
<1>8. Grown(z, y, call.value, parent)
  <2>1. open = IF call.value \in Containers THEN Append(z.open, Len(z.nodes) + 1) ELSE z.open
    <3> HIDE DEF x, z
    <3> QED
      BY <1>1, <1>2, <1>4, <1>5, Zenon DEF open
  <2> HIDE DEF x, y, z
  <2> QED
    BY <1>1, <1>2, <1>4, <1>5, <1>7, <2>1, Zenon DEF Grown
<1>9. Follows(x, call.key, call.value, y)
  <2> HIDE DEF x, y, z
  <2>1. Grown(z, y, call.value, ParentOf(x, call.key))
    BY <1>4, <1>8, Zenon
  <2>2. DocOK(x)
    BY DEF x
  <2> QED
    BY <1>1, <1>2, <1>7, <2>1, <2>2, Zenon DEF Follows, z
<1>10. b \in AskedSet
  <2>1. TreeOK(y)
    <3>1. TreeOK(z)
      BY <1>5, Zenon DEF DocOK
    <3> QED
      BY <1>8, <3>1, TreeGrows, Zenon
  <2>2. y.nodes \in Seq(Nodes) /\ y.open \in Seq(Nat)
    BY <2>1, Zenon DEF TreeOK
  <2>3. b.nodes \in Seq(Nodes) /\ b.open \in Seq(Nat)
    BY <1>6, <1>7, <2>2, Zenon
  <2>4. b.deep \in BOOLEAN
    <3>1. a.deep \in BOOLEAN
      BY DEF AskedSet
    <3> QED
      BY <1>6, <3>1 DEF deep
  <2>5. b = [nodes |-> b.nodes, open |-> b.open, deep |-> b.deep]
    <3>1. b = [nodes |-> Append(keyed, node), open |-> open, deep |-> deep]
      BY <1>3
    <3> QED
      BY <1>6, <3>1, Zenon
  <2> QED
    BY <2>3, <2>4, <2>5 DEF AskedSet
<1> QED
  BY <1>2, <1>6, <1>9, <1>10, Zenon DEF b, deep

(* What a call that ends one asks for. *)
LEMMA AskEnd ==
  ASSUME NEW a \in AskedSet, DocOK(AtValue(a)), NEW call, MayBe(a, call), call.op = "end"
  PROVE  /\ Ask(a, call) \in AskedSet /\ AddsEnd(AtValue(a), call.value, AtValue(Ask(a, call)))
         /\ Ask(a, call).deep = a.deep /\ Ask(a, call).nodes = a.nodes
         /\ Len(a.open) \in Nat /\ Len(Ask(a, call).open) = Len(a.open) - 1
         /\ \A k \in 1 .. Len(a.open) - 1 : Ask(a, call).open[k] = a.open[k]
<1> DEFINE x == AtValue(a)
           b == Ask(a, call)
           y == AtValue(b)
           open == SubSeq(a.open, 1, Len(a.open) - 1)
<1>1. x.nodes = a.nodes /\ x.open = a.open /\ x.last = "value"
  BY AtValueIs, Zenon
<1>2. a.open # <<>> /\ call.value = (IF InsideOf(x) = "{" THEN "}" ELSE "]")
  <2>1. "end" # "begin" /\ "end" # "add"
    BY Zenon
  <2> QED
    BY <2>1, Zenon DEF MayBe
<1>3. /\ a.nodes \in Seq(Nodes) /\ a.open \in Seq(Nat) /\ a.deep \in BOOLEAN
      /\ a = [f \in {"nodes", "open", "deep"} |-> a[f]]
  BY DEF AskedSet
<1>4. b = [a EXCEPT !.open = open]
  BY Zenon DEF Ask
<1>5. Len(a.open) \in Nat /\ Len(a.open) > 0
  <2>1. a.open \in Seq(Nat) /\ a.open # <<>>
    BY <1>2, <1>3
  <2> QED
    BY <2>1, EmptySeq
<1>6. /\ open \in Seq(Nat) /\ Len(open) = Len(a.open) - 1
      /\ \A k \in 1 .. Len(a.open) - 1 : open[k] = a.open[k]
  <2>1. a.open \in Seq(Nat)
    BY <1>3
  <2> QED
    BY <1>5, <2>1
<1> HIDE DEF open
<1>7. /\ b.nodes = a.nodes /\ b.open = open /\ b.deep = a.deep
      /\ b = [f \in {"nodes", "open", "deep"} |-> b[f]]
  BY <1>3, <1>4
<1> HIDE DEF b
<1>8. b \in AskedSet
  <2>1. b = [nodes |-> b.nodes, open |-> b.open, deep |-> b.deep]
    BY <1>7
  <2>2. b.nodes \in Seq(Nodes) /\ b.open \in Seq(Nat) /\ b.deep \in BOOLEAN
    BY <1>3, <1>6, <1>7, Zenon
  <2> QED
    BY <2>1, <2>2 DEF AskedSet
<1>9. y.nodes = a.nodes /\ y.open = open /\ y.last = "value"
  BY <1>7, AtValueIs, Zenon
<1> HIDE DEF x, y
<1>10. AddsEnd(x, call.value, y)
  BY <1>1, <1>2, <1>9, Zenon DEF AddsEnd, Closed, open
<1> QED
  BY <1>5, <1>6, <1>7, <1>8, <1>10, Zenon DEF b, x, y

(* Any call a correct caller may make keeps the writer right. *)
LEMMA CallFits ==
  ASSUME NEW a, NEW w, Image(a, w), NEW call, MayBe(a, call)
  PROVE  Image(Ask(a, call), Called(w, call)) /\ Called(w, call).cap = w.cap
<1> DEFINE x == AtValue(a)
           b == Ask(a, call)
           y == AtValue(b)
           v == Called(w, call)
<1>1. a \in AskedSet /\ DocOK(x) /\ w \in Writers /\ (a.deep => w.overflow)
  BY Zenon DEF Image
<1>2. ~ a.deep => Ready(x, w)
  BY Zenon DEF Image
<1>3. call.op \in {"begin", "end", "add"}
  BY Zenon DEF MayBe
<1>4. CASE call.op = "end"
  <2>1. b \in AskedSet /\ AddsEnd(x, call.value, y) /\ b.deep = a.deep
    BY <1>1, <1>4, AskEnd, Zenon
  <2>2. DocOK(y)
    BY <1>1, <2>1, EndFits, Zenon
  <2>3. CASE a.deep
    <3>1. Full(w, v)
      <4>1. w \in Writers /\ w.overflow
        BY <1>1, <2>3, Zenon
      <4> QED
        BY <1>3, <4>1, FullCalled
    <3> QED
      BY <2>1, <2>2, <2>3, <3>1, Zenon DEF Full, Image
  <2>4. CASE ~ a.deep
    <3>1. v = Close(w, call.value)
      <4>1. call.op # "begin"
        BY <1>4, Zenon
      <4> QED
        BY <1>4, <4>1, Zenon DEF Called
    <3>2. Writes(x, w) /\ HasItems(x, w)
      BY <1>2, <2>4, Zenon DEF Ready
    <3> HIDE DEF x, y, v
    <3>3. Writes(y, v) /\ HasItems(y, v) /\ v.cap = w.cap
      <4>1. DocOK(x) /\ AddsEnd(x, call.value, y)
        BY <1>1, <2>1, Zenon
      <4> QED
        BY <3>1, <3>2, <4>1, EndCalled
    <3> QED
      BY <2>1, <2>2, <2>4, <3>3, Zenon DEF Image, Ready, Writes, y, v
  <2> QED
    BY <2>3, <2>4
<1>5. CASE call.op # "end"
  <2>1. /\ b \in AskedSet /\ Follows(x, call.key, call.value, y)
        /\ b.deep <=> a.deep \/ (call.op = "begin" /\ Len(a.open) >= MaxDepth)
        /\ call.value \in Containers <=> call.op = "begin"
    <3>1. call.op \in {"begin", "add"}
      BY <1>3, <1>5, Zenon
    <3>2. b \in AskedSet /\ Follows(x, call.key, call.value, y)
      BY <1>1, <3>1, AskValue, Zenon
    <3>3. b.deep <=> a.deep \/ (call.op = "begin" /\ Len(a.open) >= MaxDepth)
      BY <1>1, <3>1, AskValue, Zenon
    <3>4. call.value \in Containers <=> call.op = "begin"
      BY <1>1, <3>1, AskValue, Zenon
    <3> QED
      BY <3>2, <3>3, <3>4
  <2>2. DocOK(y)
    BY <2>1, ValueAdded, Zenon
  <2>3. CASE a.deep
    <3>1. Full(w, v)
      <4>1. w \in Writers /\ w.overflow
        BY <1>1, <2>3, Zenon
      <4> QED
        BY <1>3, <4>1, FullCalled
    <3> QED
      BY <2>1, <2>2, <2>3, <3>1, Zenon DEF Full, Image
  <2>4. CASE ~ a.deep /\ call.op = "add"
    <3>1. v = AddValue(w, call.key, call.value)
      <4>1. call.op # "begin" /\ call.op # "end"
        BY <2>4, Zenon
      <4> QED
        BY <2>4, <4>1, Zenon DEF Called
    <3>2. call.value \notin Containers /\ ~ b.deep
      <4>1. call.op # "begin"
        BY <2>4, Zenon
      <4> QED
        BY <2>1, <2>4, <4>1, Zenon
    <3>3. Ready(x, w)
      BY <1>2, <2>4, Zenon
    <3> HIDE DEF x, y, v
    <3>4. Writes(y, v) /\ HasItems(y, v) /\ v.cap = w.cap
      <4>1. Follows(x, call.key, call.value, y) /\ call.value \notin Containers
        BY <2>1, <3>2, Zenon
      <4> QED
        BY <3>1, <3>3, <4>1, LeafCalled
    <3> QED
      BY <2>1, <2>2, <3>2, <3>4, Zenon DEF Image, Ready, Writes, y, v
  <2>5. CASE ~ a.deep /\ call.op = "begin"
    <3>1. v = Open(w, call.key, call.value)
      BY <2>5, Zenon DEF Called
    <3>2. call.value \in Containers /\ (b.deep <=> Len(a.open) >= MaxDepth)
      BY <2>1, <2>5, Zenon
    <3>3. Ready(x, w) /\ x.open = a.open
      BY <1>2, <2>5, AtValueIs, Zenon
    <3> HIDE DEF x, y, v
    <3>10. Follows(x, call.key, call.value, y) /\ call.value \in Containers /\ Ready(x, w)
      BY <2>1, <3>2, <3>3, Zenon
    <3>11. Opened(x, y, w, v)
      BY <3>1, <3>10, ContainerCalled
    <3>4. v.cap = w.cap /\ w.depth = Len(x.open)
      BY <3>11, Zenon DEF Opened
    <3>5. w.depth < MaxDepth => Writes(y, v) /\ HasItems(y, v)
      BY <3>11, Zenon DEF Opened
    <3>6. w.depth >= MaxDepth => v \in Writers /\ v.overflow
      BY <3>11, Zenon DEF Opened
    <3>7. ~ (w.depth >= MaxDepth) => w.depth < MaxDepth
      <4>1. w.depth \in Nat /\ MaxDepth \in Nat
        BY <1>1, WriterFields, WriterAssumption, Zenon
      <4> QED
        BY <4>1
    <3>8. CASE w.depth >= MaxDepth
      <4>1. b.deep
        BY <3>2, <3>3, <3>4, <3>8, Zenon
      <4> QED
        BY <2>1, <2>2, <3>4, <3>6, <3>8, <4>1, Zenon DEF Image, y, v
    <3>9. CASE ~ (w.depth >= MaxDepth)
      <4>1. ~ b.deep
        BY <3>2, <3>3, <3>4, <3>9, Zenon
      <4> QED
        BY <2>1, <2>2, <3>4, <3>5, <3>7, <3>9, <4>1, Zenon DEF Image, Ready, Writes, y, v
    <3> QED
      BY <3>8, <3>9
  <2> QED
    BY <1>3, <1>5, <2>3, <2>4, <2>5, Zenon
<1> QED
  BY <1>4, <1>5

(***************************************************************************)
(* Calls in a row.  The first k containers are objects that stay open.     *)
(***************************************************************************)
Base(a, k) ==
  /\ a.nodes # <<>> /\ Len(a.open) >= k
  /\ \A j \in 1 .. k : a.nodes[a.open[j]].text = "{"
At(a, k) == Len(a.open) = k /\ Base(a, k)

(* The parts of what has been asked for. *)
LEMMA AskedIs ==
  ASSUME NEW a \in AskedSet, DocOK(AtValue(a))
  PROVE  /\ a.nodes \in Seq(Nodes) /\ a.open \in Seq(Nat) /\ TreeOK(a)
         /\ Len(a.nodes) \in Nat /\ Len(a.open) \in Nat
         /\ \A j \in 1 .. Len(a.open) : a.open[j] \in 1 .. Len(a.nodes)
<1>1. a.nodes \in Seq(Nodes) /\ a.open \in Seq(Nat)
  BY DEF AskedSet
<1>2. AtValue(a).nodes = a.nodes /\ AtValue(a).open = a.open
  BY AtValueIs, Zenon
<1>3. TreeOK(a)
  <2>1. TreeOK(AtValue(a))
    BY Zenon DEF DocOK
  <2> QED
    BY <1>2, <2>1, Zenon DEF TreeOK
<1> QED
  BY <1>1, <1>3, Zenon, NodesAre DEF TreeOK

(* A call that adds or begins leaves the nodes and containers there are. *)
LEMMA AskKeeps ==
  ASSUME NEW a \in AskedSet, DocOK(AtValue(a)), NEW call, MayBe(a, call),
         call.op \in {"begin", "add"}
  PROVE  /\ Ask(a, call).nodes # <<>>
         /\ \A i \in 1 .. Len(a.nodes) : Ask(a, call).nodes[i] = a.nodes[i]
         /\ \A j \in 1 .. Len(a.open) : Ask(a, call).open[j] = a.open[j]
         /\ call.op = "add" => Len(Ask(a, call).open) = Len(a.open)
         /\ call.op = "begin" =>
              /\ Len(Ask(a, call).open) = Len(a.open) + 1
              /\ Ask(a, call).nodes[Ask(a, call).open[Len(a.open) + 1]].text = call.value
<1> DEFINE x == AtValue(a)
           b == Ask(a, call)
           y == AtValue(b)
           z == Named(x, call.key)
           parent == ParentOf(x, call.key)
<1>1. Follows(x, call.key, call.value, y)
  BY AskValue, Zenon
<1>2. call.value \in Containers <=> call.op = "begin"
  BY AskValue, Zenon
<1>3. /\ x.nodes = a.nodes /\ x.open = a.open /\ y.nodes = b.nodes /\ y.open = b.open
  BY AtValueIs, Zenon
<1> HIDE DEF x, y, b
<1>4. DocOK(x) /\ x.last = "value" /\ MayName(x, call.key) /\ Grown(z, y, call.value, parent)
  BY <1>1, FollowsIs, Zenon
<1>5. DocOK(z) /\ z.open = x.open
  BY <1>4, NamedIs, Zenon
<1>6. Len(x.nodes) \in Nat /\ x.nodes \in Seq(Nodes) /\ TreeOK(z)
  BY <1>4, <1>5, NodesAre DEF DocOK, TreeOK
<1>7. /\ Len(z.nodes) >= Len(x.nodes) /\ Len(z.nodes) \in Nat
      /\ \A i \in 1 .. Len(x.nodes) : z.nodes[i] = x.nodes[i]
  <2>1. CASE call.key = Unnamed
    <3>1. z.nodes = x.nodes
      <4>1. z = Separated(x)
        BY <2>1, Zenon DEF Named
      <4>2. Separated(x).nodes = x.nodes
        BY DEF Separated
      <4> HIDE DEF z
      <4> QED
        BY <4>1, <4>2
    <3> HIDE DEF z
    <3> QED
      BY <1>6, <3>1
  <2>2. CASE call.key # Unnamed
    <3> DEFINE node == [text |-> call.key, parent |-> Innermost(x)]
    <3>1. z.nodes = Append(x.nodes, node)
      <4>1. z = Keyed(x, call.key, "colon")
        BY <2>2, Zenon DEF Named
      <4>2. Keyed(x, call.key, "colon").nodes = Append(x.nodes, node)
        BY DEF Keyed
      <4> HIDE DEF z
      <4> QED
        BY <4>1, <4>2, Zenon
    <3> HIDE DEF z, node
    <3> QED
      BY <1>6, <3>1
  <2> QED
    BY <2>1, <2>2
<1> HIDE DEF z, parent
<1>8. /\ Len(y.nodes) = Len(z.nodes) + 1
      /\ \A i \in 1 .. Len(z.nodes) : y.nodes[i] = z.nodes[i]
      /\ \A j \in 1 .. Len(z.open) : y.open[j] = z.open[j]
      /\ call.value \in Containers => /\ Len(y.open) = Len(z.open) + 1
                                      /\ y.open[Len(z.open) + 1] = Len(z.nodes) + 1
      /\ call.value \notin Containers => y.open = z.open
      /\ y.nodes[Len(z.nodes) + 1] = [text |-> call.value, parent |-> parent]
  BY <1>4, <1>6, GrownIs
<1>9. y.nodes # <<>>
  <2>1. y.nodes = <<>> => Len(y.nodes) = 0
    OBVIOUS
  <2>2. Len(y.nodes) # 0
    BY <1>7, <1>8
  <2> QED
    BY <2>1, <2>2
<1>10. \A i \in 1 .. Len(x.nodes) : y.nodes[i] = x.nodes[i]
  <2>1. \A i \in 1 .. Len(x.nodes) : i \in 1 .. Len(z.nodes)
    BY <1>6, <1>7
  <2> QED
    BY <1>7, <1>8, <2>1, Zenon
<1>11. y.nodes[Len(z.nodes) + 1].text = call.value
  <2> DEFINE node == [text |-> call.value, parent |-> parent]
  <2>1. node.text = call.value
    OBVIOUS
  <2> HIDE DEF node
  <2>2. y.nodes[Len(z.nodes) + 1] = node
    BY <1>8 DEF node
  <2> QED
    BY <2>1, <2>2, Zenon
<1>12. call.op = "add" => call.value \notin Containers
  <2>1. call.op = "add" => call.op # "begin"
    BY Zenon
  <2> QED
    BY <1>2, <2>1, Zenon
<1> QED
  BY <1>2, <1>3, <1>5, <1>8, <1>9, <1>10, <1>11, <1>12, ZenonT(40) DEF b

(* The objects at the bottom stay what they are. *)
LEMMA BaseKept ==
  ASSUME NEW a \in AskedSet, DocOK(AtValue(a)), NEW k \in Nat, Base(a, k), NEW call, MayBe(a, call),
         call.op = "end" => Len(a.open) > k
  PROVE  Base(Ask(a, call), k)
<1> DEFINE b == Ask(a, call)
<1>1. /\ Len(a.open) \in Nat
      /\ \A j \in 1 .. Len(a.open) : a.open[j] \in 1 .. Len(a.nodes)
  BY AskedIs, Zenon
<1>2. /\ a.nodes # <<>> /\ Len(a.open) >= k
      /\ \A j \in 1 .. k : a.nodes[a.open[j]].text = "{"
  BY Zenon DEF Base
<1>3. CASE call.op = "end"
  <2>1. /\ b.nodes = a.nodes /\ Len(b.open) = Len(a.open) - 1
        /\ \A j \in 1 .. Len(a.open) - 1 : b.open[j] = a.open[j]
    BY <1>3, AskEnd, Zenon
  <2> HIDE DEF b
  <2>2. Len(b.open) >= k /\ \A j \in 1 .. k : j \in 1 .. Len(a.open) - 1
    BY <1>1, <1>3, <2>1
  <2> QED
    BY <1>2, <2>1, <2>2, Zenon DEF Base, b
<1>4. CASE call.op # "end"
  <2>1. call.op \in {"begin", "add"}
    BY <1>4, Zenon DEF MayBe
  <2>2. /\ b.nodes # <<>>
        /\ \A i \in 1 .. Len(a.nodes) : b.nodes[i] = a.nodes[i]
        /\ \A j \in 1 .. Len(a.open) : b.open[j] = a.open[j]
    BY <2>1, AskKeeps, Zenon
  <2>3. Len(b.open) = Len(a.open) \/ Len(b.open) = Len(a.open) + 1
    BY <2>1, AskKeeps, Zenon
  <2> HIDE DEF b
  <2>4. Len(b.open) >= k /\ \A j \in 1 .. k : j \in 1 .. Len(a.open)
    <3>1. Len(a.open) >= k
      BY <1>2
    <3> QED
      BY <1>1, <2>3, <3>1
  <2>5. \A j \in 1 .. k : b.nodes[b.open[j]] = a.nodes[a.open[j]]
    BY <1>1, <2>2, <2>4, Zenon
  <2> QED
    BY <1>2, <2>2, <2>4, <2>5, Zenon DEF Base, b
<1> QED
  BY <1>3, <1>4

CallSet == [op : {"begin", "end", "add"}, key : Strings \cup {Unnamed}, value : Symbols]
Goes(calls, k, l) ==
  \A a, w : Image(a, w) /\ At(a, k) =>
    /\ Image(AskAll(a, calls), WriteAll(w, calls)) /\ At(AskAll(a, calls), l)
    /\ WriteAll(w, calls).cap = w.cap

(* No calls go nowhere. *)
LEMMA GoesNothing ==
  ASSUME NEW k
  PROVE  Goes(<<>>, k, k)
BY AskAllNothing, WriteAllNothing, Zenon DEF Goes

(* One call more. *)
LEMMA GoesOn ==
  ASSUME NEW calls \in Seq(CallSet), NEW call, NEW k, NEW l, NEW m, Goes(calls, k, l),
         \A a, w : Image(a, w) /\ At(a, l) => MayBe(a, call) /\ At(Ask(a, call), m)
  PROVE  Goes(Append(calls, call), k, m)
<1> DEFINE more == Append(calls, call)
<1>1. \A a : AskAll(a, more) = Ask(AskAll(a, calls), call)
  BY AskAllGrows
<1>2. \A w : WriteAll(w, more) = Called(WriteAll(w, calls), call)
  BY WriteAllGrows
<1> HIDE DEF more
<1>3. ASSUME NEW a, NEW w, Image(a, w), At(a, k)
      PROVE  /\ Image(AskAll(a, more), WriteAll(w, more)) /\ At(AskAll(a, more), m)
             /\ WriteAll(w, more).cap = w.cap
  <2> DEFINE b == AskAll(a, calls)
             v == WriteAll(w, calls)
  <2>1. Image(b, v) /\ At(b, l) /\ v.cap = w.cap
    BY <1>3, Zenon DEF Goes
  <2> HIDE DEF b, v
  <2>2. MayBe(b, call) /\ At(Ask(b, call), m)
    BY <2>1, Zenon
  <2>3. Image(Ask(b, call), Called(v, call)) /\ Called(v, call).cap = v.cap
    BY <2>1, <2>2, CallFits, Zenon
  <2> QED
    BY <1>1, <1>2, <2>1, <2>2, <2>3, Zenon DEF b, v
<1> QED
  BY <1>3, Zenon DEF Goes, more

(* The fields of the calls. *)
LEMMA CallsAre ==
  ASSUME NEW key, NEW value
  PROVE  /\ Adds(key, value).op = "add" /\ Adds(key, value).key = key
         /\ Adds(key, value).value = value
         /\ Begins(key, value).op = "begin" /\ Begins(key, value).key = key
         /\ Begins(key, value).value = value
         /\ Ends(value).op = "end" /\ Ends(value).value = value
BY DEF Adds, Begins, Ends

(* With k objects open and nothing else, the innermost is an object. *)
LEMMA InsideBase ==
  ASSUME NEW a, NEW w, Image(a, w), NEW k \in Nat \ {0}, At(a, k)
  PROVE  /\ a \in AskedSet /\ DocOK(AtValue(a)) /\ a.open # <<>> /\ a.nodes # <<>>
         /\ AtValue(a).open = a.open /\ InsideOf(AtValue(a)) = "{" /\ Len(a.open) = k /\ Base(a, k)
<1>1. a \in AskedSet /\ DocOK(AtValue(a))
  BY Zenon DEF Image
<1>2. Len(a.open) = k /\ Base(a, k) /\ a.nodes # <<>>
  BY Zenon DEF At, Base
<1>3. a.open # <<>>
  <2>1. a.open = <<>> => Len(a.open) = 0
    OBVIOUS
  <2> QED
    BY <1>2, <2>1
<1>4. /\ AtValue(a).nodes = a.nodes /\ AtValue(a).open = a.open
      /\ Innermost(AtValue(a)) = Innermost(a)
  BY AtValueIs, Zenon
<1>5. a.nodes[a.open[k]].text = "{"
  <2>1. k \in 1 .. k
    OBVIOUS
  <2> QED
    BY <1>2, <2>1, Zenon DEF Base
<1>6. InsideOf(AtValue(a)) = "{"
  BY <1>2, <1>3, <1>4, <1>5, Zenon DEF InsideOf, Innermost
<1> QED
  BY <1>1, <1>2, <1>3, <1>4, <1>6, Zenon

(* One more call that adds a member, *)
LEMMA GoesAdds ==
  ASSUME NEW calls \in Seq(CallSet), NEW k, NEW l \in Nat \ {0}, Goes(calls, k, l),
         NEW key \in Strings \ {Unnamed}, NEW value \in Strings \cup Primitives
  PROVE  Goes(Append(calls, Adds(key, value)), k, l)
<1> DEFINE call == Adds(key, value)
<1>1. call.op = "add" /\ call.key = key /\ call.value = value /\ call.op # "end"
  <2>1. call.op = "add" /\ call.key = key /\ call.value = value
    BY CallsAre
  <2> HIDE DEF call
  <2> QED
    BY <2>1, Zenon
<1> HIDE DEF call
<1>2. ASSUME NEW a, NEW w, Image(a, w), At(a, l) PROVE MayBe(a, call) /\ At(Ask(a, call), l)
  <2>1. /\ a \in AskedSet /\ DocOK(AtValue(a)) /\ a.open # <<>> /\ a.nodes # <<>>
        /\ AtValue(a).open = a.open /\ InsideOf(AtValue(a)) = "{" /\ Len(a.open) = l /\ Base(a, l)
    BY <1>2, InsideBase, Zenon
  <2>2. MayBe(a, call)
    BY <1>1, <2>1, Zenon DEF MayBe, MayName
  <2>3. Base(Ask(a, call), l)
    BY <1>1, <2>1, <2>2, BaseKept
  <2>4. Len(Ask(a, call).open) = l
    <3>1. call.op \in {"begin", "add"}
      BY <1>1, Zenon
    <3>2. Len(Ask(a, call).open) = Len(a.open)
      BY <1>1, <2>1, <2>2, <3>1, AskKeeps, Zenon
    <3> QED
      BY <2>1, <3>2, Zenon
  <2> QED
    BY <2>2, <2>3, <2>4, Zenon DEF At
<1> QED
  BY <1>2, GoesOn, Zenon DEF call

(* that begins a member, *)
LEMMA GoesBegins ==
  ASSUME NEW calls \in Seq(CallSet), NEW k, NEW l \in Nat \ {0}, Goes(calls, k, l),
         NEW key \in Strings \ {Unnamed}
  PROVE  Goes(Append(calls, Begins(key, "{")), k, l + 1)
<1> DEFINE call == Begins(key, "{")
<1>1. call.op = "begin" /\ call.key = key /\ call.value = "{" /\ call.op # "end" /\ call.value \in Containers
  <2>1. call.op = "begin" /\ call.key = key /\ call.value = "{"
    BY DEF Begins
  <2> HIDE DEF call
  <2> QED
    BY <2>1, Zenon DEF Containers
<1> HIDE DEF call
<1>2. ASSUME NEW a, NEW w, Image(a, w), At(a, l) PROVE MayBe(a, call) /\ At(Ask(a, call), l + 1)
  <2> DEFINE b == Ask(a, call)
  <2>1. /\ a \in AskedSet /\ DocOK(AtValue(a)) /\ a.open # <<>> /\ a.nodes # <<>>
        /\ AtValue(a).open = a.open /\ InsideOf(AtValue(a)) = "{" /\ Len(a.open) = l /\ Base(a, l)
    BY <1>2, InsideBase, Zenon
  <2>2. MayBe(a, call)
    BY <1>1, <2>1, Zenon DEF MayBe, MayName
  <2>3. Base(b, l)
    BY <1>1, <2>1, <2>2, BaseKept
  <2>4. Len(b.open) = l + 1 /\ b.nodes[b.open[l + 1]].text = "{"
    <3>1. call.op \in {"begin", "add"}
      BY <1>1, Zenon
    <3>2. /\ Len(b.open) = Len(a.open) + 1
          /\ b.nodes[b.open[Len(a.open) + 1]].text = call.value
      BY <1>1, <2>1, <2>2, <3>1, AskKeeps, Zenon
    <3> QED
      BY <1>1, <2>1, <3>2, Zenon
  <2> HIDE DEF b
  <2>5. \A j \in 1 .. l + 1 : j \in 1 .. l \/ j = l + 1
    OBVIOUS
  <2>6. b.nodes # <<>> /\ \A j \in 1 .. l + 1 : b.nodes[b.open[j]].text = "{"
    BY <2>3, <2>4, <2>5, Zenon DEF Base
  <2>7. Len(b.open) >= l + 1
    <3>1. Len(b.open) = l + 1
      BY <2>4
    <3> QED
      BY <3>1
  <2> QED
    BY <2>2, <2>4, <2>6, <2>7, Zenon DEF At, Base, b
<1> QED
  BY <1>2, GoesOn, Zenon DEF call

(* or that ends an object. *)
LEMMA GoesEnds ==
  ASSUME NEW calls \in Seq(CallSet), NEW k, NEW l \in Nat, Goes(calls, k, l + 1)
  PROVE  Goes(Append(calls, Ends("}")), k, l)
<1> DEFINE call == Ends("}")
<1>1. call.op = "end" /\ call.value = "}"
  BY CallsAre, Zenon
<1> HIDE DEF call
<1>2. ASSUME NEW a, NEW w, Image(a, w), At(a, l + 1) PROVE MayBe(a, call) /\ At(Ask(a, call), l)
  <2> DEFINE b == Ask(a, call)
  <2>1. /\ a \in AskedSet /\ DocOK(AtValue(a)) /\ a.open # <<>> /\ a.nodes # <<>>
        /\ InsideOf(AtValue(a)) = "{" /\ Len(a.open) = l + 1 /\ Base(a, l + 1)
    <3>1. l + 1 \in Nat \ {0}
      OBVIOUS
    <3> QED
      BY <1>2, <3>1, InsideBase, Zenon
  <2>2. MayBe(a, call)
    BY <1>1, <2>1, Zenon DEF MayBe
  <2>3. Base(a, l) /\ Len(a.open) > l
    <3>1. \A j \in 1 .. l : j \in 1 .. l + 1
      OBVIOUS
    <3>2. Len(a.open) >= l /\ Len(a.open) > l
      <4>1. Len(a.open) = l + 1
        BY <2>1
      <4> QED
        BY <4>1
    <3> QED
      BY <2>1, <3>1, <3>2, Zenon DEF Base
  <2>4. Base(b, l)
    BY <2>1, <2>2, <2>3, BaseKept
  <2>5. Len(b.open) = Len(a.open) - 1
    BY <1>1, <2>1, <2>2, AskEnd, Zenon
  <2> HIDE DEF b
  <2>6. Len(b.open) = l
    <3>1. Len(a.open) = l + 1
      BY <2>1
    <3> QED
      BY <2>5, <3>1
  <2> QED
    BY <2>2, <2>4, <2>6, Zenon DEF At, b
<1> QED
  BY <1>2, GoesOn, Zenon DEF call

(* Calls, and then calls. *)
LEMMA CallsJoin ==
  ASSUME NEW S, NEW c \in Seq(S)
  PROVE  \A d \in Seq(S) : /\ c \o d \in Seq(S)
                           /\ \A w : WriteAll(w, c \o d) = WriteAll(WriteAll(w, c), d)
                           /\ \A a : AskAll(a, c \o d) = AskAll(AskAll(a, c), d)
<1> DEFINE Joined(d) == /\ \A w : WriteAll(w, c \o d) = WriteAll(WriteAll(w, c), d)
                        /\ \A a : AskAll(a, c \o d) = AskAll(AskAll(a, c), d)
           good == {n \in Nat : \A d \in Seq(S) : Len(d) = n => Joined(d)}
<1>1. 0 \in good
  <2>1. ASSUME NEW d \in Seq(S), Len(d) = 0 PROVE Joined(d)
    <3>1. d = <<>> /\ c \o d = c
      BY <2>1
    <3> QED
      BY <3>1, WriteAllNothing, AskAllNothing, Zenon
  <2> QED
    BY <2>1
<1>2. ASSUME NEW n \in Nat, n \in good PROVE n + 1 \in good
  <2>1. ASSUME NEW d \in Seq(S), Len(d) = n + 1 PROVE Joined(d)
    <3> DEFINE e == SubSeq(d, 1, n)
               x == d[n + 1]
    <3>1. e \in Seq(S) /\ Len(e) = n /\ d = Append(e, x) /\ c \o d = Append(c \o e, x)
      <4>1. e \in Seq(S) /\ Len(e) = n /\ x \in S
        BY <2>1
      <4>2. d = Append(e, x)
        BY <2>1, <4>1
      <4> HIDE DEF e, x
      <4> QED
        BY <4>1, <4>2
    <3> HIDE DEF e, x
    <3>2. Joined(e)
      BY <1>2, <3>1, Zenon
    <3>3. c \o e \in Seq(S)
      BY <3>1
    <3>4. e \in Seq(S)
      BY <3>1, Zenon
    <3>5. \A w : WriteAll(w, Append(c \o e, x)) = Called(WriteAll(w, c \o e), x)
      BY <3>3, WriteAllGrows
    <3>6. \A w : WriteAll(w, Append(e, x)) = Called(WriteAll(w, e), x)
      BY <3>4, WriteAllGrows
    <3>7. \A a : AskAll(a, Append(c \o e, x)) = Ask(AskAll(a, c \o e), x)
      BY <3>3, AskAllGrows
    <3>8. \A a : AskAll(a, Append(e, x)) = Ask(AskAll(a, e), x)
      BY <3>4, AskAllGrows
    <3> QED
      BY <3>1, <3>2, <3>5, <3>6, <3>7, <3>8, Zenon
  <2> QED
    BY <2>1
<1> HIDE DEF good
<1>3. \A n \in Nat : n \in good
  BY <1>1, <1>2, Upward, Zenon
<1> SUFFICES ASSUME NEW d \in Seq(S) PROVE c \o d \in Seq(S) /\ Joined(d)
  BY Zenon
<1>4. Len(d) \in Nat /\ c \o d \in Seq(S)
  OBVIOUS
<1> QED
  BY <1>3, <1>4, Zenon DEF good

(* From the first call on. *)
Starts(calls, k) ==
  \A cap \in Nat :
    /\ Image(AskAll(NothingAsked, calls), WriteAll(NewWriter(cap), calls))
    /\ At(AskAll(NothingAsked, calls), k)
    /\ WriteAll(NewWriter(cap), calls).cap = cap

(* More calls after the first. *)
LEMMA StartsMore ==
  ASSUME NEW S, NEW c \in Seq(S), NEW d \in Seq(S), NEW k, NEW l, Starts(c, k), Goes(d, k, l)
  PROVE  Starts(c \o d, l)
<1>1. ASSUME NEW cap \in Nat
      PROVE  /\ Image(AskAll(NothingAsked, c \o d), WriteAll(NewWriter(cap), c \o d))
             /\ At(AskAll(NothingAsked, c \o d), l)
             /\ WriteAll(NewWriter(cap), c \o d).cap = cap
  <2>1. /\ Image(AskAll(NothingAsked, c), WriteAll(NewWriter(cap), c))
        /\ At(AskAll(NothingAsked, c), k)
        /\ WriteAll(NewWriter(cap), c).cap = cap
    BY <1>1, Zenon DEF Starts
  <2>2. /\ Image(AskAll(AskAll(NothingAsked, c), d), WriteAll(WriteAll(NewWriter(cap), c), d))
        /\ At(AskAll(AskAll(NothingAsked, c), d), l)
        /\ WriteAll(WriteAll(NewWriter(cap), c), d).cap = WriteAll(NewWriter(cap), c).cap
    BY <2>1, Zenon DEF Goes
  <2> QED
    BY <2>1, <2>2, CallsJoin, ZenonT(40)
<1> QED
  BY <1>1, Zenon DEF Starts

(* A new writer holds nothing, which is what has been asked for. *)
LEMMA NothingIsAsked ==
  ASSUME NEW cap \in Nat
  PROVE  /\ Image(NothingAsked, NewWriter(cap)) /\ NewWriter(cap).cap = cap
         /\ NothingAsked.nodes = <<>> /\ NothingAsked.open = <<>>
<1> DEFINE x == AtValue(NothingAsked)
           w == NewWriter(cap)
<1>1. NothingAsked.nodes = <<>> /\ NothingAsked.open = <<>> /\ ~ NothingAsked.deep
  BY DEF NothingAsked
<1>2. NothingAsked \in AskedSet
  <2>1. <<>> \in Seq(Nodes) /\ <<>> \in Seq(Nat)
    OBVIOUS
  <2> QED
    BY <2>1 DEF NothingAsked, AskedSet
<1>3. x.nodes = <<>> /\ x.open = <<>> /\ x.last = "value"
  BY <1>1, AtValueIs, Zenon
<1>4. /\ w.cap = cap /\ w.pos = 0 /\ w.depth = 0 /\ w.hasItems = {} /\ w.overflow = (cap < 1)
      /\ w.text = <<>>
  BY DEF NewWriter
<1>5. w \in Writers
  <2>1. <<>> \in Seq(Symbols) /\ (cap < 1) \in BOOLEAN
    OBVIOUS
  <2> QED
    BY <2>1 DEF NewWriter, Writers
<1> HIDE DEF x, w
<1>6. DocOK(x) /\ Reads(x, <<>>) /\ Bound(x) = 0
  BY <1>3, ReadsNothing, Zenon
<1>7. Writes(x, w)
  <2>0. w.cap = cap /\ w.pos = 0 /\ (w.overflow <=> cap < 1)
    BY <1>4, Zenon
  <2>1. ~ w.overflow => w.pos < w.cap
    BY <2>0
  <2>2. w.overflow => 0 >= w.cap
    BY <2>0
  <2> QED
    BY <1>4, <1>5, <1>6, <2>1, <2>2, Zenon DEF Writes
<1>8. HasItems(x, w)
  <2>1. Len(x.open) = 0 /\ 1 .. Len(x.open) = {}
    BY <1>3
  <2> QED
    BY <1>4, <2>1 DEF HasItems
<1> QED
  BY <1>1, <1>2, <1>4, <1>5, <1>6, <1>7, <1>8, Zenon DEF Image, Ready, x, w

(* The object of the message. *)
LEMMA StartsFirst == Starts(<<Begins(Unnamed, "{")>>, 1)
<1> DEFINE call == Begins(Unnamed, "{")
           calls == <<call>>
<1>1. call.op = "begin" /\ call.key = Unnamed /\ call.value = "{"
  BY DEF Begins
<1> HIDE DEF call
<1>2. calls = Append(<<>>, call) /\ <<>> \in Seq({})
  OBVIOUS
<1> HIDE DEF calls
<1>3. ASSUME NEW cap \in Nat
      PROVE  /\ Image(AskAll(NothingAsked, calls), WriteAll(NewWriter(cap), calls))
             /\ At(AskAll(NothingAsked, calls), 1)
             /\ WriteAll(NewWriter(cap), calls).cap = cap
  <2> DEFINE a == NothingAsked
             w == NewWriter(cap)
             b == Ask(a, call)
  <2>1. Image(a, w) /\ w.cap = cap /\ a.nodes = <<>> /\ a.open = <<>>
    BY NothingIsAsked, Zenon
  <2>2. AskAll(a, calls) = b
    <3>1. AskAll(a, Append(<<>>, call)) = Ask(AskAll(a, <<>>), call)
      BY <1>2, AskAllGrows
    <3> QED
      BY <1>2, <3>1, AskAllNothing, Zenon
  <2>3. WriteAll(w, calls) = Called(w, call)
    <3>1. WriteAll(w, Append(<<>>, call)) = Called(WriteAll(w, <<>>), call)
      BY <1>2, WriteAllGrows
    <3> QED
      BY <1>2, <3>1, WriteAllNothing, Zenon
  <2> HIDE DEF a, w
  <2>4. a \in AskedSet /\ DocOK(AtValue(a))
    BY <2>1, Zenon DEF Image
  <2>5. MayBe(a, call)
    <3>1. MayName(AtValue(a), call.key)
      BY <1>1, <2>1, AtValueIs, Zenon DEF MayName
    <3> QED
      BY <1>1, <3>1, Zenon DEF MayBe, Containers
  <2>6. Image(b, Called(w, call)) /\ Called(w, call).cap = w.cap
    BY <2>1, <2>5, CallFits, Zenon
  <2>7. Len(a.open) = 0
    BY <2>1
  <2>8. b.nodes # <<>> /\ Len(b.open) = 0 + 1 /\ b.nodes[b.open[0 + 1]].text = "{"
    <3>1. call.op \in {"begin", "add"}
      BY <1>1, Zenon
    <3>2. /\ b.nodes # <<>> /\ Len(b.open) = Len(a.open) + 1
          /\ b.nodes[b.open[Len(a.open) + 1]].text = call.value
      BY <1>1, <2>4, <2>5, <3>1, AskKeeps, Zenon
    <3> QED
      BY <1>1, <2>7, <3>2, Zenon
  <2> HIDE DEF b
  <2>9. 0 + 1 = 1 /\ \A j \in 1 .. 1 : j = 1
    OBVIOUS
  <2>10. Len(b.open) = 1 /\ Len(b.open) >= 1
    <3>1. Len(b.open) = 0 + 1
      BY <2>8
    <3> QED
      BY <3>1
  <2>11. At(b, 1)
    BY <2>8, <2>9, <2>10, Zenon DEF At, Base
  <2> QED
    BY <2>1, <2>2, <2>3, <2>6, <2>11, Zenon DEF a, w
<1> QED
  BY <1>3, Zenon DEF Starts, calls, call

(***************************************************************************)
(* The calls of the client's own messages.                                 *)
(***************************************************************************)
Words == {"text", "ok", "error", "result", "birth", "uptimeMs", "bootId", "resetReason", "fw",
          "version", "elfSha256", "project", "sdk", "chip", "heap", "free", "minFree", "taskId",
          "state", "progress", "token", "hardwareId", "platform", "fwVersion", "name"}
Plain == {"text", "1", "true", "false"}
Leg(calls, k, l) == calls \in Seq(CallSet) /\ Goes(calls, k, l) /\ l \in Nat

(* The words are strings, and none is the missing key. *)
LEMMA WordsAre ==
  /\ \A word \in Words : word \in Strings \ {Unnamed}
  /\ \A value \in Plain : value \in Strings \cup Primitives
<1>1. Words \subseteq Strings /\ {"1", "true", "false"} \subseteq Primitives
  BY WordsAssumption, Zenon DEF Words
<1>2. Unnamed \notin Words
  BY DEF Unnamed, Words
<1>3. "text" \in Words
  BY DEF Words
<1> QED
  BY <1>1, <1>2, <1>3, Zenon DEF Plain

(* Calls that may be made one after the other: a member more, *)
LEMMA LegAdds ==
  ASSUME NEW calls, NEW k, NEW l, Leg(calls, k, l), l # 0, NEW key \in Words, NEW value \in Plain,
         NEW more, more = Append(calls, Adds(key, value))
  PROVE  Leg(more, k, l)
<1>1. key \in Strings \ {Unnamed} /\ value \in Strings \cup Primitives
  BY WordsAre, Zenon
<1>2. Adds(key, value) \in CallSet
  BY <1>1 DEF Adds, CallSet, Symbols, Values
<1>3. calls \in Seq(CallSet) /\ Goes(calls, k, l) /\ l \in Nat \ {0}
  BY Zenon DEF Leg
<1>4. Goes(more, k, l)
  BY <1>1, <1>3, GoesAdds, Zenon
<1>5. more \in Seq(CallSet)
  BY <1>2, <1>3, Grows, Zenon
<1> QED
  BY <1>3, <1>4, <1>5, Zenon DEF Leg

(* (Counting on.) *)
LEMMA OneMore == \A n \in Nat : n + 1 \in Nat
OBVIOUS

(* an object more, *)
LEMMA LegBegins ==
  ASSUME NEW calls, NEW k, NEW l, Leg(calls, k, l), l # 0, NEW key \in Words,
         NEW more, more = Append(calls, Begins(key, "{"))
  PROVE  Leg(more, k, l + 1)
<1>1. key \in Strings \ {Unnamed}
  BY WordsAre, Zenon
<1>2. "{" \in Symbols
  BY Zenon DEF Symbols, Values, Containers
<1>3. Begins(key, "{") \in CallSet
  BY <1>1, <1>2 DEF Begins, CallSet
<1>4. calls \in Seq(CallSet) /\ Goes(calls, k, l) /\ l \in Nat \ {0}
  BY Zenon DEF Leg
<1>5. Goes(more, k, l + 1)
  BY <1>1, <1>4, GoesBegins, Zenon
<1>6. more \in Seq(CallSet)
  BY <1>3, <1>4, Grows, Zenon
<1>7. l + 1 \in Nat
  BY <1>4, OneMore, Zenon
<1> QED
  BY <1>5, <1>6, <1>7, Zenon DEF Leg

(* an object ended, *)
LEMMA LegEnds ==
  ASSUME NEW calls, NEW k, NEW l \in Nat, Leg(calls, k, l + 1),
         NEW more, more = Append(calls, Ends("}"))
  PROVE  Leg(more, k, l)
<1>1. "}" \in Symbols
  BY Zenon DEF Symbols, Marks
<1>2. Ends("}") \in CallSet
  BY <1>1 DEF Ends, CallSet
<1>3. calls \in Seq(CallSet) /\ Goes(calls, k, l + 1)
  BY Zenon DEF Leg
<1>4. Goes(more, k, l)
  BY <1>3, GoesEnds, Zenon
<1>5. more \in Seq(CallSet)
  BY <1>2, <1>3, Grows, Zenon
<1> QED
  BY <1>4, <1>5, Zenon DEF Leg

(* no call, *)
LEMMA LegNothing ==
  ASSUME NEW k \in Nat
  PROVE  Leg(<<>>, k, k)
<1>1. <<>> \in Seq(CallSet)
  OBVIOUS
<1> QED
  BY <1>1, GoesNothing, Zenon DEF Leg

(* and calls that are made or not. *)
LEMMA LegWhen ==
  ASSUME NEW k \in Nat, NEW cond, NEW calls, Leg(calls, k, k)
  PROVE  Leg(When(cond, calls), k, k)
<1>1. When(cond, calls) = calls \/ When(cond, calls) = <<>>
  BY DEF When
<1> QED
  BY <1>1, LegNothing, Zenon

(* From the first call on. *)
Route(calls, k) == calls \in Seq(CallSet) /\ Starts(calls, k) /\ k \in Nat

(* The first call, *)
LEMMA RouteFirst == Route(<<Begins(Unnamed, "{")>>, 1)
<1>1. "{" \in Symbols
  BY Zenon DEF Symbols, Values, Containers
<1>2. Begins(Unnamed, "{") \in CallSet
  BY <1>1 DEF Begins, CallSet
<1>3. <<Begins(Unnamed, "{")>> \in Seq(CallSet)
  <2> DEFINE call == Begins(Unnamed, "{")
  <2> HIDE DEF call
  <2>1. call \in CallSet
    BY <1>2, Zenon DEF call
  <2>2. <<call>> \in Seq(CallSet)
    BY <2>1
  <2> QED
    BY <2>2, Zenon DEF call
<1>4. 1 \in Nat
  OBVIOUS
<1> QED
  BY <1>3, <1>4, StartsFirst, Zenon DEF Route

(* and those that follow. *)
LEMMA RouteMore ==
  ASSUME NEW c, NEW d, NEW k, NEW l, Route(c, k), Leg(d, k, l)
  PROVE  Route(c \o d, l)
<1>1. c \in Seq(CallSet) /\ d \in Seq(CallSet) /\ Starts(c, k) /\ Goes(d, k, l) /\ l \in Nat
  BY Zenon DEF Leg, Route
<1>2. c \o d \in Seq(CallSet)
  BY <1>1
<1>3. Starts(c \o d, l)
  BY <1>1, StartsMore, Zenon
<1> QED
  BY <1>1, <1>2, <1>3, Zenon DEF Route

(* Piece by piece. *)
LEMMA InWords ==
  /\ "text" \in Words /\ "ok" \in Words /\ "error" \in Words /\ "result" \in Words /\ "birth" \in Words
  /\ "uptimeMs" \in Words /\ "bootId" \in Words /\ "resetReason" \in Words /\ "fw" \in Words /\ "version" \in Words
  /\ "elfSha256" \in Words /\ "project" \in Words /\ "sdk" \in Words /\ "chip" \in Words /\ "heap" \in Words
  /\ "free" \in Words /\ "minFree" \in Words /\ "taskId" \in Words /\ "state" \in Words /\ "progress" \in Words
  /\ "token" \in Words /\ "hardwareId" \in Words /\ "platform" \in Words /\ "fwVersion" \in Words /\ "name" \in Words
  /\ "1" \in Plain /\ "text" \in Plain /\ "true" \in Plain /\ "false" \in Plain
BY Zenon DEF Words, Plain

(* Numbers as they are used below. *)
LEMMA Numbers == 1 # 0 /\ 2 # 0 /\ 1 + 1 = 2 /\ 0 + 1 = 1 /\ 0 \in Nat /\ 1 \in Nat /\ 2 \in Nat
OBVIOUS

BirthPart == <<Adds("birth", "true")>>
LEMMA BirthPartLeg == Leg(BirthPart, 1, 1)
<1> DEFINE a == Adds("birth", "true")
<1>1. Leg(<<>>, 1, 1)
  BY LegNothing, Numbers, Zenon
<1> HIDE DEF a
<1>2. Leg(<<a>>, 1, 1)
  <2>1. <<a>> = Append(<<>>, a)
    OBVIOUS
  <2> QED
    BY <1>1, <2>1, InWords, Numbers, LegAdds, Zenon DEF a
<1> QED
  BY <1>2, Zenon DEF BirthPart, a

ClockPart ==
    <<Adds("uptimeMs", "1"), Adds("bootId", "1"), Adds("resetReason", "1"),
      Begins("fw", "{"), Adds("version", "text")>>
LEMMA ClockPartLeg == Leg(ClockPart, 1, 2)
<1> DEFINE a == Adds("uptimeMs", "1")
           b == Adds("bootId", "1")
           c == Adds("resetReason", "1")
           d == Begins("fw", "{")
           e == Adds("version", "text")
<1>1. Leg(<<>>, 1, 1)
  BY LegNothing, Numbers, Zenon
<1> HIDE DEF a, b, c, d, e
<1>2. Leg(<<a>>, 1, 1)
  <2>1. <<a>> = Append(<<>>, a)
    OBVIOUS
  <2> QED
    BY <1>1, <2>1, InWords, Numbers, LegAdds, Zenon DEF a
<1>3. Leg(<<a, b>>, 1, 1)
  <2>1. <<a, b>> = Append(<<a>>, b)
    OBVIOUS
  <2> QED
    BY <1>2, <2>1, InWords, Numbers, LegAdds, Zenon DEF b
<1>4. Leg(<<a, b, c>>, 1, 1)
  <2>1. <<a, b, c>> = Append(<<a, b>>, c)
    OBVIOUS
  <2> QED
    BY <1>3, <2>1, InWords, Numbers, LegAdds, Zenon DEF c
<1>5. Leg(<<a, b, c, d>>, 1, 2)
  <2>1. <<a, b, c, d>> = Append(<<a, b, c>>, d)
    OBVIOUS
  <2> QED
    BY <1>4, <2>1, InWords, Numbers, LegBegins, Zenon DEF d
<1>6. Leg(<<a, b, c, d, e>>, 1, 2)
  <2>1. <<a, b, c, d, e>> = Append(<<a, b, c, d>>, e)
    OBVIOUS
  <2> QED
    BY <1>5, <2>1, InWords, Numbers, LegAdds, Zenon DEF e
<1> QED
  BY <1>6, Zenon DEF ClockPart, a, b, c, d, e

ElfPart == <<Adds("elfSha256", "text")>>
LEMMA ElfPartLeg == Leg(ElfPart, 2, 2)
<1> DEFINE a == Adds("elfSha256", "text")
<1>1. Leg(<<>>, 2, 2)
  BY LegNothing, Numbers, Zenon
<1> HIDE DEF a
<1>2. Leg(<<a>>, 2, 2)
  <2>1. <<a>> = Append(<<>>, a)
    OBVIOUS
  <2> QED
    BY <1>1, <2>1, InWords, Numbers, LegAdds, Zenon DEF a
<1> QED
  BY <1>2, Zenon DEF ElfPart, a

ChipPart ==
    <<Adds("project", "text"), Adds("sdk", "text"), Ends("}"),
      Adds("chip", "text"), Begins("heap", "{"), Adds("free", "1"),
      Adds("minFree", "1"), Ends("}")>>
LEMMA ChipPartLeg == Leg(ChipPart, 2, 1)
<1> DEFINE a == Adds("project", "text")
           b == Adds("sdk", "text")
           c == Ends("}")
           d == Adds("chip", "text")
           e == Begins("heap", "{")
           f == Adds("free", "1")
           g == Adds("minFree", "1")
           h == Ends("}")
<1>1. Leg(<<>>, 2, 2)
  BY LegNothing, Numbers, Zenon
<1> HIDE DEF a, b, c, d, e, f, g, h
<1>2. Leg(<<a>>, 2, 2)
  <2>1. <<a>> = Append(<<>>, a)
    OBVIOUS
  <2> QED
    BY <1>1, <2>1, InWords, Numbers, LegAdds, Zenon DEF a
<1>3. Leg(<<a, b>>, 2, 2)
  <2>1. <<a, b>> = Append(<<a>>, b)
    OBVIOUS
  <2> QED
    BY <1>2, <2>1, InWords, Numbers, LegAdds, Zenon DEF b
<1>4. Leg(<<a, b, c>>, 2, 1)
  <2>1. <<a, b, c>> = Append(<<a, b>>, c)
    OBVIOUS
  <2> QED
    BY <1>3, <2>1, InWords, Numbers, LegEnds, Zenon DEF c
<1>5. Leg(<<a, b, c, d>>, 2, 1)
  <2>1. <<a, b, c, d>> = Append(<<a, b, c>>, d)
    OBVIOUS
  <2> QED
    BY <1>4, <2>1, InWords, Numbers, LegAdds, Zenon DEF d
<1>6. Leg(<<a, b, c, d, e>>, 2, 2)
  <2>1. <<a, b, c, d, e>> = Append(<<a, b, c, d>>, e)
    OBVIOUS
  <2> QED
    BY <1>5, <2>1, InWords, Numbers, LegBegins, Zenon DEF e
<1>7. Leg(<<a, b, c, d, e, f>>, 2, 2)
  <2>1. <<a, b, c, d, e, f>> = Append(<<a, b, c, d, e>>, f)
    OBVIOUS
  <2> QED
    BY <1>6, <2>1, InWords, Numbers, LegAdds, Zenon DEF f
<1>8. Leg(<<a, b, c, d, e, f, g>>, 2, 2)
  <2>1. <<a, b, c, d, e, f, g>> = Append(<<a, b, c, d, e, f>>, g)
    OBVIOUS
  <2> QED
    BY <1>7, <2>1, InWords, Numbers, LegAdds, Zenon DEF g
<1>9. Leg(<<a, b, c, d, e, f, g, h>>, 2, 1)
  <2>1. <<a, b, c, d, e, f, g, h>> = Append(<<a, b, c, d, e, f, g>>, h)
    OBVIOUS
  <2> QED
    BY <1>8, <2>1, InWords, Numbers, LegEnds, Zenon DEF h
<1> QED
  BY <1>9, Zenon DEF ChipPart, a, b, c, d, e, f, g, h

EndPart == <<Ends("}")>>
LEMMA EndPartLeg == Leg(EndPart, 1, 0)
<1> DEFINE a == Ends("}")
<1>1. Leg(<<>>, 1, 1)
  BY LegNothing, Numbers, Zenon
<1> HIDE DEF a
<1>2. Leg(<<a>>, 1, 0)
  <2>1. <<a>> = Append(<<>>, a)
    OBVIOUS
  <2> QED
    BY <1>1, <2>1, InWords, Numbers, LegEnds, Zenon DEF a
<1> QED
  BY <1>2, Zenon DEF EndPart, a

TaskPart == <<Adds("taskId", "text"), Adds("state", "text")>>
LEMMA TaskPartLeg == Leg(TaskPart, 1, 1)
<1> DEFINE a == Adds("taskId", "text")
           b == Adds("state", "text")
<1>1. Leg(<<>>, 1, 1)
  BY LegNothing, Numbers, Zenon
<1> HIDE DEF a, b
<1>2. Leg(<<a>>, 1, 1)
  <2>1. <<a>> = Append(<<>>, a)
    OBVIOUS
  <2> QED
    BY <1>1, <2>1, InWords, Numbers, LegAdds, Zenon DEF a
<1>3. Leg(<<a, b>>, 1, 1)
  <2>1. <<a, b>> = Append(<<a>>, b)
    OBVIOUS
  <2> QED
    BY <1>2, <2>1, InWords, Numbers, LegAdds, Zenon DEF b
<1> QED
  BY <1>3, Zenon DEF TaskPart, a, b

ProgressPart == <<Adds("progress", "1")>>
LEMMA ProgressPartLeg == Leg(ProgressPart, 1, 1)
<1> DEFINE a == Adds("progress", "1")
<1>1. Leg(<<>>, 1, 1)
  BY LegNothing, Numbers, Zenon
<1> HIDE DEF a
<1>2. Leg(<<a>>, 1, 1)
  <2>1. <<a>> = Append(<<>>, a)
    OBVIOUS
  <2> QED
    BY <1>1, <2>1, InWords, Numbers, LegAdds, Zenon DEF a
<1> QED
  BY <1>2, Zenon DEF ProgressPart, a

ErrorPart == <<Adds("error", "text")>>
LEMMA ErrorPartLeg == Leg(ErrorPart, 1, 1)
<1> DEFINE a == Adds("error", "text")
<1>1. Leg(<<>>, 1, 1)
  BY LegNothing, Numbers, Zenon
<1> HIDE DEF a
<1>2. Leg(<<a>>, 1, 1)
  <2>1. <<a>> = Append(<<>>, a)
    OBVIOUS
  <2> QED
    BY <1>1, <2>1, InWords, Numbers, LegAdds, Zenon DEF a
<1> QED
  BY <1>2, Zenon DEF ErrorPart, a

DevicePart ==
    <<Adds("token", "text"), Adds("hardwareId", "text"), Adds("platform", "text"),
      Adds("chip", "text"), Adds("fwVersion", "text")>>
LEMMA DevicePartLeg == Leg(DevicePart, 1, 1)
<1> DEFINE a == Adds("token", "text")
           b == Adds("hardwareId", "text")
           c == Adds("platform", "text")
           d == Adds("chip", "text")
           e == Adds("fwVersion", "text")
<1>1. Leg(<<>>, 1, 1)
  BY LegNothing, Numbers, Zenon
<1> HIDE DEF a, b, c, d, e
<1>2. Leg(<<a>>, 1, 1)
  <2>1. <<a>> = Append(<<>>, a)
    OBVIOUS
  <2> QED
    BY <1>1, <2>1, InWords, Numbers, LegAdds, Zenon DEF a
<1>3. Leg(<<a, b>>, 1, 1)
  <2>1. <<a, b>> = Append(<<a>>, b)
    OBVIOUS
  <2> QED
    BY <1>2, <2>1, InWords, Numbers, LegAdds, Zenon DEF b
<1>4. Leg(<<a, b, c>>, 1, 1)
  <2>1. <<a, b, c>> = Append(<<a, b>>, c)
    OBVIOUS
  <2> QED
    BY <1>3, <2>1, InWords, Numbers, LegAdds, Zenon DEF c
<1>5. Leg(<<a, b, c, d>>, 1, 1)
  <2>1. <<a, b, c, d>> = Append(<<a, b, c>>, d)
    OBVIOUS
  <2> QED
    BY <1>4, <2>1, InWords, Numbers, LegAdds, Zenon DEF d
<1>6. Leg(<<a, b, c, d, e>>, 1, 1)
  <2>1. <<a, b, c, d, e>> = Append(<<a, b, c, d>>, e)
    OBVIOUS
  <2> QED
    BY <1>5, <2>1, InWords, Numbers, LegAdds, Zenon DEF e
<1> QED
  BY <1>6, Zenon DEF DevicePart, a, b, c, d, e

NamePart == <<Adds("name", "text")>>
LEMMA NamePartLeg == Leg(NamePart, 1, 1)
<1> DEFINE a == Adds("name", "text")
<1>1. Leg(<<>>, 1, 1)
  BY LegNothing, Numbers, Zenon
<1> HIDE DEF a
<1>2. Leg(<<a>>, 1, 1)
  <2>1. <<a>> = Append(<<>>, a)
    OBVIOUS
  <2> QED
    BY <1>1, <2>1, InWords, Numbers, LegAdds, Zenon DEF a
<1> QED
  BY <1>2, Zenon DEF NamePart, a

ResultPart == <<Adds("ok", "true"), Begins("result", "{")>>
LEMMA ResultPartLeg == Leg(ResultPart, 1, 2)
<1> DEFINE a == Adds("ok", "true")
           b == Begins("result", "{")
<1>1. Leg(<<>>, 1, 1)
  BY LegNothing, Numbers, Zenon
<1> HIDE DEF a, b
<1>2. Leg(<<a>>, 1, 1)
  <2>1. <<a>> = Append(<<>>, a)
    OBVIOUS
  <2> QED
    BY <1>1, <2>1, InWords, Numbers, LegAdds, Zenon DEF a
<1>3. Leg(<<a, b>>, 1, 2)
  <2>1. <<a, b>> = Append(<<a>>, b)
    OBVIOUS
  <2> QED
    BY <1>2, <2>1, InWords, Numbers, LegBegins, Zenon DEF b
<1> QED
  BY <1>3, Zenon DEF ResultPart, a, b

EndsPart == <<Ends("}"), Ends("}")>>
LEMMA EndsPartLeg == Leg(EndsPart, 2, 0)
<1> DEFINE a == Ends("}")
           b == Ends("}")
<1>1. Leg(<<>>, 2, 2)
  BY LegNothing, Numbers, Zenon
<1> HIDE DEF a, b
<1>2. Leg(<<a>>, 2, 1)
  <2>1. <<a>> = Append(<<>>, a)
    OBVIOUS
  <2> QED
    BY <1>1, <2>1, InWords, Numbers, LegEnds, Zenon DEF a
<1>3. Leg(<<a, b>>, 2, 0)
  <2>1. <<a, b>> = Append(<<a>>, b)
    OBVIOUS
  <2> QED
    BY <1>2, <2>1, InWords, Numbers, LegEnds, Zenon DEF b
<1> QED
  BY <1>3, Zenon DEF EndsPart, a, b

FailurePart == <<Adds("ok", "false"), Adds("error", "text"), Ends("}")>>
LEMMA FailurePartLeg == Leg(FailurePart, 1, 0)
<1> DEFINE a == Adds("ok", "false")
           b == Adds("error", "text")
           c == Ends("}")
<1>1. Leg(<<>>, 1, 1)
  BY LegNothing, Numbers, Zenon
<1> HIDE DEF a, b, c
<1>2. Leg(<<a>>, 1, 1)
  <2>1. <<a>> = Append(<<>>, a)
    OBVIOUS
  <2> QED
    BY <1>1, <2>1, InWords, Numbers, LegAdds, Zenon DEF a
<1>3. Leg(<<a, b>>, 1, 1)
  <2>1. <<a, b>> = Append(<<a>>, b)
    OBVIOUS
  <2> QED
    BY <1>2, <2>1, InWords, Numbers, LegAdds, Zenon DEF b
<1>4. Leg(<<a, b, c>>, 1, 0)
  <2>1. <<a, b, c>> = Append(<<a, b>>, c)
    OBVIOUS
  <2> QED
    BY <1>3, <2>1, InWords, Numbers, LegEnds, Zenon DEF c
<1> QED
  BY <1>4, Zenon DEF FailurePart, a, b, c

(***************************************************************************)
(* The messages, and the error answer.                                     *)
(***************************************************************************)
LEMMA StatusRoute ==
  ASSUME NEW m
  PROVE  Route(StatusHead(m), 1) /\ Leg(StatusTail, 1, 0)
<1> DEFINE first == <<Begins(Unnamed, "{")>>
<1>1. StatusHead(m) =
        first \o When(m.birth, BirthPart) \o ClockPart \o When(m.elf, ElfPart) \o ChipPart
  BY Zenon DEF StatusHead, BirthPart, ClockPart, ElfPart, ChipPart
<1>2. StatusTail = EndPart
  BY Zenon DEF StatusTail, EndPart
<1>3. Route(first, 1)
  BY RouteFirst, Zenon
<1> HIDE DEF first
<1>4. Route(first \o When(m.birth, BirthPart), 1)
  BY <1>3, BirthPartLeg, LegWhen, RouteMore, Numbers, Zenon
<1>5. Route(first \o When(m.birth, BirthPart) \o ClockPart, 2)
  BY <1>4, ClockPartLeg, RouteMore, Zenon
<1>6. Route(first \o When(m.birth, BirthPart) \o ClockPart \o When(m.elf, ElfPart), 2)
  BY <1>5, ElfPartLeg, LegWhen, RouteMore, Numbers, Zenon
<1>7. Route(first \o When(m.birth, BirthPart) \o ClockPart \o When(m.elf, ElfPart) \o ChipPart, 1)
  BY <1>6, ChipPartLeg, RouteMore, Zenon
<1> QED
  BY <1>1, <1>2, <1>7, EndPartLeg, Zenon

(* encode_ota_event() is made of calls that may be made, and is complete. *)
LEMMA OtaEventRoute ==
  ASSUME NEW e
  PROVE  Route(OtaEventCalls(e), 0)
<1> DEFINE first == <<Begins(Unnamed, "{")>>
           head == <<Begins(Unnamed, "{"), Adds("taskId", "text"), Adds("state", "text")>>
<1>1. OtaEventCalls(e) =
        head \o When(e.progress, ProgressPart) \o When(e.error, ErrorPart) \o EndPart
  BY Zenon DEF OtaEventCalls, ProgressPart, ErrorPart, EndPart
<1>2. head = first \o TaskPart
  <2> DEFINE b == Begins(Unnamed, "{")
             t == Adds("taskId", "text")
             s == Adds("state", "text")
  <2> HIDE DEF b, t, s
  <2>1. <<b, t, s>> = <<b>> \o <<t, s>>
    OBVIOUS
  <2> QED
    BY <2>1, Zenon DEF TaskPart, b, t, s
<1>3. Route(first, 1)
  BY RouteFirst, Zenon
<1> HIDE DEF first, head
<1>4. Route(head, 1)
  BY <1>2, <1>3, TaskPartLeg, RouteMore, Zenon
<1>5. Route(head \o When(e.progress, ProgressPart), 1)
  BY <1>4, ProgressPartLeg, LegWhen, RouteMore, Numbers, Zenon
<1>6. Route(head \o When(e.progress, ProgressPart) \o When(e.error, ErrorPart), 1)
  BY <1>5, ErrorPartLeg, LegWhen, RouteMore, Numbers, Zenon
<1> QED
  BY <1>1, <1>6, EndPartLeg, RouteMore, Zenon

(* So is encode_enroll_request(). *)
LEMMA EnrollRoute ==
  ASSUME NEW r
  PROVE  Route(EnrollCalls(r), 0)
<1> DEFINE first == <<Begins(Unnamed, "{")>>
           head == <<Begins(Unnamed, "{"), Adds("token", "text"), Adds("hardwareId", "text"),
                     Adds("platform", "text"), Adds("chip", "text"), Adds("fwVersion", "text")>>
<1>1. EnrollCalls(r) = head \o When(r.name, NamePart) \o EndPart
  BY Zenon DEF EnrollCalls, NamePart, EndPart
<1>2. head = first \o DevicePart
  <2> DEFINE b == Begins(Unnamed, "{")
             t == Adds("token", "text")
             h == Adds("hardwareId", "text")
             p == Adds("platform", "text")
             c == Adds("chip", "text")
             f == Adds("fwVersion", "text")
  <2> HIDE DEF b, t, h, p, c, f
  <2>1. <<b, t, h, p, c, f>> = <<b>> \o <<t, h, p, c, f>>
    OBVIOUS
  <2> QED
    BY <2>1, Zenon DEF DevicePart, b, t, h, p, c, f
<1>3. Route(first, 1)
  BY RouteFirst, Zenon
<1> HIDE DEF first, head
<1>4. Route(head, 1)
  BY <1>2, <1>3, DevicePartLeg, RouteMore, Zenon
<1>5. Route(head \o When(r.name, NamePart), 1)
  BY <1>4, NamePartLeg, LegWhen, RouteMore, Numbers, Zenon
<1> QED
  BY <1>1, <1>5, EndPartLeg, RouteMore, Zenon

(* The head of an answer leaves two objects open, the tail ends them. *)
LEMMA AnswerRoute == Route(AnswerHead, 2) /\ Leg(AnswerTail, 2, 0) /\ Route(ErrorAnswer, 0)
<1> DEFINE first == <<Begins(Unnamed, "{")>>
<1>1. Route(first, 1)
  BY RouteFirst, Zenon
<1>2. AnswerHead = first \o ResultPart
  <2> DEFINE b == Begins(Unnamed, "{")
             o == Adds("ok", "true")
             r == Begins("result", "{")
  <2> HIDE DEF b, o, r
  <2>1. <<b, o, r>> = <<b>> \o <<o, r>>
    OBVIOUS
  <2> QED
    BY <2>1, Zenon DEF AnswerHead, ResultPart, b, o, r
<1>3. ErrorAnswer = first \o FailurePart
  <2> DEFINE b == Begins(Unnamed, "{")
             o == Adds("ok", "false")
             e == Adds("error", "text")
             z == Ends("}")
  <2> HIDE DEF b, o, e, z
  <2>1. <<b, o, e, z>> = <<b>> \o <<o, e, z>>
    OBVIOUS
  <2> QED
    BY <2>1, Zenon DEF ErrorAnswer, FailurePart, b, o, e, z
<1>4. AnswerTail = EndsPart
  BY Zenon DEF AnswerTail, EndsPart
<1> HIDE DEF first
<1> QED
  BY <1>1, <1>2, <1>3, <1>4, ResultPartLeg, FailurePartLeg, EndsPartLeg, RouteMore, Zenon

(* Every message: a route to where the free calls are made, and a leg to the end. *)
MessageOK(m) ==
  \E k \in Nat :
    /\ Route(m.head, k) /\ Leg(m.tail, k, 0) /\ (k = 0 => m.calls = 0) /\ m.cap \in Nat
    /\ m.answer \in BOOLEAN

(* Messages of one kind, *)
LEMMA MessageIs ==
  ASSUME NEW head, NEW tail, NEW calls, NEW answer \in BOOLEAN, NEW caps \in SUBSET Nat,
         NEW k \in Nat, Route(head, k), Leg(tail, k, 0), k = 0 => calls = 0,
         NEW m \in Message(head, tail, calls, answer, caps)
  PROVE  MessageOK(m)
<1>1. PICK cap \in caps :
        m = [head |-> head, tail |-> tail, calls |-> calls, answer |-> answer, cap |-> cap]
  BY DEF Message
<1>2. m.head = head /\ m.tail = tail /\ m.calls = calls /\ m.answer = answer /\ m.cap = cap
  BY <1>1
<1>3. cap \in Nat
  BY Zenon
<1> QED
  BY <1>2, <1>3, Zenon DEF MessageOK

(* and of every kind. *)
LEMMA MessagesOK == \A m \in Messages : MessageOK(m)
<1>1. Caps \in SUBSET Nat /\ AnswerCaps \in SUBSET Nat /\ TRUE \in BOOLEAN /\ FALSE \in BOOLEAN
  BY CapsAssumption, Zenon
<1>2. \A m \in Message(AnswerHead, AnswerTail, MaxCalls, TRUE, AnswerCaps) : MessageOK(m)
  BY <1>1, AnswerRoute, MessageIs, Numbers, Zenon
<1>3. \A s : \A m \in Message(StatusHead(s), StatusTail, MaxCalls, FALSE, Caps) : MessageOK(m)
  BY <1>1, StatusRoute, MessageIs, Numbers, Zenon
<1>4. Leg(<<>>, 0, 0)
  BY LegNothing, Numbers, Zenon
<1>5. \A e : \A m \in Message(OtaEventCalls(e), <<>>, 0, FALSE, Caps) : MessageOK(m)
  BY <1>1, <1>4, OtaEventRoute, MessageIs, Numbers, Zenon
<1>6. \A r : \A m \in Message(EnrollCalls(r), <<>>, 0, FALSE, Caps) : MessageOK(m)
  BY <1>1, <1>4, EnrollRoute, MessageIs, Numbers, Zenon
<1>7. \A m \in StatusReports : MessageOK(m)
  BY <1>3 DEF StatusReports
<1>8. \A m \in OtaEvents : MessageOK(m)
  BY <1>5 DEF OtaEvents
<1>9. \A m \in Enrolments : MessageOK(m)
  BY <1>6 DEF Enrolments
<1> QED
  BY <1>2, <1>7, <1>8, <1>9, Zenon DEF Messages, Answers

(***************************************************************************)
(* What has been asked for and the writer, once the calls are over.        *)
(***************************************************************************)
TreeOf(text) ==
  LET read == Received(NewParser(Len(text)), text)
  IN  [i \in DOMAIN read.tokens |->
         [text |-> read.tokens[i].text, parent |-> read.tokens[i].parent]]

(* The bytes of a text after a value are its size. *)
LEMMA SizeIsBound ==
  ASSUME NEW a, DocOK(AtValue(a))
  PROVE  Bound(AtValue(a)) = Size(a)
<1> DEFINE x == AtValue(a)
<1>1. a.nodes = x.nodes /\ a.open = x.open /\ x.last = "value"
  BY AtValueIs, Zenon
<1> HIDE DEF x
<1>2. DocOK(x) /\ TreeOK(x)
  BY Zenon DEF DocOK, x
<1>3. Size(a) = Size(x)
  BY <1>1, <1>2, SizeSame, Zenon
<1>4. Bound(x) = Size(x)
  <2>1. x.last \notin {"comma", "colon"}
    BY <1>1, Zenon
  <2> QED
    BY <1>2, <2>1, Bounds, Zenon
<1> QED
  BY <1>3, <1>4, Zenon DEF x

(* A writer that has not overflowed holds the text. *)
LEMMA FittingIs ==
  ASSUME NEW a, NEW w, Image(a, w), ~ w.overflow
  PROVE  w.pos = Size(a) /\ w.pos < w.cap /\ Reads(AtValue(a), w.text) /\ DocOK(AtValue(a))
<1>1. ~ a.deep /\ Ready(AtValue(a), w) /\ DocOK(AtValue(a))
  BY Zenon DEF Image
<1>2. Writes(AtValue(a), w)
  BY <1>1, Zenon DEF Ready
<1> QED
  BY <1>1, <1>2, SizeIsBound, Zenon DEF Writes

(* One that has did not have the room, or was nested too deeply. *)
LEMMA FullIs ==
  ASSUME NEW a, NEW w, Image(a, w), w.overflow
  PROVE  Size(a) >= w.cap \/ a.deep
<1>1. DocOK(AtValue(a)) /\ (~ a.deep => Ready(AtValue(a), w))
  BY Zenon DEF Image
<1>2. ~ a.deep => Bound(AtValue(a)) >= w.cap
  BY <1>1, Zenon DEF Ready, Writes
<1> QED
  BY <1>1, <1>2, SizeIsBound, Zenon

(* A text that is complete is well-formed, and jsmn accepts it with its nodes. *)
LEMMA ReadBack ==
  ASSUME NEW x, NEW text, DocOK(x), Reads(x, text), x.last = "value", x.nodes # <<>>, x.open = <<>>
  PROVE  /\ WellFormed(ReadText(NewDoc, text)) /\ ParseOk(Received(NewParser(Len(text)), text))
         /\ TreeOf(text) = x.nodes
<1> DEFINE d == ReadText(NewDoc, text)
           p == Received(NewParser(Len(text)), text)
           n == Len(x.nodes)
<1>1. Len(text) \in Nat /\ Len(text) >= Len(text)
  <2>1. text \in Seq(Symbols)
    BY Zenon DEF Reads
  <2> QED
    BY <2>1
<1>2. ParserIs(x, Len(text), p) /\ DocIs(x, d)
  BY <1>1, Zenon DEF Reads
<1>3. TreeOK(x)
  BY Zenon DEF DocOK
<1>4. /\ n \in Nat /\ x.nodes \in Seq(Nodes) /\ x.nodes[1].text = "{"
      /\ \A i \in 1 .. n : x.nodes[i] \in Nodes
  BY <1>3, NodesAre, Zenon DEF TreeOK
<1>5. n >= 1
  <2>1. n = 0 => x.nodes = <<>>
    <3>1. x.nodes \in Seq(Nodes)
      BY <1>4, Zenon
    <3> QED
      BY <3>1, EmptySeq, Zenon
  <2>2. n \in Nat /\ n # 0
    BY <1>4, <2>1, Zenon
  <2> HIDE DEF n
  <2> QED
    BY <2>2
<1> HIDE DEF d, p
<1>6. d.want = "end"
  BY <1>2, Zenon DEF DocIs, WantIs
<1>7. /\ p.status = "ok" /\ Len(p.tokens) = n /\ DOMAIN p.tokens = 1 .. n
      /\ InnermostOpen(p.tokens) = Innermost(x)
  <2>1. Len(p.tokens) = n
    BY <1>2, Zenon DEF ParserIs
  <2>2. /\ p.status = "ok" /\ DOMAIN p.tokens = 1 .. Len(p.tokens)
        /\ InnermostOpen(p.tokens) = Innermost(x)
    BY <1>1, <1>2, SuperToken, ZenonT(40)
  <2> QED
    BY <2>1, <2>2, Zenon
<1>8. \A i \in 1 .. n : /\ p.tokens[i].text = x.nodes[i].text /\ p.tokens[i].parent = x.nodes[i].parent
                        /\ p.tokens[i].type = TypeOf(x.nodes[i].text)
  BY <1>2, Zenon DEF ParserIs, TokenIs
<1>9. 1 \in 1 .. n
  <2>1. n \in Nat
    BY <1>4, Zenon
  <2> HIDE DEF n
  <2> QED
    BY <1>5, <2>1
<1>10. p.tokens[1].type = "{"
  BY <1>4, <1>8, <1>9, TypesAre, Zenon DEF Containers
<1>11. InnermostOpen(p.tokens) = 0
  BY <1>3, <1>7, InnermostIs, Zenon
<1>12. ParseOk(p)
  <2>1. Result(p) = "ok"
    BY <1>7, <1>11 DEF Result
  <2> QED
    BY <1>5, <1>7, <1>10, <2>1, Zenon DEF ParseOk
<1>13. TreeOf(text) = x.nodes
  <2>1. TreeOf(text) = [i \in 1 .. n |-> [text |-> p.tokens[i].text, parent |-> p.tokens[i].parent]]
    BY <1>7, Zenon DEF TreeOf, p
  <2>2. \A i \in 1 .. n : [text |-> p.tokens[i].text, parent |-> p.tokens[i].parent] = x.nodes[i]
    <3> SUFFICES ASSUME NEW i \in 1 .. n
                 PROVE  [text |-> p.tokens[i].text, parent |-> p.tokens[i].parent] = x.nodes[i]
      BY Zenon
    <3>1. x.nodes[i] = [text |-> x.nodes[i].text, parent |-> x.nodes[i].parent]
      <4>1. x.nodes[i] \in Nodes
        BY <1>4, Zenon
      <4> QED
        BY <4>1 DEF Nodes
    <3> QED
      BY <1>8, <3>1, Zenon
  <2>3. x.nodes = [i \in 1 .. n |-> x.nodes[i]]
    <3>1. x.nodes \in Seq(Nodes)
      BY <1>4, Zenon
    <3> QED
      BY <3>1
  <2> HIDE DEF n
  <2> QED
    BY <2>1, <2>2, <2>3
<1> QED
  BY <1>6, <1>12, <1>13, Zenon DEF WellFormed, d, p

(***************************************************************************)
(* The invariant: what has been asked for is what the writer holds, and    *)
(* the containers of the encoder stay open until its last calls.           *)
(***************************************************************************)
AtWork(k) ==
  /\ Leg(message.tail, k, 0) /\ (k = 0 => message.calls = 0)
  /\ At(AskAll(NothingAsked, message.head), k)
  /\ message.cap \in Nat
  /\ Image(asked, writer) /\ writer.cap = message.cap /\ Base(asked, k)
Faithful ==
  /\ phase \in {"none", "writing", "sent", "refused"}
  /\ phase = "writing" => \E k \in Nat : AtWork(k)
  /\ phase = "sent" =>
       /\ Image(asked, writer) /\ At(asked, 0) /\ writer.cap = message.cap
       /\ writer.overflow => message.answer /\ asked = AskAll(NothingAsked, ErrorAnswer)
  /\ phase = "refused" => Image(asked, writer) /\ writer.overflow

(* The first calls of every message. *)
LEMMA FaithfulAtFirst == JsonInit => Faithful
<1> SUFFICES ASSUME JsonInit PROVE Faithful
  OBVIOUS
<1>1. CASE part = "device"
  <2>1. PICK m \in Messages :
          /\ message = m /\ phase = "writing"
          /\ writer = WriteAll(NewWriter(m.cap), m.head)
          /\ asked = AskAll(NothingAsked, m.head)
    BY <1>1, Zenon DEF JsonInit
  <2>2. PICK k \in Nat :
          /\ Route(m.head, k) /\ Leg(m.tail, k, 0) /\ (k = 0 => m.calls = 0) /\ m.cap \in Nat
          /\ m.answer \in BOOLEAN
    BY MessagesOK, Zenon DEF MessageOK
  <2>3. Image(asked, writer) /\ At(asked, k) /\ writer.cap = m.cap
    BY <2>1, <2>2, Zenon DEF Route, Starts
  <2>4. AtWork(k)
    BY <2>1, <2>2, <2>3, Zenon DEF AtWork, At
  <2>5. phase # "sent" /\ phase # "refused"
    BY <2>1
  <2> QED
    BY <2>1, <2>4, <2>5, Zenon DEF Faithful
<1>2. CASE part # "device"
  <2>1. phase = "none"
    BY <1>2, Zenon DEF JsonInit
  <2>2. phase # "writing" /\ phase # "sent" /\ phase # "refused"
    BY <2>1
  <2> QED
    BY <2>1, <2>2, Zenon DEF Faithful
<1> QED
  BY <1>1, <1>2, Zenon

(* The fields of a call that ends something. *)
LEMMA EndIs ==
  ASSUME NEW call, NEW value, call = Ends(value)
  PROVE  call.op = "end"
BY CallsAre

(* The calls of an application callback or a handler. *)
LEMMA FreeIs ==
  ASSUME NEW call \in FreeCalls
  PROVE  \/ call.op = "begin" /\ call.value \in {"{", "["} /\ call.key \in {"text", Unnamed}
         \/ call.op = "add" /\ call.value \in {"text", "1"} /\ call.key \in {"text", Unnamed}
         \/ call.op = "end"
<1>1. CASE call \in {Ends("}"), Ends("]")}
  <2>1. call.op = "end"
    BY <1>1, EndIs, Zenon
  <2> QED
    BY <2>1, Zenon
<1>2. CASE \E key \in {"text", Unnamed} :
             call \in {Begins(key, "{"), Begins(key, "["), Adds(key, "text"), Adds(key, "1")}
  <2>1. PICK key \in {"text", Unnamed} :
          call \in {Begins(key, "{"), Begins(key, "["), Adds(key, "text"), Adds(key, "1")}
    BY <1>2, Zenon
  <2>2. CASE call \in {Begins(key, "{"), Begins(key, "[")}
    <3>1. \E mark \in {"{", "["} : call = Begins(key, mark)
      BY <2>2, Zenon
    <3>2. PICK mark \in {"{", "["} : call = Begins(key, mark)
      BY <3>1, Zenon
    <3>3. call.op = "begin" /\ call.value = mark /\ call.key = key
      BY <3>2 DEF Begins
    <3> QED
      BY <3>3, Zenon
  <2>3. CASE call \in {Adds(key, "text"), Adds(key, "1")}
    <3>1. \E value \in {"text", "1"} : call = Adds(key, value)
      BY <2>3, Zenon
    <3>2. PICK value \in {"text", "1"} : call = Adds(key, value)
      BY <3>1, Zenon
    <3>3. call.op = "add" /\ call.value = value /\ call.key = key
      BY <3>2 DEF Adds
    <3> QED
      BY <3>3, Zenon
  <2> QED
    BY <2>1, <2>2, <2>3, Zenon
<1> QED
  BY <1>1, <1>2, Zenon DEF FreeCalls

(* A call of theirs keeps the invariant: MayCall() keeps the encoder's containers open. *)
LEMMA WriteFaithful ==
  ASSUME Faithful, NEW call \in FreeCalls, Write(call)
  PROVE  Faithful'
<1>1. /\ phase = "writing" /\ message.calls > 0 /\ MayCall(call)
      /\ message' = [message EXCEPT !.calls = @ - 1]
      /\ writer' = Called(writer, call) /\ asked' = Ask(asked, call) /\ phase' = phase
  BY Zenon DEF Write, writing
<1>2. PICK k \in Nat : AtWork(k)
  BY <1>1, Zenon DEF Faithful
<1>3. /\ Leg(message.tail, k, 0) /\ (k = 0 => message.calls = 0)
      /\ At(AskAll(NothingAsked, message.head), k)
      /\ message.cap \in Nat
      /\ Image(asked, writer) /\ writer.cap = message.cap /\ Base(asked, k)
  BY <1>2, Zenon DEF AtWork
<1>4. k # 0
  <2>1. ~ (0 > 0)
    OBVIOUS
  <2> QED
    BY <1>1, <1>3, <2>1, Zenon
<1>5. asked \in AskedSet /\ DocOK(AtValue(asked)) /\ TreeOK(AtValue(asked))
  BY <1>3, Zenon DEF Image, DocOK
<1>6. Len(asked.open) >= k /\ asked.nodes # <<>>
  BY <1>3, Zenon DEF Base
<1>7. asked.open # <<>>
  <2>1. asked.open = <<>> => Len(asked.open) = 0
    OBVIOUS
  <2>2. ~ (0 >= k)
    BY <1>4
  <2> QED
    BY <1>6, <2>1, <2>2, Zenon
<1> DEFINE inside == asked.nodes[Innermost(asked)].text
<1>8. InsideOf(AtValue(asked)) = inside /\ inside \in Containers /\ AtValue(asked).open = asked.open
  BY <1>5, <1>7, AtValueIs, InnermostIs, Zenon DEF InsideOf
<1>9. /\ call.op = "end" => /\ Len(asked.open) > Len(AskAll(NothingAsked, message.head).open)
                            /\ call.value = (IF inside = "{" THEN "}" ELSE "]")
      /\ call.op # "end" => (call.key # Unnamed <=> inside = "{")
  BY <1>1, Zenon DEF MayCall
<1> HIDE DEF inside
<1>10. call.op # "end" => MayName(AtValue(asked), call.key)
  <2> SUFFICES ASSUME call.op # "end" PROVE MayName(AtValue(asked), call.key)
    BY Zenon
  <2>1. call.key \in {"text", Unnamed} /\ "text" \in Strings
    BY FreeIs, WordsAre, InWords, Zenon
  <2>2. CASE call.key = Unnamed
    <3>1. inside = "["
      BY <1>8, <1>9, <2>2, Zenon DEF Containers
    <3> QED
      BY <1>7, <1>8, <2>2, <3>1, Zenon DEF MayName
  <2>3. CASE call.key # Unnamed
    BY <1>7, <1>8, <1>9, <2>1, <2>3, Zenon DEF MayName
  <2> QED
    BY <2>2, <2>3, Zenon
<1>11. MayBe(asked, call)
  <2>1. CASE call.op = "begin"
    <3>1. call.value \in Containers /\ call.op # "end"
      BY <2>1, FreeIs DEF Containers
    <3> QED
      BY <1>6, <1>10, <2>1, <3>1, Zenon DEF MayBe
  <2>2. CASE call.op = "add"
    <3>1. call.value \in {"text", "1"} /\ call.op # "end"
      BY <2>2, FreeIs
    <3>2. call.value \in Strings \cup Primitives
      BY <3>1, WordsAre, InWords, Zenon
    <3> QED
      BY <1>6, <1>10, <2>2, <3>1, <3>2, Zenon DEF MayBe
  <2>3. CASE call.op = "end"
    BY <1>7, <1>8, <1>9, <2>3, Zenon DEF MayBe
  <2> QED
    BY <2>1, <2>2, <2>3, FreeIs, Zenon
<1>12. Image(asked', writer') /\ writer'.cap = writer.cap
  BY <1>1, <1>3, <1>11, CallFits, Zenon
<1>13. Base(asked', k)
  <2>1. call.op = "end" => Len(asked.open) > k
    BY <1>3, <1>9, Zenon DEF At
  <2> QED
    BY <1>1, <1>3, <1>5, <1>11, <2>1, BaseKept, Zenon
<1>14. /\ message'.head = message.head /\ message'.tail = message.tail /\ message'.cap = message.cap
       /\ message'.answer = message.answer
  BY <1>1
<1>15. AtWork(k)'
  BY <1>3, <1>4, <1>12, <1>13, <1>14, Zenon DEF AtWork
<1>16. phase' = "writing" /\ phase' # "sent" /\ phase' # "refused"
  BY <1>1
<1> QED
  BY <1>15, <1>16, Zenon DEF Faithful

(* The error answer is not nested deeply. *)
Shallow(a) == \E nodes, open : a = [nodes |-> nodes, open |-> open, deep |-> FALSE]

(* Only a call that begins something nests. *)
LEMMA ShallowStays ==
  ASSUME NEW a, Shallow(a), NEW call, call.op # "begin"
  PROVE  Shallow(Ask(a, call))
<1>1. PICK nodes, open : a = [nodes |-> nodes, open |-> open, deep |-> FALSE]
  BY Zenon DEF Shallow
<1>2. CASE call.op = "end"
  <2>1. Ask(a, call) = [a EXCEPT !.open = SubSeq(@, 1, Len(@) - 1)]
    BY <1>2 DEF Ask
  <2>2. Ask(a, call) = [nodes |-> nodes, open |-> SubSeq(open, 1, Len(open) - 1), deep |-> FALSE]
    BY <1>1, <2>1
  <2> QED
    BY <2>2, Zenon DEF Shallow
<1>3. CASE call.op # "end"
  <2>1. \E n, o : Ask(a, call) = [nodes |-> n, open |-> o, deep |-> a.deep \/ FALSE]
    BY <1>3 DEF Ask
  <2>2. a.deep = FALSE /\ (FALSE \/ FALSE) = FALSE
    BY <1>1
  <2> QED
    BY <2>1, <2>2, Zenon DEF Shallow
<1> QED
  BY <1>2, <1>3, Zenon

(* So the error answer, with one object, is not too deep. *)
LEMMA ErrorIsShallow == ~ AskAll(NothingAsked, ErrorAnswer).deep
<1> DEFINE b == Begins(Unnamed, "{")
           o == Adds("ok", "false")
           e == Adds("error", "text")
           z == Ends("}")
<1>1. b.op = "begin" /\ o.op # "begin" /\ e.op # "begin" /\ z.op # "begin"
  BY DEF Begins, Adds, Ends
<1>2. ErrorAnswer = <<b, o, e, z>>
  BY Zenon DEF ErrorAnswer
<1> HIDE DEF b, o, e, z
<1>3. /\ <<b, o, e, z>> = Append(<<b, o, e>>, z) /\ <<b, o, e>> = Append(<<b, o>>, e)
      /\ <<b, o>> = Append(<<b>>, o) /\ <<b>> = Append(<<>>, b)
  OBVIOUS
<1>4. Shallow(Ask(NothingAsked, b))
  <2>1. Len(<<>>) = 0 /\ ~ (0 >= MaxDepth)
    BY CapsAssumption, WriterAssumption
  <2>2. Ask(NothingAsked, b).deep = FALSE
    BY <1>1, <2>1 DEF Ask, NothingAsked
  <2> QED
    BY <1>1, <2>1 DEF Ask, NothingAsked, Shallow
<1> DEFINE S == {b, o, e, z}
<1>5. <<>> \in Seq(S) /\ <<b>> \in Seq(S) /\ <<b, o>> \in Seq(S) /\ <<b, o, e>> \in Seq(S)
  OBVIOUS
<1> HIDE DEF S
<1>6. Shallow(AskAll(NothingAsked, <<b>>))
  <2>1. AskAll(NothingAsked, Append(<<>>, b)) = Ask(AskAll(NothingAsked, <<>>), b)
    BY <1>5, AskAllGrows
  <2> QED
    BY <1>3, <1>4, <2>1, AskAllNothing, Zenon
<1>7. Shallow(AskAll(NothingAsked, <<b, o>>))
  <2>1. AskAll(NothingAsked, Append(<<b>>, o)) = Ask(AskAll(NothingAsked, <<b>>), o)
    BY <1>5, AskAllGrows
  <2> QED
    BY <1>1, <1>3, <1>6, <2>1, ShallowStays, Zenon
<1>8. Shallow(AskAll(NothingAsked, <<b, o, e>>))
  <2>1. AskAll(NothingAsked, Append(<<b, o>>, e)) = Ask(AskAll(NothingAsked, <<b, o>>), e)
    BY <1>5, AskAllGrows
  <2> QED
    BY <1>1, <1>3, <1>7, <2>1, ShallowStays, Zenon
<1>9. Shallow(AskAll(NothingAsked, <<b, o, e, z>>))
  <2>1. AskAll(NothingAsked, Append(<<b, o, e>>, z)) = Ask(AskAll(NothingAsked, <<b, o, e>>), z)
    BY <1>5, AskAllGrows
  <2> QED
    BY <1>1, <1>3, <1>8, <2>1, ShallowStays, Zenon
<1> QED
  BY <1>2, <1>9 DEF Shallow

(* The last calls keep it, for the message and for the error in its place. *)
LEMMA FinishFaithful ==
  ASSUME Faithful, NEW failed \in BOOLEAN, Finish(failed)
  PROVE  Faithful'
<1> DEFINE full == WriteAll(writer, message.tail)
           wanted == AskAll(asked, message.tail)
           error == AskAll(NothingAsked, ErrorAnswer)
           answer == WriteAll(NewWriter(message.cap), ErrorAnswer)
<1>1. /\ phase = "writing" /\ (failed => message.answer)
      /\ Len(asked.open) = Len(AskAll(NothingAsked, message.head).open)
      /\ \/ ~ failed /\ ~ full.overflow /\ writer' = full /\ asked' = wanted /\ phase' = "sent"
         \/ message.answer /\ writer' = answer /\ asked' = error /\ phase' = "sent"
         \/ /\ failed \/ full.overflow
            /\ ~ message.answer /\ writer' = full /\ asked' = wanted /\ phase' = "refused"
  BY DEF Finish, Good
<1>2. PICK k \in Nat : AtWork(k)
  BY <1>1, Zenon DEF Faithful
<1>3. /\ Leg(message.tail, k, 0)
      /\ At(AskAll(NothingAsked, message.head), k)
      /\ message.cap \in Nat
      /\ Image(asked, writer) /\ writer.cap = message.cap /\ Base(asked, k)
  BY <1>2, Zenon DEF AtWork
<1>4. At(asked, k)
  BY <1>1, <1>3, Zenon DEF At
<1>5. Image(wanted, full) /\ At(wanted, 0) /\ full.cap = message.cap
  BY <1>3, <1>4, Zenon DEF Leg, Goes
<1>6. Image(error, answer) /\ At(error, 0) /\ answer.cap = message.cap
  BY <1>3, AnswerRoute, Zenon DEF Route, Starts
<1>7. message' = message /\ error = AskAll(NothingAsked, ErrorAnswer)
  BY Zenon DEF Finish
<1> HIDE DEF full, wanted, error, answer
<1>8. CASE ~ failed /\ ~ full.overflow /\ writer' = full /\ asked' = wanted /\ phase' = "sent"
  <2>1. phase' # "writing" /\ phase' # "refused"
    BY <1>8
  <2> QED
    BY <1>5, <1>7, <1>8, <2>1, Zenon DEF Faithful
<1>9. CASE message.answer /\ writer' = answer /\ asked' = error /\ phase' = "sent"
  <2>1. phase' # "writing" /\ phase' # "refused"
    BY <1>9
  <2> QED
    BY <1>6, <1>7, <1>9, <2>1, Zenon DEF Faithful
<1>10. CASE /\ failed \/ full.overflow
            /\ ~ message.answer /\ writer' = full /\ asked' = wanted /\ phase' = "refused"
  <2>1. phase' # "writing" /\ phase' # "sent"
    BY <1>10
  <2> QED
    BY <1>1, <1>5, <1>10, <2>1, Zenon DEF Faithful
<1> QED
  BY <1>1, <1>8, <1>9, <1>10, Zenon

(* What the other parts do does not touch it. *)
LEMMA FaithfulStays ==
  ASSUME Faithful, UNCHANGED writing
  PROVE  Faithful'
BY Zenon DEF Faithful, AtWork, writing

(* So every step keeps it. *)
LEMMA FaithfulStep == Faithful /\ [JsonNext]_jsonVars => Faithful'
<1> SUFFICES ASSUME Faithful, [JsonNext]_jsonVars PROVE Faithful'
  BY Zenon
<1>1. ASSUME NEW piece, Receive(piece) PROVE Faithful'
  BY <1>1, FaithfulStays, Zenon DEF Receive
<1>2. ASSUME NEW byte, Grow(byte) PROVE Faithful'
  BY <1>2, FaithfulStays, Zenon DEF Grow
<1>3. CASE UNCHANGED jsonVars
  <2>1. UNCHANGED writing
    BY <1>3 DEF jsonVars, writing
  <2> QED
    BY <2>1, FaithfulStays, Zenon
<1> QED
  BY <1>1, <1>2, <1>3, WriteFaithful, FinishFaithful, Zenon DEF JsonNext

(* And it says what WrittenIsRead says. *)
LEMMA FaithfulIsRead == Faithful => WrittenIsRead
<1> SUFFICES ASSUME Faithful PROVE WrittenIsRead
  OBVIOUS
<1> DEFINE read == Received(NewParser(Len(writer.text)), writer.text)
<1>1. ASSUME phase = "sent", ~ writer.overflow
      PROVE  /\ WellFormed(ReadText(NewDoc, writer.text)) /\ ParseOk(read)
             /\ TreeOf(writer.text) = asked.nodes /\ writer.pos < writer.cap
  <2> DEFINE x == AtValue(asked)
  <2>1. Image(asked, writer) /\ At(asked, 0) /\ ~ writer.overflow
    BY <1>1, Zenon DEF Faithful
  <2>2. writer.pos < writer.cap /\ Reads(x, writer.text) /\ DocOK(x)
    BY <2>1, FittingIs, Zenon
  <2>3. x.nodes = asked.nodes /\ x.open = asked.open /\ x.last = "value"
    BY AtValueIs, Zenon
  <2>4. asked.nodes # <<>> /\ Len(asked.open) = 0
    BY <2>1, Zenon DEF At, Base
  <2>5. asked.open = <<>>
    <3>1. asked.open \in Seq(Nat)
      <4>1. asked \in AskedSet
        BY <2>1, Zenon DEF Image
      <4> QED
        BY <4>1 DEF AskedSet
    <3> QED
      BY <2>4, <3>1, EmptySeq, Zenon
  <2> HIDE DEF x
  <2>6. x.nodes # <<>> /\ x.open = <<>>
    BY <2>3, <2>4, <2>5, Zenon
  <2> QED
    BY <2>2, <2>3, <2>6, ReadBack, Zenon
<1>2. ASSUME phase \in {"writing", "sent"}, ~ writer.overflow PROVE writer.pos = Size(asked)
  <2>1. Image(asked, writer)
    BY <1>2, Zenon DEF Faithful, AtWork
  <2> QED
    BY <1>2, <2>1, FittingIs, Zenon
<1>3. ASSUME phase = "refused" PROVE Size(asked) >= writer.cap \/ asked.deep
  BY <1>3, FullIs, Zenon DEF Faithful
<1>4. ASSUME phase = "sent", writer.overflow
      PROVE  /\ message.answer /\ asked = AskAll(NothingAsked, ErrorAnswer)
             /\ Size(asked) >= message.cap
  <2>1. /\ Image(asked, writer) /\ writer.cap = message.cap
        /\ message.answer /\ asked = AskAll(NothingAsked, ErrorAnswer)
    BY <1>4, Zenon DEF Faithful
  <2>2. ~ asked.deep
    BY <2>1, ErrorIsShallow, Zenon
  <2> QED
    BY <1>4, <2>1, <2>2, FullIs, Zenon
<1> HIDE DEF read
<1> QED
  BY <1>1, <1>2, <1>3, <1>4, Zenon DEF WrittenIsRead, TreeOf, read

(* What the client sends is JSON that reads back, node by node, as what    *)
(* its encoders and the application's callbacks asked for, within the      *)
(* buffer it was given; all but an error answer longer than the buffer of  *)
(* an answer, which is sent as far as it was written.  A message is given  *)
(* up only when it does not fit or is nested too deeply.                   *)
THEOREM SentIsRead == JsonSpec => []WrittenIsRead
<1>1. JsonSpec => []Faithful
  BY FaithfulAtFirst, FaithfulStep, PTL DEF JsonSpec
<1> QED
  BY <1>1, FaithfulIsRead, PTL

--------------------------------------------------------------------------------
(* The shell *)

Commands == [name : Names, handler : Nat, words : Nat]

TypeOK ==
  /\ cmds \in Seq(Commands) /\ adds \in Nat /\ latest \in [Names -> Nat]
  /\ next \in Nat \ {0} /\ best \in Commands \cup {NoCommand}
  /\ out \in [cap : Nat, pos : Nat, full : BOOLEAN]
  /\ texts \in Nat /\ total \in Nat

(* add() never gives a name a second place, keeps the last handler of each *)
(* name it has accepted, and counts the words of the name.                 *)
TableKept ==
  /\ \A i \in 1 .. Len(cmds) :
       /\ cmds[i].words = Len(cmds[i].name)
       /\ cmds[i].handler = latest[cmds[i].name] /\ latest[cmds[i].name] # 0
       /\ \A j \in 1 .. Len(cmds) : cmds[i].name = cmds[j].name => i = j
  /\ \A name \in Names : latest[name] # 0 => \E i \in 1 .. Len(cmds) : cmds[i].name = name

(* What the loop of run() has chosen matches the line and is the longest   *)
(* of the entries before next that do.                                     *)
ChosenSoFar(entry, bound) ==
  /\ entry # NoCommand =>
       \E i \in 1 .. Len(cmds) : cmds[i] = entry /\ NameMatches(entry.name, argv)
  /\ \A i \in 1 .. Len(cmds) :
       i < bound /\ NameMatches(cmds[i].name, argv) =>
         entry # NoCommand /\ cmds[i].words <= entry.words
BestSoFar == argv # Idle => ChosenSoFar(best, next)

IInv == TypeOK /\ TableKept /\ BestSoFar /\ OutputIsCutOnce

--------------------------------------------------------------------------------
(* add() *)

(* The loop of add() ends at the place of the name or behind all names. *)
LEMMA PlaceIs ==
  ASSUME TypeOK, TableKept, NEW name \in Names
  PROVE  \/ /\ Place(cmds, name) \in 1 .. Len(cmds)
            /\ cmds[Place(cmds, name)].name = name
         \/ /\ Place(cmds, name) = Len(cmds) + 1
            /\ \A i \in 1 .. Len(cmds) : cmds[i].name # name
<1>1. DOMAIN cmds = 1 .. Len(cmds) /\ Len(cmds) \in Nat
  BY LenProperties DEF TypeOK
<1> DEFINE places == {i \in DOMAIN cmds : cmds[i].name = name} \cup {Len(cmds) + 1}
<1>2. Place(cmds, name) = CHOOSE i \in places : \A j \in places : i <= j
  BY DEF Place
<1>3. CASE \E i \in 1 .. Len(cmds) : cmds[i].name = name
  <2>1. PICK i \in 1 .. Len(cmds) : cmds[i].name = name
    BY <1>3
  <2>2. places = {i, Len(cmds) + 1}
    BY <1>1, <2>1 DEF TableKept
  <2> HIDE DEF places
  <2>3. i \in places /\ \A j \in places : i <= j
    BY <1>1, <2>1, <2>2
  <2>4. Place(cmds, name) \in places /\ Place(cmds, name) <= i
    BY <1>2, <2>3
  <2>5. Place(cmds, name) = i
    BY <1>1, <2>1, <2>2, <2>4
  <2> QED
    BY <2>1, <2>5
<1>4. CASE \A i \in 1 .. Len(cmds) : cmds[i].name # name
  <2>1. places = {Len(cmds) + 1}
    BY <1>1, <1>4
  <2> HIDE DEF places
  <2>2. Place(cmds, name) = Len(cmds) + 1
    BY <1>1, <1>2, <2>1
  <2> QED
    BY <1>4, <2>2
<1> QED
  BY <1>3, <1>4

LEMMA AddInv == ASSUME IInv, NEW name \in Names, Add(name) PROVE IInv'
<1> DEFINE p == Place(cmds, name)
           e == Entry(name, adds')
<1>1. argv = Idle /\ argv' = Idle /\ adds' = adds + 1 /\ UNCHANGED runVars
  BY DEF Add, runVars
<1>2. /\ cmds \in Seq(Commands) /\ adds \in Nat /\ latest \in [Names -> Nat]
      /\ Len(cmds) \in Nat /\ \A i \in 1 .. Len(cmds) : cmds[i] \in Commands
  BY LenProperties, ElementOfSeq DEF IInv, TypeOK
<1>3. /\ e \in Commands /\ e.name = name /\ e.handler = adds + 1 /\ e.words = Len(name)
      /\ adds + 1 # 0
  BY <1>1, <1>2, ShellAssumption DEF Entry, Commands
<1>4. TypeOK' /\ TableKept'
  <2>1. CASE p <= MaxCmds
    <3> DEFINE n == IF p > Len(cmds) THEN p ELSE Len(cmds)
    <3>1. /\ cmds' = [j \in 1 .. n |-> IF j = p THEN e ELSE cmds[j]]
          /\ latest' = [latest EXCEPT ![name] = adds + 1]
      BY <1>1, <2>1 DEF Add
    <3>2. /\ n \in Nat /\ p \in 1 .. n /\ Len(cmds) <= n
          /\ \A i \in 1 .. n : i # p => i \in 1 .. Len(cmds) /\ cmds[i].name # name
      BY <1>2, PlaceIs DEF IInv, TableKept
    <3> HIDE DEF p, e, n
    <3>3. /\ cmds' \in Seq(Commands) /\ Len(cmds') = n
          /\ cmds'[p] = e /\ \A i \in 1 .. n : i # p => cmds'[i] = cmds[i]
      <4>1. \A j \in 1 .. n : (IF j = p THEN e ELSE cmds[j]) \in Commands
        BY <1>2, <1>3, <3>2
      <4> QED
        BY <3>1, <3>2, <4>1
    <3>4. /\ latest' \in [Names -> Nat] /\ latest'[name] = adds + 1
          /\ \A other \in Names : other # name => latest'[other] = latest[other]
      BY <1>2, <3>1
    <3>5. TypeOK'
      BY <1>1, <1>2, <3>3, <3>4 DEF IInv, TypeOK, runVars
    <3>6. ASSUME NEW i \in 1 .. n
          PROVE  /\ cmds'[i].words = Len(cmds'[i].name)
                 /\ cmds'[i].handler = latest'[cmds'[i].name] /\ latest'[cmds'[i].name] # 0
                 /\ \A j \in 1 .. n : cmds'[i].name = cmds'[j].name => i = j
      <4>1. CASE i = p
        <5>1. cmds'[i] = e
          BY <3>3, <4>1
        <5>2. \A j \in 1 .. n : j # p => cmds'[j].name # name
          BY <3>2, <3>3
        <5> QED
          BY <1>3, <3>4, <4>1, <5>1, <5>2
      <4>2. CASE i # p
        <5>1. /\ cmds'[i] = cmds[i] /\ i \in 1 .. Len(cmds) /\ cmds[i].name # name
              /\ cmds[i].name \in Names
          BY <1>2, <3>2, <3>3, <4>2 DEF Commands
        <5>2. \A j \in 1 .. n : cmds'[i].name = cmds'[j].name => i = j
          <6> SUFFICES ASSUME NEW j \in 1 .. n, cmds'[i].name = cmds'[j].name PROVE i = j
            OBVIOUS
          <6>1. j # p
            BY <1>3, <3>3, <5>1
          <6>2. j \in 1 .. Len(cmds) /\ cmds'[j] = cmds[j]
            BY <3>2, <3>3, <6>1
          <6> QED
            BY <5>1, <6>2 DEF IInv, TableKept
        <5> QED
          BY <3>4, <5>1, <5>2 DEF IInv, TableKept
      <4> QED
        BY <4>1, <4>2
    <3>7. ASSUME NEW other \in Names, latest'[other] # 0
          PROVE  \E i \in 1 .. n : cmds'[i].name = other
      <4>1. CASE other = name
        BY <1>3, <3>2, <3>3, <4>1
      <4>2. CASE other # name
        <5>1. PICK i \in 1 .. Len(cmds) : cmds[i].name = other
          BY <3>4, <3>7, <4>2 DEF IInv, TableKept
        <5>2. i \in 1 .. n
          BY <1>2, <3>2
        <5>3. i # p
          <6>1. p \in 1 .. Len(cmds) => cmds[p].name = name
            BY <1>2, PlaceIs DEF p, IInv
          <6> QED
            BY <4>2, <5>1, <6>1
        <5> QED
          BY <3>3, <5>1, <5>2, <5>3
      <4> QED
        BY <4>1, <4>2
    <3>8. TableKept'
      BY <3>3, <3>6, <3>7 DEF TableKept
    <3> QED
      BY <3>5, <3>8
  <2>2. CASE ~(p <= MaxCmds)
    <3>1. UNCHANGED <<cmds, latest>>
      BY <2>2 DEF Add
    <3> QED
      BY <1>1, <1>2, <3>1 DEF IInv, TypeOK, TableKept, runVars
  <2> QED
    BY <2>1, <2>2
<1>5. BestSoFar' /\ OutputIsCutOnce'
  BY <1>1 DEF BestSoFar, OutputIsCutOnce
<1> QED
  BY <1>4, <1>5 DEF IInv

--------------------------------------------------------------------------------
(* run() and what the command writes *)

LEMMA RunInv == ASSUME IInv, NEW line \in Lines, NEW cap \in OutSizes, Run(line, cap) PROVE IInv'
<1>1. /\ next' = 1 /\ best' = NoCommand /\ texts' = 0 /\ total' = 0
      /\ out' = [NoOutput EXCEPT !.cap = cap] /\ UNCHANGED <<cmds, adds, latest>>
  BY DEF Run
<1>2. out' = [cap |-> cap, pos |-> 0, full |-> FALSE] /\ cap \in Nat
  BY <1>1, ShellAssumption DEF NoOutput
<1>3. TypeOK'
  <2>1. out' \in [cap : Nat, pos : Nat, full : BOOLEAN]
    BY <1>2
  <2> QED
    BY <1>1, <2>1 DEF IInv, TypeOK
<1>4. TableKept'
  BY <1>1 DEF IInv, TableKept
<1>5. BestSoFar'
  BY <1>1 DEF BestSoFar, ChosenSoFar
<1>6. OutputIsCutOnce'
  BY <1>1, <1>2 DEF OutputIsCutOnce
<1> QED
  BY <1>3, <1>4, <1>5, <1>6 DEF IInv

LEMMA LookInv == IInv /\ Look => IInv'
<1> SUFFICES ASSUME IInv, Look PROVE IInv'
  OBVIOUS
<1>1. /\ argv # Idle /\ next <= Len(cmds) /\ next' = next + 1
      /\ best' = IF Better(cmds[next], best, argv) THEN cmds[next] ELSE best
      /\ UNCHANGED <<cmds, adds, latest, argv, out, texts, total>>
  BY DEF Look
<1>2. /\ Len(cmds) \in Nat /\ next \in 1 .. Len(cmds) /\ next + 1 \in Nat \ {0}
      /\ \A i \in 1 .. Len(cmds) :
           cmds[i] \in Commands /\ cmds[i].words \in Nat \ {0} /\ cmds[i] # NoCommand
  <2>1. Len(cmds) \in Nat /\ \A i \in 1 .. Len(cmds) : cmds[i] \in Commands
    BY LenProperties, ElementOfSeq DEF IInv, TypeOK
  <2>2. \A i \in 1 .. Len(cmds) : cmds[i].words \in Nat \ {0}
    BY <2>1, ShellAssumption DEF IInv, TableKept, Commands
  <2>3. \A i \in 1 .. Len(cmds) : cmds[i] # NoCommand
    BY <2>2 DEF NoCommand
  <2> QED
    BY <1>1, <2>1, <2>2, <2>3 DEF IInv, TypeOK
<1>3. TypeOK'
  <2>1. best' \in Commands \cup {NoCommand}
    BY <1>1, <1>2 DEF IInv, TypeOK
  <2> QED
    BY <1>1, <1>2, <2>1 DEF IInv, TypeOK
<1>4. TableKept' /\ OutputIsCutOnce'
  BY <1>1 DEF IInv, TableKept, OutputIsCutOnce
<1>5. ChosenSoFar(best, next)
  BY <1>1 DEF IInv, BestSoFar
<1>6. ChosenSoFar(best', next + 1)
  <2>1. CASE Better(cmds[next], best, argv)
    <3>1. /\ best' = cmds[next] /\ NameMatches(cmds[next].name, argv)
          /\ best = NoCommand \/ cmds[next].words > best.words
      BY <1>1, <2>1 DEF Better
    <3>2. ASSUME NEW i \in 1 .. Len(cmds), i < next + 1, NameMatches(cmds[i].name, argv)
          PROVE  cmds[i].words <= cmds[next].words
      <4>1. CASE i = next
        BY <1>2, <4>1
      <4>2. CASE i < next
        <5>1. best # NoCommand /\ cmds[i].words <= best.words
          BY <1>5, <3>2, <4>2 DEF ChosenSoFar
        <5>2. best.words \in Nat
          BY <5>1 DEF IInv, TypeOK, Commands
        <5> QED
          BY <1>2, <3>1, <5>1, <5>2
      <4> QED
        BY <1>2, <3>2, <4>1, <4>2
    <3> QED
      BY <1>2, <3>1, <3>2 DEF ChosenSoFar
  <2>2. CASE ~Better(cmds[next], best, argv)
    <3>1. /\ best' = best
          /\ NameMatches(cmds[next].name, argv) =>
               best # NoCommand /\ ~(cmds[next].words > best.words)
      BY <1>1, <2>2 DEF Better
    <3>2. ASSUME NEW i \in 1 .. Len(cmds), i < next + 1, NameMatches(cmds[i].name, argv)
          PROVE  best # NoCommand /\ cmds[i].words <= best.words
      <4>1. CASE i = next
        <5>1. best # NoCommand /\ ~(cmds[i].words > best.words)
          BY <3>1, <3>2, <4>1
        <5>2. best.words \in Nat
          BY <5>1 DEF IInv, TypeOK, Commands
        <5> QED
          BY <1>2, <5>1, <5>2
      <4>2. CASE i < next
        BY <1>5, <3>2, <4>2 DEF ChosenSoFar
      <4> QED
        BY <1>2, <3>2, <4>1, <4>2
    <3> QED
      BY <1>5, <3>1, <3>2 DEF ChosenSoFar
  <2> QED
    BY <2>1, <2>2
<1>7. BestSoFar'
  BY <1>1, <1>6 DEF BestSoFar, ChosenSoFar
<1> QED
  BY <1>3, <1>4, <1>7 DEF IInv

LEMMA ReturnInv == IInv /\ Return => IInv'
<1> SUFFICES ASSUME IInv, Return PROVE IInv'
  OBVIOUS
<1>1. /\ argv' = Idle /\ next' = 1 /\ best' = NoCommand /\ texts' = 0 /\ total' = 0
      /\ out' = [cap |-> 0, pos |-> 0, full |-> FALSE] /\ UNCHANGED <<cmds, adds, latest>>
  BY DEF Return, NoOutput
<1>2. TypeOK'
  BY <1>1 DEF IInv, TypeOK
<1>3. TableKept' /\ BestSoFar' /\ OutputIsCutOnce'
  BY <1>1 DEF IInv, TableKept, BestSoFar, OutputIsCutOnce
<1> QED
  BY <1>2, <1>3 DEF IInv

(* write() and printf() cut a text at the same place. *)
LEMMA WritersAgree ==
  ASSUME NEW o \in [cap : Nat, pos : Nat, full : BOOLEAN], NEW len \in Nat,
         o.cap > 0 => o.pos < o.cap
  PROVE  /\ Written(o, len) = Printed(o, len)
         /\ Printed(o, len).cap = o.cap
         /\ o.cap = 0 \/ o.full => Printed(o, len) = o
         /\ o.cap > 0 /\ ~o.full =>
              /\ Printed(o, len).pos = IF o.pos + len < o.cap THEN o.pos + len ELSE o.cap - 1
              /\ Printed(o, len).full <=> o.pos + len >= o.cap
<1>1. o = [cap |-> o.cap, pos |-> o.pos, full |-> o.full]
      /\ o.cap \in Nat /\ o.pos \in Nat
  OBVIOUS
<1>2. CASE o.cap = 0 \/ o.full
  BY <1>1, <1>2 DEF Written, Printed
<1>3. CASE ~(o.cap = 0 \/ o.full) /\ len >= o.cap - o.pos
  <2>1. Printed(o, len) = [cap |-> o.cap, pos |-> o.cap - 1, full |-> TRUE]
    BY <1>1, <1>3 DEF Printed
  <2>2. Written(o, len) = [cap |-> o.cap, pos |-> o.cap - 1, full |-> TRUE]
    <3> DEFINE room == o.cap - 1 - o.pos
               more == IF len > room THEN room ELSE len
    <3>1. len > room /\ o.pos + more = o.cap - 1
      BY <1>1, <1>3
    <3>2. Written(o, len) = [o EXCEPT !.pos = @ + more, !.full = len > room]
      BY <1>3, Zenon DEF Written
    <3> HIDE DEF room, more
    <3>3. (len > room) = TRUE
      BY <3>1, Zenon
    <3>4. Written(o, len) = [o EXCEPT !.pos = @ + more, !.full = TRUE]
      BY <3>2, <3>3, Zenon
    <3> QED
      BY <1>1, <3>1, <3>4
  <2> QED
    BY <1>1, <1>3, <2>1, <2>2
<1>4. CASE ~(o.cap = 0 \/ o.full) /\ ~(len >= o.cap - o.pos)
  <2>1. Printed(o, len) = [cap |-> o.cap, pos |-> o.pos + len, full |-> FALSE]
    BY <1>1, <1>4 DEF Printed
  <2>2. Written(o, len) = [cap |-> o.cap, pos |-> o.pos + len, full |-> FALSE]
    <3> DEFINE room == o.cap - 1 - o.pos
               more == IF len > room THEN room ELSE len
    <3>1. ~(len > room) /\ more = len /\ room \in Int
      BY <1>1, <1>4
    <3>2. Written(o, len) = [o EXCEPT !.pos = @ + more, !.full = len > room]
      BY <1>4, Zenon DEF Written
    <3> HIDE DEF room, more
    <3>3. (len > room) = FALSE
      BY <3>1, SMT
    <3>4. Written(o, len) = [o EXCEPT !.pos = @ + len, !.full = FALSE]
      BY <3>1, <3>2, <3>3, Zenon
    <3> QED
      BY <1>1, <3>4
  <2> QED
    BY <1>1, <1>4, <2>1, <2>2
<1> QED
  BY <1>2, <1>3, <1>4

LEMMA OutputInv == ASSUME IInv, NEW len \in TextLens, Output(len) PROVE IInv'
<1>1. /\ argv # Idle /\ out' \in {Written(out, len), Printed(out, len)}
      /\ texts' = texts + 1 /\ total' = total + len
      /\ UNCHANGED <<cmds, adds, latest, argv, next, best>>
  BY DEF Output, Chosen
<1>2. /\ out \in [cap : Nat, pos : Nat, full : BOOLEAN] /\ total \in Nat /\ len \in Nat
      /\ out.cap \in Nat /\ out.pos \in Nat
  BY ShellAssumption DEF IInv, TypeOK
<1>3. out.cap > 0 =>
        /\ out.pos = (IF total < out.cap THEN total ELSE out.cap - 1)
        /\ out.full <=> total > out.pos
  BY <1>1 DEF IInv, OutputIsCutOnce
<1>4. out.cap > 0 => out.pos < out.cap
  BY <1>2, <1>3
<1>5. /\ out' = Printed(out, len) /\ out'.cap = out.cap
      /\ out.cap = 0 \/ out.full => out' = out
      /\ out.cap > 0 /\ ~out.full =>
           /\ out'.pos = IF out.pos + len < out.cap THEN out.pos + len ELSE out.cap - 1
           /\ out'.full <=> out.pos + len >= out.cap
  BY <1>1, <1>2, <1>4, WritersAgree
<1>6. out' \in [cap : Nat, pos : Nat, full : BOOLEAN]
  <2>1. CASE out.cap = 0 \/ out.full
    BY <1>2, <1>5, <2>1
  <2>2. CASE ~(out.cap = 0 \/ out.full) /\ len >= out.cap - out.pos
    <3>1. out' = [out EXCEPT !.pos = out.cap - 1, !.full = TRUE] /\ out.cap - 1 \in Nat
      BY <1>2, <1>5, <2>2 DEF Printed
    <3> QED
      BY <1>2, <3>1
  <2>3. CASE ~(out.cap = 0 \/ out.full) /\ ~(len >= out.cap - out.pos)
    <3>1. out' = [out EXCEPT !.pos = @ + len] /\ out.pos + len \in Nat
      BY <1>2, <1>5, <2>3 DEF Printed
    <3> QED
      BY <1>2, <3>1
  <2> QED
    BY <2>1, <2>2, <2>3
<1>7. TypeOK'
  BY <1>1, <1>2, <1>6 DEF IInv, TypeOK
<1>8. TableKept' /\ BestSoFar'
  BY <1>1 DEF IInv, TableKept, BestSoFar, ChosenSoFar
<1>9. OutputIsCutOnce'
  <2> SUFFICES ASSUME out.cap > 0
               PROVE  /\ out'.pos = (IF total + len < out.cap THEN total + len ELSE out.cap - 1)
                      /\ out'.full <=> total + len > out'.pos
    BY <1>1, <1>5 DEF OutputIsCutOnce
  <2>1. CASE out.full
    <3>1. out' = out /\ total > out.pos /\ out.pos = out.cap - 1
      BY <1>2, <1>3, <1>5, <2>1
    <3> QED
      BY <1>2, <2>1, <3>1
  <2>2. CASE ~out.full
    <3>1. total = out.pos
      BY <1>2, <1>3, <2>2
    <3>2. /\ out'.pos = IF total + len < out.cap THEN total + len ELSE out.cap - 1
          /\ out'.full <=> total + len >= out.cap
      BY <1>2, <1>5, <2>2, <3>1
    <3> QED
      BY <1>2, <3>2
  <2> QED
    BY <2>1, <2>2
<1> QED
  BY <1>7, <1>8, <1>9 DEF IInv

--------------------------------------------------------------------------------
(* The whole invariant *)

LEMMA InitInv == ShellInit => IInv
<1> SUFFICES ASSUME ShellInit PROVE IInv
  OBVIOUS
<1>1. /\ cmds = <<>> /\ Len(cmds) = 0 /\ cmds \in Seq(Commands) /\ argv = Idle
      /\ \A name \in Names : latest[name] = 0
  BY EmptySeq DEF ShellInit
<1>2. TypeOK
  BY <1>1 DEF ShellInit, TypeOK, NoOutput
<1>3. TableKept
  BY <1>1 DEF TableKept
<1>4. BestSoFar /\ OutputIsCutOnce
  BY <1>1 DEF BestSoFar, OutputIsCutOnce
<1> QED
  BY <1>2, <1>3, <1>4 DEF IInv

LEMMA NextInv == IInv /\ [ShellNext]_shellVars => IInv'
<1> SUFFICES ASSUME IInv, [ShellNext]_shellVars PROVE IInv'
  OBVIOUS
<1>1. CASE ShellNext
  BY <1>1, AddInv, RunInv, OutputInv, LookInv, ReturnInv DEF ShellNext
<1>2. CASE UNCHANGED shellVars
  BY <1>2 DEF IInv, TypeOK, TableKept, BestSoFar, ChosenSoFar, OutputIsCutOnce, shellVars
<1> QED
  BY <1>1, <1>2

THEOREM Inductive == ShellSpec => []IInv
<1>1. ShellInit => IInv
  BY InitInv
<1>2. IInv /\ [ShellNext]_shellVars => IInv'
  BY NextInv
<1> QED
  BY <1>1, <1>2, PTL DEF ShellSpec

(* run() calls the handler last registered for the longest name a line     *)
(* begins with, whatever order add() filled the table in.                  *)
THEOREM LongestNameWins == ShellSpec => []LongestMatchRuns
<1>1. IInv => LongestMatchRuns
  <2> SUFFICES ASSUME IInv, Chosen
               PROVE  LET candidates == {name \in Names : latest[name] # 0
                                                          /\ NameMatches(name, argv)}
                      IN  IF candidates = {} THEN best = NoCommand
                          ELSE /\ best.name \in candidates
                               /\ \A name \in candidates : Len(name) <= Len(best.name)
                               /\ best.handler = latest[best.name]
    BY DEF LongestMatchRuns
  <2> DEFINE candidates == {name \in Names : latest[name] # 0 /\ NameMatches(name, argv)}
  <2>1. ChosenSoFar(best, next) /\ next > Len(cmds) /\ next \in Nat /\ Len(cmds) \in Nat
    BY LenProperties DEF Chosen, IInv, TypeOK, BestSoFar
  <2>2. \A i \in 1 .. Len(cmds) : cmds[i] \in Commands
    BY ElementOfSeq DEF IInv, TypeOK
  <2>3. best # NoCommand =>
          /\ best.name \in candidates /\ best.handler = latest[best.name]
          /\ best.words = Len(best.name)
    <3> SUFFICES ASSUME best # NoCommand
                 PROVE  /\ best.name \in candidates /\ best.handler = latest[best.name]
                        /\ best.words = Len(best.name)
      OBVIOUS
    <3>1. PICK i \in 1 .. Len(cmds) : cmds[i] = best /\ NameMatches(best.name, argv)
      BY <2>1 DEF ChosenSoFar
    <3>2. best.name \in Names
      BY <2>2, <3>1 DEF Commands
    <3> QED
      BY <3>1, <3>2 DEF IInv, TableKept
  <2>4. ASSUME NEW name \in candidates
        PROVE  best # NoCommand /\ Len(name) <= best.words
    <3>1. PICK i \in 1 .. Len(cmds) : cmds[i].name = name
      BY DEF IInv, TableKept
    <3>2. i < next /\ cmds[i].words = Len(name)
      BY <2>1, <3>1 DEF IInv, TableKept
    <3> QED
      BY <2>1, <3>1, <3>2 DEF ChosenSoFar
  <2> HIDE DEF candidates
  <2>5. IF candidates = {} THEN best = NoCommand
        ELSE /\ best.name \in candidates
             /\ \A name \in candidates : Len(name) <= Len(best.name)
             /\ best.handler = latest[best.name]
    BY <2>3, <2>4
  <2> QED
    BY <2>5 DEF candidates
<1> QED
  BY <1>1, Inductive, PTL

(* sc_shell_out: write() and printf(), in any mixture, keep what fits and  *)
(* tell exactly when something is missing.                                 *)
THEOREM OutputIsCut == ShellSpec => []OutputIsCutOnce
<1>1. IInv => OutputIsCutOnce
  BY DEF IInv
<1> QED
  BY <1>1, Inductive, PTL
================================================================================
