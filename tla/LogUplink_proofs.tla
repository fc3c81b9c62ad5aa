--------------------------- MODULE LogUplink_proofs ---------------------------
(***************************************************************************)
(* Proofs about module LogUplink, for every set of tasks, every ring,      *)
(* batch and line size, and any number of packets, lines and rounds.       *)
(***************************************************************************)
EXTENDS LogUplink, SequenceTheorems, FiniteSetTheorems, TLAPS

(* Exactly the task between sink_start() and sink_end() holds sink_lock,   *)
(* and what it has written of its packet is as much as it has sent.        *)
SinkHeld ==
  /\ \A t \in Tasks : pc[t] \in {"payload", "bin"} <=> sinkLock = t
  /\ sinkLock = NoTask => sinkItem = NoEntry
  /\ \A t \in Tasks : pc[t] = "bin" => sinkItem = NoEntry
  /\ sinkItem # NoEntry =>
       /\ sinkItem.end = acquired["bin"] /\ sinkItem.data # <<>>
       /\ Len(sinkItem.data) + job[sinkLock].left = sinkItem.len
       /\ \A j \in DOMAIN sinkItem.data : sinkItem.data[j] = job[sinkLock].id

(* The entries of a ring lie one behind the other in its used part, behind *)
(* the one the upload task holds; a text line always fits a batch.         *)
RingOf(k) ==
  /\ \A i \in 1 .. Len(ring[k]) :
       /\ ring[k][i].data # <<>> /\ ring[k][i].len > 0
       /\ freed[k] <= ring[k][i].end /\ ring[k][i].end <= acquired[k]
       /\ \A j \in 1 .. i : ring[k][j].end <= ring[k][i].end
       /\ k = "text" => ring[k][i].len < LineMax
  /\ up[1] = k /\ held # NoEntry =>
       /\ held.data # <<>> /\ held.len > 0
       /\ freed[k] <= held.end /\ held.end <= acquired[k]
       /\ \A i \in 1 .. Len(ring[k]) : held.end <= ring[k][i].end
       /\ k = "text" => held.len < LineMax
RingKept == \A k \in Kinds : RingOf(k)

(* The position in the batch buffer tells whether something is in it, and  *)
(* between two rounds nothing is.                                          *)
BatchKept ==
  /\ batch.len = 0 => batch = NoBatch
  /\ up[2] \in {"delay", "start", "store"} => batch = NoBatch
  /\ up # Delay => batch.len <= Cap(up[1])

(* Ids grow, and none is stored that has not been logged. *)
Ordered(s, n) ==
  /\ \A i \in DOMAIN s : s[i] <= n
  /\ \A i, j \in DOMAIN s : i < j => s[i] < s[j]
IdsOrdered == \A k \in Kinds : Ordered(StoredIds(k), logged[k])

Shapes == TypeOK /\ SinkHeld /\ RingKept /\ BatchKept

IInv == Shapes /\ PacketIsWhole /\ IdsOrdered /\ Accounted

--------------------------------------------------------------------------------
(* Sequences of ids *)

LEMMA IdType ==
  ASSUME NEW e \in Entries, e.data # <<>>
  PROVE  Id(e) \in Nat /\ e # NoEntry /\ IdOf(e) = <<Id(e)>> /\ Len(e.data) > 0
<1>1. e.data \in Seq(Nat)
  BY DEF Entries
<1>2. Len(e.data) \in Nat \ {0}
  BY <1>1, EmptySeq
<1>3. e.data[1] \in Nat
  BY <1>1, <1>2, ElementOfSeq
<1>4. e # NoEntry
  BY DEF NoEntry
<1> QED
  BY <1>2, <1>3, <1>4 DEF Id, IdOf

LEMMA IdsOfType ==
  ASSUME NEW s \in Seq(Entries), \A i \in 1 .. Len(s) : s[i].data # <<>>
  PROVE  /\ IdsOf(s) \in Seq(Nat) /\ Len(IdsOf(s)) = Len(s)
         /\ \A i \in 1 .. Len(s) : IdsOf(s)[i] = Id(s[i])
<1>1. \A i \in 1 .. Len(s) : Id(s[i]) \in Nat
  BY ElementOfSeq, IdType
<1>2. Len(s) \in Nat
  BY LenProperties
<1> QED
  BY <1>1, <1>2 DEF IdsOf

LEMMA IdsOfAppend ==
  ASSUME NEW s \in Seq(Entries), \A i \in 1 .. Len(s) : s[i].data # <<>>,
         NEW e \in Entries, e.data # <<>>
  PROVE  IdsOf(Append(s, e)) = IdsOf(s) \o <<Id(e)>>
<1> DEFINE t == Append(s, e)
<1>1. /\ t \in Seq(Entries) /\ Len(t) = Len(s) + 1 /\ Len(s) \in Nat
      /\ \A i \in 1 .. Len(s) : t[i] = s[i]
      /\ t[Len(s) + 1] = e
  BY LenProperties
<1> HIDE DEF t
<1>2. \A i \in 1 .. Len(t) : t[i].data # <<>>
  BY <1>1
<1>3. /\ IdsOf(t) \in Seq(Nat) /\ Len(IdsOf(t)) = Len(t)
      /\ \A i \in 1 .. Len(t) : IdsOf(t)[i] = Id(t[i])
  BY <1>1, <1>2, IdsOfType
<1>4. /\ IdsOf(s) \in Seq(Nat) /\ Len(IdsOf(s)) = Len(s)
      /\ \A i \in 1 .. Len(s) : IdsOf(s)[i] = Id(s[i])
  BY IdsOfType
<1>5. Id(e) \in Nat
  BY IdType
<1>6. /\ IdsOf(s) \o <<Id(e)>> \in Seq(Nat)
      /\ Len(IdsOf(s) \o <<Id(e)>>) = Len(s) + 1
      /\ \A i \in 1 .. Len(s) + 1 :
            (IdsOf(s) \o <<Id(e)>>)[i] = IF i <= Len(s) THEN IdsOf(s)[i] ELSE Id(e)
  BY <1>1, <1>4, <1>5
<1>7. \A i \in 1 .. Len(s) + 1 : IdsOf(t)[i] = (IdsOf(s) \o <<Id(e)>>)[i]
  <2> TAKE i \in 1 .. Len(s) + 1
  <2>1. IdsOf(t)[i] = Id(t[i])
    BY <1>1, <1>3
  <2>2. CASE i <= Len(s)
    BY <1>1, <1>4, <1>6, <2>1, <2>2
  <2>3. CASE i = Len(s) + 1
    <3>1. (IdsOf(s) \o <<Id(e)>>)[i] = Id(e)
      BY <1>1, <1>6, <2>3
    <3>2. t[i] = e
      BY <1>1, <2>3
    <3> QED
      BY <2>1, <3>1, <3>2, Zenon
  <2>4. i <= Len(s) \/ i = Len(s) + 1
    BY <1>1
  <2> QED
    BY <2>2, <2>3, <2>4
<1> QED
  BY <1>1, <1>3, <1>6, <1>7, SeqEqual DEF t

LEMMA IdsOfTail ==
  ASSUME NEW s \in Seq(Entries), \A i \in 1 .. Len(s) : s[i].data # <<>>, s # <<>>
  PROVE  IdsOf(s) = <<Id(Head(s))>> \o IdsOf(Tail(s))
<1> DEFINE t == Tail(s)
<1>1. /\ t \in Seq(Entries) /\ Len(s) \in Nat \ {0} /\ Len(t) = Len(s) - 1
      /\ \A i \in 1 .. Len(t) : t[i] = s[i + 1]
      /\ Head(s) = s[1] /\ Head(s) \in Entries
  BY LenProperties, HeadTailProperties, EmptySeq
<1> HIDE DEF t
<1>2. \A i \in 1 .. Len(t) : t[i].data # <<>>
  BY <1>1
<1>3. /\ IdsOf(t) \in Seq(Nat) /\ Len(IdsOf(t)) = Len(t)
      /\ \A i \in 1 .. Len(t) : IdsOf(t)[i] = Id(t[i])
  BY <1>1, <1>2, IdsOfType
<1>4. /\ IdsOf(s) \in Seq(Nat) /\ Len(IdsOf(s)) = Len(s)
      /\ \A i \in 1 .. Len(s) : IdsOf(s)[i] = Id(s[i])
  BY IdsOfType
<1>5. Id(Head(s)) \in Nat
  BY <1>1, IdType
<1> DEFINE u == <<Id(Head(s))>> \o IdsOf(t)
<1>6. /\ u \in Seq(Nat) /\ Len(u) = Len(s)
      /\ \A i \in 1 .. Len(s) : u[i] = IF i <= 1 THEN Id(Head(s)) ELSE IdsOf(t)[i - 1]
  BY <1>1, <1>3, <1>5
<1> HIDE DEF u
<1>7. ASSUME NEW i \in 1 .. Len(s) PROVE IdsOf(s)[i] = u[i]
  <2>1. CASE i = 1
    BY <1>1, <1>4, <1>6, <2>1
  <2>2. CASE i > 1
    <3>1. i - 1 \in 1 .. Len(t) /\ i = (i - 1) + 1
      BY <1>1, <2>2
    <3>2. IdsOf(t)[i - 1] = Id(s[i])
      BY <1>1, <1>3, <3>1
    <3> QED
      BY <1>1, <1>4, <1>6, <2>2, <3>2
  <2> QED
    BY <1>1, <2>1, <2>2
<1>8. IdsOf(s) = u
  BY <1>4, <1>6, <1>7, SeqEqual
<1> QED
  BY <1>8 DEF t, u

LEMMA OrderedAppend ==
  ASSUME NEW s \in Seq(Nat), NEW n \in Nat, Ordered(s, n)
  PROVE  Ordered(s \o <<n + 1>>, n + 1) /\ Len(s \o <<n + 1>>) = Len(s) + 1
<1> DEFINE t == s \o <<n + 1>>
<1>1. Len(s) \in Nat /\ DOMAIN s = 1 .. Len(s) /\ \A i \in 1 .. Len(s) : s[i] \in Nat
  BY LenProperties, ElementOfSeq
<1>2. /\ t \in Seq(Nat) /\ Len(t) = Len(s) + 1 /\ DOMAIN t = 1 .. Len(s) + 1
      /\ \A i \in 1 .. Len(s) : t[i] = s[i]
      /\ t[Len(s) + 1] = n + 1
  BY <1>1
<1> HIDE DEF t
<1>3. \A i \in DOMAIN t : t[i] <= n + 1
  BY <1>1, <1>2 DEF Ordered
<1>4. ASSUME NEW i \in DOMAIN t, NEW j \in DOMAIN t, i < j PROVE t[i] < t[j]
  <2>1. i \in 1 .. Len(s) /\ t[i] = s[i]
    BY <1>1, <1>2, <1>4
  <2>2. CASE j <= Len(s)
    <3>1. j \in 1 .. Len(s) /\ t[j] = s[j]
      BY <1>1, <1>2, <2>2
    <3> QED
      BY <1>1, <1>4, <2>1, <3>1 DEF Ordered
  <2>3. CASE j = Len(s) + 1
    <3>1. s[i] <= n /\ s[i] \in Nat
      BY <1>1, <2>1 DEF Ordered
    <3> QED
      BY <1>2, <2>1, <2>3, <3>1
  <2> QED
    BY <1>1, <1>2, <2>2, <2>3
<1> QED
  BY <1>2, <1>3, <1>4 DEF t, Ordered

(* Where the ids of a kind are. *)
LEMMA PartsType ==
  ASSUME Shapes, NEW k \in Kinds
  PROVE  /\ out[k].ids \in Seq(Nat) /\ out[k].told \in Nat
         /\ batch.ids \in Seq(Nat) /\ batch.told \in Nat
         /\ IdOf(held) \in Seq(Nat) /\ Taken(k) \in Seq(Nat)
         /\ IdsOf(ring[k]) \in Seq(Nat) /\ Written(k) \in Seq(Nat)
         /\ StoredIds(k) \in Seq(Nat)
         /\ Told(k) \in Nat /\ lost[k].entries \in Nat /\ lost[k].told \in Nat
<1> USE DEF Shapes
<1>1. /\ out[k].ids \in Seq(Nat) /\ out[k].told \in Nat
      /\ batch.ids \in Seq(Nat) /\ batch.told \in Nat
  BY DEF TypeOK
<1>2. IdOf(held) \in Seq(Nat)
  <2>1. CASE held = NoEntry
    BY <2>1, EmptySeq DEF IdOf
  <2>2. CASE held # NoEntry
    <3>1. up[2] \in {"copy", "store"} /\ up \in {Delay} \cup (Kinds \X {"start", "receive", "copy", "store"})
      BY <2>2 DEF TypeOK
    <3>2. up[1] \in Kinds
      BY <3>1 DEF Delay
    <3>3. held.data # <<>>
      BY <2>2, <3>2 DEF RingKept, RingOf
    <3>4. Id(held) \in Nat /\ IdOf(held) = <<Id(held)>>
      BY <3>3, IdType DEF TypeOK
    <3> QED
      BY <3>4
  <2> QED
    BY <2>1, <2>2
<1>3. Taken(k) \in Seq(Nat)
  BY <1>1, <1>2, ConcatProperties, EmptySeq DEF Taken
<1>4. IdsOf(ring[k]) \in Seq(Nat)
  <2>1. ring[k] \in Seq(Entries) /\ \A i \in 1 .. Len(ring[k]) : ring[k][i].data # <<>>
    BY DEF TypeOK, RingKept, RingOf
  <2> QED
    BY <2>1, IdsOfType
<1>5. Written(k) \in Seq(Nat)
  <2>1. CASE k = "bin" /\ sinkItem # NoEntry
    <3>1. Id(sinkItem) \in Nat /\ IdOf(sinkItem) = <<Id(sinkItem)>>
      BY <2>1, IdType DEF TypeOK, SinkHeld
    <3> QED
      BY <2>1, <3>1 DEF Written
  <2>2. CASE ~(k = "bin" /\ sinkItem # NoEntry)
    BY <2>2, EmptySeq DEF Written, IdOf
  <2> QED
    BY <2>1, <2>2
<1>6. StoredIds(k) \in Seq(Nat)
  BY <1>1, <1>3, <1>4, <1>5, ConcatProperties DEF StoredIds
<1>7. Told(k) \in Nat
  BY <1>1 DEF Told
<1>8. lost[k].entries \in Nat /\ lost[k].told \in Nat
  BY DEF TypeOK
<1> QED
  BY <1>1, <1>2, <1>3, <1>4, <1>5, <1>6, <1>7, <1>8

LEMMA UncountedType ==
  ASSUME NEW k
  PROVE  IsFiniteSet(Uncounted(k)) /\ Cardinality(Uncounted(k)) \in Nat
<1>1. Uncounted(k) \in SUBSET Tasks
  BY DEF Uncounted
<1> QED
  BY <1>1, FS_Subset, FS_CardinalityType, LogUplinkAssumption

LEMMA NothingTaken ==
  ASSUME batch = NoBatch, held = NoEntry, NEW k
  PROVE  Taken(k) = <<>> /\ batch.ids \o IdOf(held) = <<>>
<1>1. batch.ids \o IdOf(held) = <<>> \o <<>>
  BY DEF NoBatch, IdOf
<1>2. <<>> \o <<>> = <<>>
  BY EmptySeq, ConcatEmptySeq
<1> QED
  BY <1>1, <1>2 DEF Taken

--------------------------------------------------------------------------------
(* The upload task: it moves ids from one place to the next one *)

(* What it leaves alone. *)
LEMMA SinkUntouched == SinkHeld /\ UNCHANGED logVars => SinkHeld'
BY DEF SinkHeld, logVars

LEMMA CountsKept ==
  ASSUME IInv, UNCHANGED <<logVars, lost>>,
         \A k \in Kinds : StoredIds(k)' = StoredIds(k),
         \A k \in Kinds : Told(k)' + dropped'[k] = Told(k) + dropped[k],
         \A k \in Kinds : Told(k)' \in Nat /\ dropped'[k] \in Nat
  PROVE  IdsOrdered' /\ Accounted'
<1>1. logged' = logged /\ pc' = pc /\ lost' = lost
  BY DEF logVars
<1>2. IdsOrdered'
  BY <1>1 DEF IInv, IdsOrdered, Ordered
<1>3. ASSUME NEW k \in Kinds
      PROVE  (logged[k] = Len(StoredIds(k)) + LostOf(k) + Told(k) + dropped[k]
                          + Cardinality(Uncounted(k)))'
  <2>1. Uncounted(k)' = Uncounted(k)
    BY <1>1 DEF Uncounted
  <2>2. Cardinality(Uncounted(k)) \in Nat /\ Len(StoredIds(k)) \in Nat
    BY UncountedType, PartsType, LenProperties DEF IInv
  <2>3. Told(k) \in Nat /\ dropped[k] \in Nat /\ LostOf(k) \in Nat /\ LostOf(k)' = LostOf(k)
    <3>1. Told(k) \in Nat /\ LostOf(k) \in Nat
      BY PartsType DEF IInv, LostOf
    <3>2. dropped[k] \in Nat
      BY DEF IInv, Shapes, TypeOK
    <3>3. LostOf(k)' = LostOf(k)
      BY <1>1 DEF LostOf
    <3> QED
      BY <3>1, <3>2, <3>3
  <2>4. logged[k] = Len(StoredIds(k)) + LostOf(k) + Told(k) + dropped[k]
                    + Cardinality(Uncounted(k))
    BY DEF IInv, Accounted
  <2>5. /\ Told(k)' + dropped'[k] = Told(k) + dropped[k]
        /\ Told(k)' \in Nat /\ dropped'[k] \in Nat
    OBVIOUS
  <2>6. logged[k] = Len(StoredIds(k)) + LostOf(k) + Told(k)' + dropped'[k]
                    + Cardinality(Uncounted(k))
    <3> DEFINE n == Len(StoredIds(k))
               c == Cardinality(Uncounted(k))
               a == Told(k)
               b == dropped[k]
               a1 == Told(k)'
               b1 == dropped'[k]
               l == LostOf(k)
    <3>1. /\ n \in Nat /\ c \in Nat /\ a \in Nat /\ b \in Nat /\ a1 \in Nat /\ b1 \in Nat
          /\ l \in Nat /\ logged[k] = n + l + a + b + c /\ a1 + b1 = a + b
      BY <2>2, <2>3, <2>4, <2>5
    <3> HIDE DEF n, c, a, b, a1, b1, l
    <3>2. logged[k] = n + l + a1 + b1 + c
      BY <3>1
    <3> QED
      BY <3>2 DEF n, c, a1, b1, l
  <2>7. StoredIds(k)' = StoredIds(k)
    OBVIOUS
  <2> QED
    BY <1>1, <2>1, <2>3, <2>6, <2>7
<1>4. Accounted'
  BY <1>3 DEF Accounted
<1> QED
  BY <1>2, <1>4

(* What is published is added to what was taken, or to what was lost. *)
Took(k, told, ids) ==
  /\ out'[k].ids = out[k].ids \o ids /\ out'[k].told = out[k].told + told
  /\ \A q \in Kinds : q # k => out'[q] = out[q]
  /\ lost' = lost
Lost(k, told, ids) ==
  /\ lost'[k].entries = lost[k].entries + Len(ids) /\ lost'[k].told = lost[k].told + told
  /\ \A q \in Kinds : q # k => lost'[q] = lost[q]
  /\ out' = out

LEMMA Published ==
  ASSUME Shapes, NEW k \in Kinds, NEW told \in Nat, NEW ids \in Seq(Nat), Publish(k, told, ids)
  PROVE  /\ out' \in [Kinds -> [ids : Seq(Nat), told : Nat]]
         /\ lost' \in [Kinds -> [entries : Nat, told : Nat]]
         /\ Took(k, told, ids) \/ Lost(k, told, ids)
<1>1. /\ out \in [Kinds -> [ids : Seq(Nat), told : Nat]]
      /\ lost \in [Kinds -> [entries : Nat, told : Nat]]
  BY DEF Shapes, TypeOK
<1>2. CASE /\ out' = [out EXCEPT ![k] = [ids |-> @.ids \o ids, told |-> @.told + told]]
           /\ lost' = lost
  <2> DEFINE all == out[k].ids \o ids
             sum == out[k].told + told
  <2>1. all \in Seq(Nat) /\ sum \in Nat
    BY <1>1, ConcatProperties
  <2>2. out' = [out EXCEPT ![k] = [ids |-> all, told |-> sum]]
    BY <1>2
  <2> HIDE DEF all, sum
  <2>3. /\ out' \in [Kinds -> [ids : Seq(Nat), told : Nat]]
        /\ out'[k].ids = all /\ out'[k].told = sum
        /\ \A q \in Kinds : q # k => out'[q] = out[q]
    BY <1>1, <2>1, <2>2
  <2> QED
    BY <1>1, <1>2, <2>3 DEF all, sum, Took
<1>3. CASE /\ lost' = [lost EXCEPT ![k] = [entries |-> @.entries + Len(ids), told |-> @.told + told]]
           /\ out' = out
  <2> DEFINE all == lost[k].entries + Len(ids)
             sum == lost[k].told + told
  <2>1. all \in Nat /\ sum \in Nat
    BY <1>1, LenProperties
  <2>2. lost' = [lost EXCEPT ![k] = [entries |-> all, told |-> sum]]
    BY <1>3
  <2> HIDE DEF all, sum
  <2>3. /\ lost' \in [Kinds -> [entries : Nat, told : Nat]]
        /\ lost'[k].entries = all /\ lost'[k].told = sum
        /\ \A q \in Kinds : q # k => lost'[q] = lost[q]
    BY <1>1, <2>1, <2>2
  <2> QED
    BY <1>1, <1>3, <2>3 DEF all, sum, Lost
<1> QED
  BY <1>2, <1>3 DEF Publish

LEMMA StartRoundInv == IInv /\ StartRound => IInv'
<1> SUFFICES ASSUME IInv, StartRound PROVE IInv'
  OBVIOUS
<1>1. /\ up[1] = "none" /\ up'[1] = "bin" /\ up'[2] = "start"
      /\ UNCHANGED <<logVars, ring, freed, dropped, held, batch, out, lost>>
  BY DEF results, StartRound, Delay, UpPc
<1>2. batch = NoBatch /\ held = NoEntry
  BY DEF IInv, Shapes, TypeOK, BatchKept, StartRound, Delay
<1>3. TypeOK'
  <2>1. up' \in {Delay} \cup (Kinds \X {"start", "receive", "copy", "store"})
    BY DEF StartRound, UpPc, Kinds
  <2>2. BatchFits'
    BY <1>1, <1>2, LogUplinkAssumption DEF BatchFits, NoBatch, SyncLen
  <2> QED
    BY <1>1, <1>2, <2>1, <2>2 DEF IInv, Shapes, TypeOK, logVars
<1>4. SinkHeld' /\ PacketIsWhole'
  BY <1>1, SinkUntouched DEF IInv, Shapes, PacketIsWhole
<1>5. RingKept'
  BY <1>1, <1>2 DEF IInv, Shapes, RingKept, RingOf, logVars
<1>6. BatchKept'
  BY <1>1, <1>2, LogUplinkAssumption DEF BatchKept, NoBatch, Cap, SyncLen
<1>7. \A k \in Kinds : StoredIds(k)' = StoredIds(k)
  <2>1. \A k : Taken(k) = <<>>
    BY <1>2, NothingTaken
  <2>2. \A k : Taken(k)' = <<>>
    <3>1. batch.ids \o IdOf(held) = <<>>
      BY <1>2, NothingTaken
    <3>2. (batch.ids \o IdOf(held))' = <<>>
      BY <1>1, <3>1 DEF IdOf
    <3> QED
      BY <3>2 DEF Taken
  <2> QED
    BY <1>1, <2>1, <2>2 DEF StoredIds, Written, logVars
<1>8. ASSUME NEW k \in Kinds
      PROVE  /\ Told(k)' + dropped'[k] = Told(k) + dropped[k]
             /\ Told(k)' \in Nat /\ dropped'[k] \in Nat
  <2>1. Told(k)' = Told(k) /\ Told(k) \in Nat
    BY <1>1, <1>2, PartsType DEF IInv, Told, NoBatch
  <2> QED
    BY <1>1, <2>1 DEF IInv, Shapes, TypeOK
<1> QED
  BY <1>1, <1>3, <1>4, <1>5, <1>6, <1>7, <1>8, CountsKept DEF IInv, Shapes

LEMMA IdsAssociative ==
  ASSUME NEW a \in Seq(Nat), NEW b \in Seq(Nat), NEW c \in Seq(Nat)
  PROVE  (a \o b) \o c = a \o (b \o c)
<1> DEFINE l == (a \o b) \o c
           m == a \o (b \o c)
<1>1. /\ Len(a) \in Nat /\ Len(b) \in Nat /\ Len(c) \in Nat
      /\ a \o b \in Seq(Nat) /\ Len(a \o b) = Len(a) + Len(b)
      /\ b \o c \in Seq(Nat) /\ Len(b \o c) = Len(b) + Len(c)
  BY LenProperties, ConcatProperties
<1>2. /\ l \in Seq(Nat) /\ Len(l) = Len(a) + Len(b) + Len(c)
      /\ m \in Seq(Nat) /\ Len(m) = Len(a) + Len(b) + Len(c)
  BY <1>1, ConcatProperties
<1>3. ASSUME NEW i \in 1 .. Len(a) + Len(b) + Len(c) PROVE l[i] = m[i]
  BY <1>1, <1>2
<1> QED
  BY <1>2, <1>3, SeqEqual

(* How the pieces of StoredIds may be put together. *)
LEMMA Concats ==
  ASSUME NEW a \in Seq(Nat), NEW b \in Seq(Nat), NEW c \in Seq(Nat), NEW x \in Nat
  PROVE  /\ a \o (b \o c) = (a \o b) \o (<<>> \o c)
         /\ (a \o (b \o <<>>)) \o (<<x>> \o c) = (a \o (b \o <<x>>)) \o c
         /\ Append(b, x) \o <<>> = b \o <<x>>
         /\ (a \o b) \o <<>> = a \o (b \o <<>>)
<1>1. <<>> \in Seq(Nat) /\ <<x>> \in Seq(Nat)
  BY EmptySeq
<1>2. <<>> \o c = c /\ b \o <<>> = b
  BY ConcatEmptySeq
<1>3. a \o (b \o c) = (a \o b) \o c
  BY IdsAssociative
<1>4. a \o b \in Seq(Nat)
  BY ConcatProperties
<1>5. (a \o b) \o (<<x>> \o c) = ((a \o b) \o <<x>>) \o c
  BY <1>1, <1>4, IdsAssociative
<1>6. (a \o b) \o <<x>> = a \o (b \o <<x>>)
  BY <1>1, IdsAssociative
<1>7. (a \o b) \o <<>> = a \o b
  BY <1>4, ConcatEmptySeq
<1>8. Append(b, x) = b \o <<x>> /\ Append(b, x) \in Seq(Nat)
  BY <1>1, AppendIsConcat, AppendProperties
<1>9. Append(b, x) \o <<>> = Append(b, x)
  BY <1>8, ConcatEmptySeq
<1> QED
  BY <1>2, <1>3, <1>5, <1>6, <1>7, <1>8, <1>9

(* What is cut out of the middle of ordered ids leaves ordered ids. *)
LEMMA CutMiddle ==
  ASSUME NEW a \in Seq(Nat), NEW b \in Seq(Nat), NEW c \in Seq(Nat), NEW n \in Nat,
         Ordered(a \o (b \o c), n)
  PROVE  Ordered(a \o c, n)
<1> DEFINE l == a \o (b \o c)
           m == a \o c
           x == Len(a)
           y == Len(b)
           z == Len(c)
<1>1. /\ x \in Nat /\ y \in Nat /\ z \in Nat
      /\ b \o c \in Seq(Nat) /\ Len(b \o c) = y + z
  BY LenProperties, ConcatProperties
<1>2. /\ DOMAIN l = 1 .. x + y + z
      /\ DOMAIN m = 1 .. x + z
  BY <1>1, ConcatProperties, LenProperties
<1>3. /\ \A i \in 1 .. x + z : m[i] = IF i <= x THEN a[i] ELSE c[i - x]
      /\ \A i \in 1 .. y + z : (b \o c)[i] = IF i <= y THEN b[i] ELSE c[i - y]
  BY ConcatProperties
<1>4. \A i \in 1 .. x + (y + z) : l[i] = IF i <= x THEN a[i] ELSE (b \o c)[i - x]
  BY <1>1, ConcatProperties
<1>5. /\ \A i \in 1 .. x + y + z : l[i] <= n
      /\ \A i, j \in 1 .. x + y + z : i < j => l[i] < l[j]
  BY <1>2 DEF Ordered
<1> DEFINE from(i) == IF i <= x THEN i ELSE i + y
           bc == b \o c
<1>6. bc = b \o c
  OBVIOUS
<1> HIDE DEF l, m, x, y, z, bc
<1>7. ASSUME NEW i \in 1 .. x + z
       PROVE  from(i) \in 1 .. x + y + z /\ m[i] = l[from(i)]
  <2>1. CASE i <= x
    BY <1>1, <1>3, <1>4, <2>1
  <2>2. CASE i > x
    <3>1. /\ i + y \in 1 .. x + (y + z) /\ ~(i + y <= x)
          /\ (i + y) - x \in 1 .. y + z /\ ~((i + y) - x <= y)
          /\ ((i + y) - x) - y = i - x /\ ~(i <= x)
          /\ i + y \in 1 .. x + y + z
      BY <1>1, <2>2
    <3>2. l[i + y] = bc[(i + y) - x]
      BY <1>4, <1>6, <3>1
    <3>3. bc[(i + y) - x] = c[((i + y) - x) - y]
      BY <1>3, <1>6, <3>1
    <3>4. m[i] = c[i - x]
      BY <1>3, <3>1
    <3>5. m[i] = l[i + y]
      BY <3>1, <3>2, <3>3, <3>4
    <3> QED
      BY <3>1, <3>5
  <2>3. i <= x \/ i > x
    BY <1>1
  <2> QED
    BY <2>1, <2>2, <2>3, Zenon
<1>8. ASSUME NEW i \in 1 .. x + z, NEW j \in 1 .. x + z, i < j
       PROVE  from(i) < from(j)
  BY <1>1, <1>8
<1> HIDE DEF from
<1>9. \A i \in DOMAIN m : m[i] <= n
  BY <1>2, <1>5, <1>7
<1>10. \A i, j \in DOMAIN m : i < j => m[i] < m[j]
  BY <1>2, <1>5, <1>7, <1>8
<1>11. Ordered(m, n)
  BY <1>9, <1>10 DEF Ordered
<1> QED
  BY <1>11 DEF m

(* What a publish takes out of the middle of three parts.                  *)
Three(o, b, r) ==
  /\ (o \o b) \o r = o \o (b \o r)
  /\ Len(o \o (b \o r)) = Len(o \o r) + Len(b) /\ Len(o \o r) \in Nat
Four(o, c, i, w) ==
  ((o \o c) \o i) \o w = o \o (c \o (i \o w)) /\ c \o (i \o w) \in Seq(Nat)

LEMMA ThreeParts ==
  ASSUME NEW o \in Seq(Nat), NEW b \in Seq(Nat), NEW r \in Seq(Nat)
  PROVE  Three(o, b, r)
<1>1. (o \o b) \o r = o \o (b \o r)
  BY IdsAssociative
<1>2. b \o r \in Seq(Nat)
  BY ConcatProperties
<1>3. /\ Len(o \o (b \o r)) = Len(o) + Len(b \o r)
      /\ Len(b \o r) = Len(b) + Len(r) /\ Len(o \o r) = Len(o) + Len(r)
      /\ Len(o) \in Nat /\ Len(b) \in Nat /\ Len(r) \in Nat
  BY <1>2, ConcatProperties, LenProperties
<1> QED
  BY <1>1, <1>3 DEF Three

LEMMA FourParts ==
  ASSUME NEW o \in Seq(Nat), NEW c \in Seq(Nat), NEW i \in Seq(Nat), NEW w \in Seq(Nat)
  PROVE  Four(o, c, i, w)
<1>1. o \o c \in Seq(Nat) /\ i \o w \in Seq(Nat)
  BY ConcatProperties
<1>2. c \o (i \o w) \in Seq(Nat)
  BY <1>1, ConcatProperties
<1>3. ((o \o c) \o i) \o w = (o \o c) \o (i \o w)
  BY <1>1, IdsAssociative, Zenon
<1>4. (o \o c) \o (i \o w) = o \o (c \o (i \o w))
  BY <1>1, IdsAssociative, Zenon
<1> QED
  BY <1>2, <1>3, <1>4 DEF Four

(* A publish takes the front of what the upload task holds of a kind, and  *)
(* the drops it tells, and adds both to what was taken or to what was lost.*)
LEMMA Leaves ==
  ASSUME IInv, UNCHANGED <<logVars, ring, dropped>>,
         NEW k \in Kinds, NEW told \in Nat, NEW ids \in Seq(Nat), NEW rest \in Seq(Nat),
         Took(k, told, ids) \/ Lost(k, told, ids),
         lost' \in [Kinds -> [entries : Nat, told : Nat]],
         up[1] = k, batch.told = told, up'[1] = k => batch'.told = 0,
         \A q \in Kinds : q # k /\ up'[1] = q => batch'.told = 0,
         Taken(k) = ids \o rest, Taken(k)' = rest,
         \A q \in Kinds : q # k => Taken(q)' = Taken(q)
  PROVE  IdsOrdered' /\ Accounted'
<1> SUFFICES ASSUME NEW q \in Kinds PROVE Ordered(StoredIds(q), logged[q])' /\ 
      (logged[q] = Len(StoredIds(q)) + LostOf(q) + Told(q) + dropped[q]
                   + Cardinality(Uncounted(q)))'
  BY DEF IdsOrdered, Accounted
<1> DEFINE o == out[q].ids
           o1 == out'[q].ids
           i == IdsOf(ring[q])
           w == Written(q)
<1>1. /\ logged' = logged /\ dropped' = dropped /\ IdsOf(ring[q])' = i /\ Written(q)' = w
      /\ Uncounted(q)' = Uncounted(q)
  BY DEF logVars, Written, Uncounted
<1>2. /\ o \in Seq(Nat) /\ i \in Seq(Nat) /\ w \in Seq(Nat) /\ StoredIds(q) \in Seq(Nat)
      /\ out[q].told \in Nat /\ Told(q) \in Nat
      /\ lost[q].entries \in Nat /\ lost[q].told \in Nat
      /\ logged[q] \in Nat /\ dropped[q] \in Nat /\ Cardinality(Uncounted(q)) \in Nat
      /\ Len(StoredIds(q)) \in Nat
  BY PartsType, UncountedType, LenProperties DEF IInv, Shapes, TypeOK
<1>3. /\ Ordered(StoredIds(q), logged[q])
      /\ logged[q] = Len(StoredIds(q)) + LostOf(q) + Told(q) + dropped[q]
                     + Cardinality(Uncounted(q))
  BY DEF IInv, IdsOrdered, Accounted
<1>4. StoredIds(q) = ((o \o Taken(q)) \o i) \o w /\ StoredIds(q)' = ((o1 \o Taken(q)') \o i) \o w
  BY <1>1 DEF StoredIds
<1> HIDE DEF o, o1, i, w
<1>5. CASE q # k
  <2>1. o1 = o /\ out'[q].told = out[q].told /\ lost'[q] = lost[q]
    BY <1>5 DEF Took, Lost, o, o1
  <2>2. StoredIds(q)' = StoredIds(q)
    BY <1>4, <1>5, <2>1
  <2>3. Told(q)' = Told(q)
    BY <1>2, <1>5, <2>1 DEF Told
  <2> QED
    BY <1>1, <1>3, <2>1, <2>2, <2>3 DEF Ordered, LostOf
<1>6. CASE q = k
  <2> DEFINE r == rest \o (i \o w)
             n == Len(o \o r)
             m == Len(ids)
             le == lost[k].entries
             lt == lost[k].told
             g == out[k].told
             d == dropped[k]
             c == Cardinality(Uncounted(k))
  <2>1. /\ StoredIds(k) = o \o (ids \o r) /\ r \in Seq(Nat)
        /\ ((o \o rest) \o i) \o w = o \o r
        /\ (((o \o ids) \o rest) \o i) \o w = o \o (ids \o r)
        /\ Len(o \o (ids \o r)) = n + m /\ n \in Nat
    <3>1. StoredIds(k) = ((o \o (ids \o rest)) \o i) \o w
      BY <1>4, <1>6
    <3>2. o \in Seq(Nat) /\ i \in Seq(Nat) /\ w \in Seq(Nat)
      BY <1>2
    <3>3. o \o ids \in Seq(Nat) /\ ids \o rest \in Seq(Nat) /\ i \o w \in Seq(Nat)
      BY <3>2, ConcatProperties, Zenon
    <3>4. Four(o, rest, i, w) /\ Four(o, ids \o rest, i, w)
      BY <3>2, <3>3, FourParts
    <3>5. r \in Seq(Nat)
      BY <3>4 DEF Four
    <3>6. Three(o, ids, rest) /\ Three(ids, rest, i \o w) /\ Three(o, ids, r)
      BY <3>2, <3>3, <3>5, ThreeParts
    <3> QED
      BY <3>1, <3>4, <3>5, <3>6, Zenon DEF Three, Four
  <2>2. /\ n \in Nat /\ m \in Nat /\ le \in Nat /\ lt \in Nat /\ g \in Nat
        /\ d \in Nat /\ c \in Nat
    BY <1>2, <1>6, <2>1, LenProperties
  <2>3. Told(k) = g + told
    BY DEF Told
  <2>4. out'[k].told \in Nat /\ Told(k)' = out'[k].told
    <3>1. out'[k].told = g \/ out'[k].told = g + told
      <4>1. CASE Took(k, told, ids)
        BY <4>1 DEF Took
      <4>2. CASE Lost(k, told, ids)
        BY <4>2 DEF Lost
      <4> QED
        BY <4>1, <4>2
    <3>2. g \in Nat
      BY <2>2
    <3>3. out'[k].told \in Nat
      <4> HIDE DEF g
      <4> QED
        BY <3>1, <3>2
    <3>4. Told(k)' = out'[k].told + 0
      BY DEF Told
    <3> QED
      BY <3>3, <3>4
  <2>5. Ordered(o \o (ids \o r), logged[k])
    BY <1>3, <1>6, <2>1
  <2>6. logged[k] = (n + m) + (le + lt) + (g + told) + d + c
    BY <1>3, <1>6, <2>1, <2>3 DEF LostOf
  <2>7. LostOf(k)' = lost'[k].entries + lost'[k].told
    BY DEF LostOf
  <2> HIDE DEF r, n, m, le, lt, g, d, c
  <2>8. CASE Took(k, told, ids)
    <3>1. o1 = o \o ids /\ lost' = lost /\ out'[k].told = g + told
      BY <1>6, <2>8 DEF Took, o, o1, g
    <3>2. StoredIds(k)' = StoredIds(k) /\ Told(k)' = Told(k) /\ LostOf(k)' = LostOf(k)
      <4>1. StoredIds(k)' = ((((o \o ids) \o rest) \o i) \o w)
        BY <1>4, <1>6, <3>1
      <4>2. LostOf(k)' = LostOf(k)
        BY <3>1 DEF LostOf
      <4> QED
        BY <2>1, <2>3, <2>4, <3>1, <4>1, <4>2
    <3> QED
      BY <1>1, <1>3, <1>6, <3>2 DEF Ordered
  <2>9. CASE Lost(k, told, ids)
    <3>1. /\ o1 = o /\ out'[k].told = g
          /\ lost'[k].entries = le + m /\ lost'[k].told = lt + told
      BY <1>6, <2>9 DEF Lost, o, o1, g, le, lt, m
    <3>2. StoredIds(k)' = o \o r
      BY <1>4, <1>6, <2>1, <3>1
    <3>3. Ordered(o \o r, logged[k])
      <4>1. o \in Seq(Nat) /\ logged[k] \in Nat
        BY <1>2, <1>6
      <4> QED
        BY <2>1, <2>5, <4>1, CutMiddle
    <3>4. Ordered(StoredIds(k), logged[k])'
      BY <1>1, <3>2, <3>3 DEF Ordered
    <3>5. logged[k] = n + ((le + m) + (lt + told)) + g + d + c
      BY <2>2, <2>6
    <3>6. (logged[k] = Len(StoredIds(k)) + LostOf(k) + Told(k) + dropped[k]
                       + Cardinality(Uncounted(k)))'
      <4>1. Len(StoredIds(k))' = n
        BY <3>2 DEF n
      <4>2. LostOf(k)' = (le + m) + (lt + told)
        BY <2>7, <3>1
      <4>3. dropped'[k] = d /\ Cardinality(Uncounted(k))' = c
        BY <1>1, <1>6 DEF d, c
      <4>4. logged'[k] = logged[k]
        BY <1>1
      <4> QED
        BY <2>4, <3>1, <3>5, <4>1, <4>2, <4>3, <4>4
    <3> QED
      BY <1>6, <3>4, <3>6
  <2> QED
    BY <2>8, <2>9
<1> QED
  BY <1>5, <1>6

LEMMA TakeDropsInv == ASSUME IInv, NEW k \in Kinds, TakeDrops(k) PROVE IInv'
<1>1. /\ up[1] = k /\ up[2] = "start" /\ up' = UpPc(k, "receive")
      /\ up'[1] = k /\ up'[2] = "receive"
      /\ UNCHANGED <<logVars, ring, freed, held, out, lost>>
      /\ dropped' = [dropped EXCEPT ![k] = 0]
  BY DEF results, TakeDrops, UpPc
<1>2. batch = NoBatch /\ held = NoEntry
  BY <1>1 DEF IInv, Shapes, TypeOK, BatchKept
<1>3. dropped[k] \in Nat /\ dropped \in [Kinds -> Nat]
  BY DEF IInv, Shapes, TypeOK
<1>4. batch'.told = dropped[k] /\ batch'.ids = <<>> /\ batch'.len \in {0, NoticeLen}
      /\ (batch'.len = 0 => batch' = NoBatch)
  BY <1>3 DEF TakeDrops, NoBatch, NoticeLen
<1>5. batch' \in [len : Nat, told : Nat, ids : Seq(Nat)]
  BY <1>3, EmptySeq DEF TakeDrops, NoBatch, NoticeLen
<1>6. batch'.len <= Cap(k)
  BY <1>4, LogUplinkAssumption DEF Cap, SyncLen, NoticeLen
<1>7. TypeOK'
  <2>1. up' \in {Delay} \cup (Kinds \X {"start", "receive", "copy", "store"})
    BY <1>1 DEF UpPc
  <2>2. BatchFits'
    BY <1>1, <1>5, <1>6, LogUplinkAssumption DEF BatchFits, Cap, SyncLen
  <2>3. dropped' \in [Kinds -> Nat]
    BY <1>1, <1>3
  <2> QED
    BY <1>1, <1>2, <1>5, <2>1, <2>2, <2>3 DEF IInv, Shapes, TypeOK, logVars
<1>8. SinkHeld' /\ PacketIsWhole'
  BY <1>1, SinkUntouched DEF IInv, Shapes, PacketIsWhole
<1>9. RingKept'
  BY <1>1 DEF IInv, Shapes, RingKept, RingOf, UpPc, logVars
<1>10. BatchKept'
  BY <1>1, <1>4, <1>6 DEF BatchKept, Cap
<1>11. \A q \in Kinds : StoredIds(q)' = StoredIds(q)
  <2>1. \A q : Taken(q)' = Taken(q)
    BY <1>1, <1>2, <1>4 DEF Taken, NoBatch, IdOf
  <2> QED
    BY <1>1, <2>1 DEF StoredIds, Written, logVars
<1>12. ASSUME NEW q \in Kinds
       PROVE  /\ Told(q)' + dropped'[q] = Told(q) + dropped[q]
              /\ Told(q)' \in Nat /\ dropped'[q] \in Nat
  <2>1. out[q].told \in Nat
    BY PartsType DEF IInv
  <2> QED
    BY <1>1, <1>2, <1>3, <1>4, <2>1 DEF Told, NoBatch
<1> QED
  BY <1>1, <1>7, <1>8, <1>9, <1>10, <1>11, <1>12, CountsKept DEF IInv, Shapes

LEMMA ReceiveInv == ASSUME IInv, NEW k \in Kinds, Receive(k) PROVE IInv'
<1>1. /\ up[1] = k /\ up[2] = "receive" /\ up' = UpPc(k, "copy")
      /\ up'[1] = k /\ up'[2] = "copy" /\ ring[k] # <<>> /\ held' = Head(ring[k])
      /\ ring' = [ring EXCEPT ![k] = Tail(@)]
      /\ UNCHANGED <<logVars, freed, dropped, batch, out, lost>>
  BY DEF results, Receive, UpPc
<1>2. held = NoEntry
  BY <1>1 DEF IInv, Shapes, TypeOK
<1>3. /\ ring[k] \in Seq(Entries) /\ ring \in [Kinds -> Seq(Entries)]
      /\ \A i \in 1 .. Len(ring[k]) : ring[k][i].data # <<>>
  BY DEF IInv, Shapes, TypeOK, RingKept, RingOf
<1>4. /\ Len(ring[k]) \in Nat \ {0} /\ Head(ring[k]) = ring[k][1]
      /\ Tail(ring[k]) \in Seq(Entries) /\ Len(Tail(ring[k])) = Len(ring[k]) - 1
      /\ \A i \in 1 .. Len(Tail(ring[k])) : Tail(ring[k])[i] = ring[k][i + 1]
      /\ Head(ring[k]) \in Entries
  BY <1>1, <1>3, EmptySeq, HeadTailProperties
<1>5. held' \in Entries /\ held'.data # <<>> /\ Id(held') \in Nat
      /\ held' # NoEntry /\ IdOf(held') = <<Id(held')>>
  BY <1>1, <1>3, <1>4, IdType
<1>6. ring'[k] = Tail(ring[k]) /\ \A q \in Kinds : q # k => ring'[q] = ring[q]
  BY <1>1, <1>3
<1>7. TypeOK'
  <2>1. up' \in {Delay} \cup (Kinds \X {"start", "receive", "copy", "store"})
    BY <1>1 DEF UpPc
  <2>2. BatchFits'
    <3>1. up # Delay
      BY <1>1 DEF Delay
    <3>2. batch.len + (IF up[1] = "bin" THEN SyncLen ELSE 0) <= BatchSize
      BY <3>1 DEF IInv, Shapes, TypeOK, BatchFits
    <3> QED
      BY <1>1, <3>2 DEF BatchFits
  <2>3. ring' \in [Kinds -> Seq(Entries)]
    BY <1>1, <1>3, <1>4
  <2> QED
    BY <1>1, <1>5, <2>1, <2>2, <2>3 DEF IInv, Shapes, TypeOK, logVars
<1>8. SinkHeld'
  BY <1>1, SinkUntouched DEF IInv, Shapes
<1>9. PacketIsWhole'
  <2>1. CASE k = "bin"
    <3>1. Len(ring'["bin"]) \in Nat /\ DOMAIN ring'["bin"] = 1 .. Len(ring'["bin"])
      BY <1>4, <1>6, <2>1, LenProperties
    <3>2. DOMAIN ring["bin"] = 1 .. Len(ring["bin"])
      BY <1>3, <2>1, LenProperties
    <3>3. \A i \in DOMAIN ring'["bin"] : i + 1 \in DOMAIN ring["bin"] /\ ring'["bin"][i] = ring["bin"][i + 1]
      <4> SUFFICES ASSUME NEW i \in 1 .. Len(Tail(ring[k]))
                   PROVE  i + 1 \in 1 .. Len(ring[k]) /\ Tail(ring[k])[i] = ring[k][i + 1]
        BY <1>6, <2>1, <3>1, <3>2
      <4> QED
        BY <1>4
    <3> QED
      BY <3>3 DEF IInv, PacketIsWhole
  <2>2. CASE k # "bin"
    BY <1>6, <2>2 DEF IInv, PacketIsWhole, Kinds
  <2> QED
    BY <2>1, <2>2
<1>10. RingKept'
  <2> SUFFICES ASSUME NEW q \in Kinds PROVE RingOf(q)'
    BY DEF RingKept
  <2>1. CASE q = k
    <3>1. \A i \in 1 .. Len(ring'[k]) : i + 1 \in 1 .. Len(ring[k]) /\ ring'[k][i] = ring[k][i + 1]
      BY <1>4, <1>6
    <3>2. \A i \in 1 .. Len(ring'[k]) : \A j \in 1 .. i : ring'[k][j].end <= ring'[k][i].end
      BY <1>4, <1>6, <3>1 DEF IInv, Shapes, RingKept, RingOf
    <3>3. \A i \in 1 .. Len(ring'[k]) : held'.end <= ring'[k][i].end
      <4> SUFFICES ASSUME NEW i \in 1 .. Len(ring'[k]) PROVE held'.end <= ring'[k][i].end
        OBVIOUS
      <4>1. i + 1 \in 1 .. Len(ring[k]) /\ 1 \in 1 .. i + 1 /\ ring'[k][i] = ring[k][i + 1]
        BY <1>4, <1>6, <3>1
      <4>2. ring[k][1].end <= ring[k][i + 1].end
        BY <4>1 DEF IInv, Shapes, RingKept, RingOf
      <4> QED
        BY <1>1, <1>4, <4>1, <4>2
    <3>4. ASSUME NEW i \in 1 .. Len(ring'[k])
          PROVE  /\ ring'[k][i].data # <<>> /\ ring'[k][i].len > 0
                 /\ freed'[k] <= ring'[k][i].end /\ ring'[k][i].end <= acquired'[k]
                 /\ k = "text" => ring'[k][i].len < LineMax
      BY <1>1, <3>1, <3>4 DEF IInv, Shapes, RingKept, RingOf, logVars
    <3>5. /\ held'.len > 0 /\ freed'[k] <= held'.end /\ held'.end <= acquired'[k]
          /\ k = "text" => held'.len < LineMax
      <4>1. 1 \in 1 .. Len(ring[k])
        BY <1>4
      <4> QED
        BY <1>1, <1>4, <4>1 DEF IInv, Shapes, RingKept, RingOf, logVars
    <3> QED
      BY <1>5, <2>1, <3>2, <3>3, <3>4, <3>5 DEF RingOf
  <2>2. CASE q # k
    BY <1>1, <1>6, <2>2 DEF IInv, Shapes, RingKept, RingOf, UpPc, logVars
  <2> QED
    BY <2>1, <2>2
<1>11. BatchKept'
  BY <1>1 DEF IInv, Shapes, BatchKept, Cap, Delay
<1>12. ASSUME NEW q \in Kinds PROVE StoredIds(q)' = StoredIds(q)
  <2>1. CASE q = k
    <3>1. /\ out[k].ids \in Seq(Nat) /\ batch.ids \in Seq(Nat) /\ IdsOf(Tail(ring[k])) \in Seq(Nat)
      <4>1. \A i \in 1 .. Len(Tail(ring[k])) : Tail(ring[k])[i].data # <<>>
        BY <1>3, <1>4
      <4> QED
        BY <1>4, <4>1, IdsOfType, PartsType DEF IInv
    <3>2. IdsOf(ring[k]) = <<Id(held')>> \o IdsOf(Tail(ring[k]))
      BY <1>1, <1>3, IdsOfTail
    <3>3. Taken(k) = batch.ids \o <<>> /\ Taken(k)' = batch.ids \o <<Id(held')>>
      BY <1>1, <1>2, <1>5 DEF Taken, IdOf
    <3>4. out[k].ids \o Taken(k) \o IdsOf(ring[k]) = (out[k].ids \o Taken(k) \o IdsOf(ring[k]))'
      <4>1. Id(held') \in Nat
        BY <1>5
      <4>2. (out[k].ids \o (batch.ids \o <<>>)) \o (<<Id(held')>> \o IdsOf(Tail(ring[k])))
            = (out[k].ids \o (batch.ids \o <<Id(held')>>)) \o IdsOf(Tail(ring[k]))
        BY <3>1, <4>1, Concats
      <4>3. IdsOf(ring[k])' = IdsOf(Tail(ring[k])) /\ out[k].ids' = out[k].ids
        BY <1>1, <1>6
      <4>4. (out[k].ids \o Taken(k) \o IdsOf(ring[k]))'
            = (out[k].ids \o (batch.ids \o <<Id(held')>>)) \o IdsOf(Tail(ring[k]))
        BY <3>3, <4>3
      <4>5. out[k].ids \o Taken(k) \o IdsOf(ring[k])
            = (out[k].ids \o (batch.ids \o <<>>)) \o (<<Id(held')>> \o IdsOf(Tail(ring[k])))
        BY <3>2, <3>3
      <4> QED
        BY <4>2, <4>4, <4>5
    <3> QED
      BY <1>1, <2>1, <3>4 DEF StoredIds, Written, logVars
  <2>2. CASE q # k
    BY <1>1, <1>6, <2>2 DEF StoredIds, Taken, Written, logVars
  <2> QED
    BY <2>1, <2>2
<1>13. ASSUME NEW q \in Kinds
       PROVE  /\ Told(q)' + dropped'[q] = Told(q) + dropped[q]
              /\ Told(q)' \in Nat /\ dropped'[q] \in Nat
  <2>1. Told(q)' = Told(q) /\ Told(q) \in Nat
    BY <1>1, PartsType DEF IInv, Told
  <2> QED
    BY <1>1, <2>1 DEF IInv, Shapes, TypeOK
<1> QED
  BY <1>1, <1>7, <1>8, <1>9, <1>10, <1>11, <1>12, <1>13, CountsKept DEF IInv, Shapes

LEMMA FlushInv == ASSUME IInv, NEW k \in Kinds, Flush(k) PROVE IInv'
<1>1. /\ up = UpPc(k, "copy") /\ up[1] = k /\ up[2] = "copy" /\ up' = UpPc(k, "store")
      /\ up'[1] = k /\ up'[2] = "store" /\ batch' = NoBatch
      /\ UNCHANGED <<logVars, ring, freed, dropped, held>>
  BY DEF Flush, UpPc
<1>2. batch.ids \in Seq(Nat) /\ batch.told \in Nat /\ IdOf(held) \in Seq(Nat)
  BY PartsType DEF IInv
<1>3. /\ out' \in [Kinds -> [ids : Seq(Nat), told : Nat]]
      /\ lost' \in [Kinds -> [entries : Nat, told : Nat]]
      /\ Took(k, batch.told, batch.ids) \/ Lost(k, batch.told, batch.ids)
  BY <1>2, Published DEF Flush, IInv
<1>4. TypeOK'
  <2>1. up' \in {Delay} \cup (Kinds \X {"start", "receive", "copy", "store"})
    BY <1>1 DEF UpPc
  <2>2. BatchFits'
    BY <1>1, LogUplinkAssumption DEF BatchFits, NoBatch, SyncLen
  <2>3. batch' \in [len : Nat, told : Nat, ids : Seq(Nat)]
    BY <1>1, EmptySeq DEF NoBatch
  <2> QED
    BY <1>1, <1>3, <2>1, <2>2, <2>3 DEF IInv, Shapes, TypeOK, logVars
<1>5. SinkHeld' /\ PacketIsWhole'
  BY <1>1, SinkUntouched DEF IInv, Shapes, PacketIsWhole
<1>6. RingKept'
  BY <1>1 DEF IInv, Shapes, RingKept, RingOf, logVars
<1>7. BatchKept'
  BY <1>1, LogUplinkAssumption DEF BatchKept, NoBatch, Cap, SyncLen
<1>8. IdsOrdered' /\ Accounted'
  <2>1. Taken(k) = batch.ids \o IdOf(held)
    BY <1>1 DEF Taken
  <2>2. Taken(k)' = IdOf(held)
    <3>1. <<>> \o IdOf(held) = IdOf(held)
      BY <1>2, ConcatEmptySeq
    <3> QED
      BY <1>1, <3>1 DEF Taken, NoBatch, IdOf
  <2>3. \A q \in Kinds : q # k => Taken(q)' = Taken(q)
    BY <1>1 DEF Taken
  <2>4. batch'.told = 0
    BY <1>1 DEF NoBatch
  <2> QED
    BY <1>1, <1>2, <1>3, <2>1, <2>2, <2>3, <2>4, Leaves
<1> QED
  BY <1>4, <1>5, <1>6, <1>7, <1>8 DEF IInv, Shapes

(* Giving the room of the held entry back. *)
LEMMA RoomReturned ==
  ASSUME IInv, NEW k \in Kinds, up[1] = k, held # NoEntry,
         freed' = [freed EXCEPT ![k] = held.end], held' = NoEntry,
         UNCHANGED <<ring, acquired>>
  PROVE  /\ RingKept' /\ freed' \in [Kinds -> Nat]
         /\ \A q \in Kinds : acquired'[q] - freed'[q] \in 0 .. RingSize
<1>1. /\ freed \in [Kinds -> Nat] /\ acquired \in [Kinds -> Nat] /\ held.end \in Nat
      /\ \A q \in Kinds : acquired[q] - freed[q] \in 0 .. RingSize
  BY DEF IInv, Shapes, TypeOK, Entries
<1>2. RingOf(k) /\ freed[k] <= held.end /\ held.end <= acquired[k]
  BY DEF IInv, Shapes, RingKept, RingOf
<1>3. freed'[k] = held.end /\ \A q \in Kinds : q # k => freed'[q] = freed[q]
  BY <1>1
<1>4. \A q \in Kinds : acquired'[q] - freed'[q] \in 0 .. RingSize
  BY <1>1, <1>2, <1>3, LogUplinkAssumption
<1>5. RingOf(k)'
  BY <1>2, <1>3 DEF RingOf
<1>6. \A q \in Kinds : q # k => RingOf(q)'
  BY <1>3 DEF IInv, Shapes, RingKept, RingOf
<1> QED
  BY <1>1, <1>4, <1>5, <1>6 DEF RingKept

LEMMA CopyInv == ASSUME IInv, NEW k \in Kinds, Copy(k) PROVE IInv'
<1>1. /\ up[1] = k /\ up[2] \in {"copy", "store"} /\ up' = UpPc(k, "receive")
      /\ up'[1] = k /\ up'[2] = "receive" /\ held' = NoEntry
      /\ freed' = [freed EXCEPT ![k] = held.end]
      /\ batch' = [batch EXCEPT !.len = @ + held.len, !.ids = Append(@, Id(held))]
      /\ UNCHANGED <<logVars, ring, dropped, out, lost>>
  BY DEF results, Copy, Settled, UpPc
<1>2. held # NoEntry /\ held \in Entries /\ batch \in [len : Nat, told : Nat, ids : Seq(Nat)]
  BY <1>1 DEF IInv, Shapes, TypeOK
<1>3. held.data # <<>> /\ held.len > 0 /\ (k = "text" => held.len < LineMax) /\ held.len \in Nat
  BY <1>1, <1>2 DEF IInv, Shapes, RingKept, RingOf, Entries
<1>4. Id(held) \in Nat /\ IdOf(held) = <<Id(held)>>
  BY <1>2, <1>3, IdType
<1>5. /\ batch'.len = batch.len + held.len /\ batch'.told = batch.told
      /\ batch'.ids = Append(batch.ids, Id(held)) /\ batch'.len \in Nat
      /\ batch' \in [len : Nat, told : Nat, ids : Seq(Nat)]
  <2>1. /\ batch.len \in Nat /\ batch.told \in Nat /\ batch.ids \in Seq(Nat)
        /\ Append(batch.ids, Id(held)) \in Seq(Nat)
    BY <1>2, <1>4, AppendProperties
  <2> DEFINE ids == Append(batch.ids, Id(held))
             len == batch.len + held.len
  <2>2. len \in Nat
    BY <1>3, <2>1
  <2>3. batch' = [batch EXCEPT !.len = len, !.ids = ids]
    BY <1>1
  <2> HIDE DEF ids, len
  <2>4. ids \in Seq(Nat)
    BY <2>1 DEF ids
  <2>5. /\ batch'.len = len /\ batch'.told = batch.told /\ batch'.ids = ids
        /\ batch' \in [len : Nat, told : Nat, ids : Seq(Nat)]
    BY <1>2, <2>2, <2>3, <2>4
  <2> QED
    BY <2>2, <2>5 DEF ids, len
<1>6. batch'.len <= Cap(k) /\ batch'.len > 0
  <2>1. Cap(k) \in Nat /\ (k = "text" => LineMax <= Cap(k)) /\ LineMax \in Nat
    BY LogUplinkAssumption DEF Cap, SyncLen, Kinds
  <2>2. k = "bin" => held.len <= Cap(k)
    BY DEF Copy
  <2>3. k \in {"bin", "text"} /\ batch.len \in Nat
    BY <1>2 DEF Kinds
  <2>4. CASE up[2] = "store"
    <3>1. batch.len = 0
      BY <2>4 DEF IInv, Shapes, BatchKept, NoBatch
    <3> QED
      BY <1>3, <1>5, <2>1, <2>2, <2>3, <3>1
  <2>5. CASE up[2] = "copy"
    <3>1. ~MustFlush(k)
      BY <2>5 DEF Copy, Settled, UpPc
    <3> QED
      BY <1>3, <1>5, <2>1, <2>2, <2>3, <3>1 DEF MustFlush
  <2> QED
    BY <1>1, <2>4, <2>5
<1>7. TypeOK'
  <2>1. up' \in {Delay} \cup (Kinds \X {"start", "receive", "copy", "store"})
    BY <1>1 DEF UpPc
  <2>2. BatchFits'
    BY <1>1, <1>5, <1>6, LogUplinkAssumption DEF BatchFits, Cap, SyncLen
  <2>3. NoEntry \in Entries
    BY EmptySeq DEF NoEntry, Entries
  <2>4. freed' \in [Kinds -> Nat] /\ \A q \in Kinds : acquired'[q] - freed'[q] \in 0 .. RingSize
    BY <1>1, <1>2, RoomReturned DEF logVars
  <2> QED
    BY <1>1, <1>5, <2>1, <2>2, <2>3, <2>4 DEF IInv, Shapes, TypeOK, logVars
<1>8. SinkHeld' /\ PacketIsWhole'
  BY <1>1, SinkUntouched DEF IInv, Shapes, PacketIsWhole
<1>9. RingKept'
  BY <1>1, <1>2, RoomReturned DEF logVars
<1>10. BatchKept'
  BY <1>1, <1>6 DEF BatchKept
<1>11. ASSUME NEW q \in Kinds PROVE StoredIds(q)' = StoredIds(q)
  <2>1. CASE q = k
    <3>1. batch.ids \in Seq(Nat)
      BY <1>2
    <3>2. Taken(k) = batch.ids \o <<Id(held)>>
      BY <1>1, <1>4 DEF Taken
    <3>3. Taken(k)' = Append(batch.ids, Id(held)) \o <<>>
      BY <1>1, <1>5 DEF Taken, IdOf
    <3>4. Taken(k)' = Taken(k)
      BY <1>4, <3>1, <3>2, <3>3, Concats
    <3> QED
      BY <1>1, <2>1, <3>4 DEF StoredIds, Written, logVars
  <2>2. CASE q # k
    BY <1>1, <2>2 DEF StoredIds, Taken, Written, logVars
  <2> QED
    BY <2>1, <2>2
<1>12. ASSUME NEW q \in Kinds
       PROVE  /\ Told(q)' + dropped'[q] = Told(q) + dropped[q]
              /\ Told(q)' \in Nat /\ dropped'[q] \in Nat
  <2>1. Told(q)' = Told(q) /\ Told(q) \in Nat
    BY <1>1, <1>5, PartsType DEF IInv, Told
  <2> QED
    BY <1>1, <2>1 DEF IInv, Shapes, TypeOK
<1> QED
  BY <1>1, <1>7, <1>8, <1>9, <1>10, <1>11, <1>12, CountsKept DEF IInv, Shapes

LEMMA PublishOversizeInv == IInv /\ PublishOversize => IInv'
<1> SUFFICES ASSUME IInv, PublishOversize PROVE IInv'
  OBVIOUS
<1>1. /\ up[1] = "bin" /\ up[2] \in {"copy", "store"} /\ up' = UpPc("bin", "receive")
      /\ up'[1] = "bin" /\ up'[2] = "receive" /\ held' = NoEntry
      /\ freed' = [freed EXCEPT !["bin"] = held.end]
      /\ UNCHANGED <<logVars, ring, dropped, batch>>
  BY DEF PublishOversize, Settled, UpPc
<1>2. held # NoEntry /\ held \in Entries /\ "bin" \in Kinds
  BY <1>1 DEF IInv, Shapes, TypeOK, Kinds
<1>3. held.data # <<>> /\ held.len > 0 /\ held.len \in Nat
  BY <1>1, <1>2 DEF IInv, Shapes, RingKept, RingOf, Entries
<1>4. Id(held) \in Nat /\ IdOf(held) = <<Id(held)>> /\ <<Id(held)>> \in Seq(Nat)
  BY <1>2, <1>3, IdType
<1>5. batch = NoBatch
  <2>1. CASE up[2] = "store"
    BY <2>1 DEF IInv, Shapes, BatchKept
  <2>2. CASE up[2] = "copy"
    <3>1. ~MustFlush("bin") /\ held.len > Cap("bin")
      BY <2>2 DEF PublishOversize, Settled, UpPc
    <3>2. batch.len \in Nat /\ Cap("bin") \in Nat
      BY LogUplinkAssumption DEF IInv, Shapes, TypeOK, Cap, SyncLen
    <3>3. batch.len = 0
      BY <1>3, <3>1, <3>2 DEF MustFlush
    <3> QED
      BY <3>3 DEF IInv, Shapes, BatchKept
  <2> QED
    BY <1>1, <2>1, <2>2
<1>6. /\ out' \in [Kinds -> [ids : Seq(Nat), told : Nat]]
      /\ lost' \in [Kinds -> [entries : Nat, told : Nat]]
      /\ Took("bin", 0, <<Id(held)>>) \/ Lost("bin", 0, <<Id(held)>>)
  BY <1>2, <1>4, Published DEF PublishOversize, IInv
<1>9. TypeOK'
  <2>1. up' \in {Delay} \cup (Kinds \X {"start", "receive", "copy", "store"})
    BY <1>1, <1>2 DEF UpPc
  <2>2. BatchFits'
    BY <1>1, <1>5, LogUplinkAssumption DEF BatchFits, NoBatch, SyncLen
  <2>3. NoEntry \in Entries
    BY EmptySeq DEF NoEntry, Entries
  <2>4. freed' \in [Kinds -> Nat] /\ \A q \in Kinds : acquired'[q] - freed'[q] \in 0 .. RingSize
    BY <1>1, <1>2, RoomReturned DEF logVars
  <2> QED
    BY <1>1, <1>6, <2>1, <2>2, <2>3, <2>4 DEF IInv, Shapes, TypeOK, logVars
<1>10. SinkHeld' /\ PacketIsWhole'
  BY <1>1, SinkUntouched DEF IInv, Shapes, PacketIsWhole
<1>11. RingKept'
  BY <1>1, <1>2, RoomReturned DEF logVars
<1>12. BatchKept'
  BY <1>1, <1>5, LogUplinkAssumption DEF BatchKept, NoBatch, Cap, SyncLen
<1>13. IdsOrdered' /\ Accounted'
  <2>1. <<>> \in Seq(Nat) /\ <<>> \o <<Id(held)>> = <<Id(held)>> /\ <<>> \o <<>> = <<>>
        /\ <<Id(held)>> \o <<>> = <<Id(held)>>
    BY <1>4, EmptySeq, ConcatEmptySeq
  <2>2. Taken("bin") = <<Id(held)>> \o <<>>
    BY <1>1, <1>4, <1>5, <2>1 DEF Taken, NoBatch
  <2>3. Taken("bin")' = <<>>
    BY <1>1, <1>5, <2>1 DEF Taken, IdOf, NoBatch
  <2>4. \A q \in Kinds : q # "bin" => Taken(q)' = Taken(q)
    BY <1>1 DEF Taken
  <2>5. batch.told = 0 /\ batch'.told = 0 /\ 0 \in Nat
    BY <1>1, <1>5 DEF NoBatch
  <2> QED
    BY <1>1, <1>2, <1>4, <1>6, <2>1, <2>2, <2>3, <2>4, <2>5, Leaves
<1> QED
  BY <1>9, <1>10, <1>11, <1>12, <1>13 DEF IInv, Shapes

LEMMA FinishBatchInv == ASSUME IInv, NEW k \in Kinds, FinishBatch(k) PROVE IInv'
<1>1. /\ up[1] = k /\ up[2] = "receive" /\ batch' = NoBatch
      /\ up' = IF k = "bin" THEN UpPc("text", "start") ELSE Delay
      /\ UNCHANGED <<logVars, ring, freed, dropped, held>>
  BY DEF FinishBatch, UpPc
<1>2. held = NoEntry /\ up'[1] # k /\ up'[2] \in {"start", "delay"}
  BY <1>1 DEF IInv, Shapes, TypeOK, UpPc, Delay, Kinds
<1>3. batch.ids \in Seq(Nat) /\ batch.told \in Nat
  BY PartsType DEF IInv
<1>4. /\ out' \in [Kinds -> [ids : Seq(Nat), told : Nat]]
      /\ lost' \in [Kinds -> [entries : Nat, told : Nat]]
      /\ Took(k, batch.told, batch.ids) \/ Lost(k, batch.told, batch.ids)
  <2>1. CASE batch.len > 0
    BY <1>3, <2>1, Published DEF FinishBatch, IInv
  <2>2. CASE ~(batch.len > 0)
    <3>1. batch.ids = <<>> /\ batch.told = 0
      BY <2>2 DEF IInv, Shapes, TypeOK, BatchKept, NoBatch
    <3>2. out' = out /\ lost' = lost
      BY <2>2 DEF FinishBatch, results
    <3>3. /\ out \in [Kinds -> [ids : Seq(Nat), told : Nat]]
          /\ lost \in [Kinds -> [entries : Nat, told : Nat]]
      BY DEF IInv, Shapes, TypeOK
    <3>4. out[k].ids \o <<>> = out[k].ids /\ out[k].told + 0 = out[k].told
      BY <3>3, ConcatEmptySeq
    <3> QED
      BY <3>1, <3>2, <3>3, <3>4 DEF Took
  <2> QED
    BY <2>1, <2>2
<1>5. TypeOK'
  <2>1. up' \in {Delay} \cup (Kinds \X {"start", "receive", "copy", "store"})
    BY <1>1 DEF UpPc, Kinds
  <2>2. BatchFits'
    BY <1>1, LogUplinkAssumption DEF BatchFits, NoBatch, SyncLen
  <2>3. batch' \in [len : Nat, told : Nat, ids : Seq(Nat)]
    BY <1>1, EmptySeq DEF NoBatch
  <2> QED
    BY <1>1, <1>2, <1>4, <2>1, <2>2, <2>3 DEF IInv, Shapes, TypeOK, logVars
<1>6. SinkHeld' /\ PacketIsWhole'
  BY <1>1, SinkUntouched DEF IInv, Shapes, PacketIsWhole
<1>7. RingKept'
  BY <1>1, <1>2 DEF IInv, Shapes, RingKept, RingOf, logVars
<1>8. BatchKept'
  <2>1. batch'.len <= Cap(up'[1])
    BY <1>1, LogUplinkAssumption DEF NoBatch, Cap, SyncLen
  <2> QED
    BY <1>1, <2>1 DEF BatchKept
<1>9. IdsOrdered' /\ Accounted'
  <2>1. <<>> \in Seq(Nat) /\ <<>> \o <<>> = <<>>
    BY EmptySeq, ConcatEmptySeq
  <2>2. \A q \in Kinds : Taken(q)' = <<>>
    <3>1. (batch.ids \o IdOf(held))' = <<>>
      BY <1>1, <1>2, <2>1 DEF NoBatch, IdOf
    <3> QED
      BY <3>1 DEF Taken
  <2>3. Taken(k) = batch.ids \o <<>>
    BY <1>1, <1>2 DEF Taken, IdOf
  <2>4. \A q \in Kinds : q # k => Taken(q)' = Taken(q)
    BY <1>1, <2>2 DEF Taken
  <2>5. batch'.told = 0
    BY <1>1 DEF NoBatch
  <2> QED
    BY <1>1, <1>3, <1>4, <2>1, <2>2, <2>3, <2>4, <2>5, Leaves
<1> QED
  BY <1>5, <1>6, <1>7, <1>8, <1>9 DEF IInv, Shapes

--------------------------------------------------------------------------------
(* The logging tasks *)

(* How the tasks that have a drop to count change with one of them. *)
LEMMA OneTaskMoves ==
  ASSUME TypeOK, NEW t \in Tasks, NEW v, pc' = [pc EXCEPT ![t] = v], NEW k \in Kinds
  PROVE  /\ pc[t] # k /\ v = k =>
              Cardinality(Uncounted(k))' = Cardinality(Uncounted(k)) + 1
         /\ pc[t] = k /\ v # k =>
              Cardinality(Uncounted(k))' = Cardinality(Uncounted(k)) - 1
         /\ pc[t] # k /\ v # k =>
              Cardinality(Uncounted(k))' = Cardinality(Uncounted(k))
<1>1. pc'[t] = v /\ \A u \in Tasks : u # t => pc'[u] = pc[u]
  BY DEF TypeOK
<1>2. IsFiniteSet(Uncounted(k))
  BY UncountedType
<1>3. ASSUME pc[t] # k, v = k
      PROVE  Cardinality(Uncounted(k))' = Cardinality(Uncounted(k)) + 1
  <2>1. t \notin Uncounted(k) /\ Uncounted(k)' = Uncounted(k) \cup {t}
    BY <1>1, <1>3 DEF Uncounted
  <2> QED
    BY <1>2, <2>1, FS_AddElement
<1>4. ASSUME pc[t] = k, v # k
      PROVE  Cardinality(Uncounted(k))' = Cardinality(Uncounted(k)) - 1
  <2>1. t \in Uncounted(k) /\ Uncounted(k)' = Uncounted(k) \ {t}
    BY <1>1, <1>4 DEF Uncounted
  <2> QED
    BY <1>2, <2>1, FS_RemoveElement
<1>5. ASSUME pc[t] # k, v # k
      PROVE  Cardinality(Uncounted(k))' = Cardinality(Uncounted(k))
  <2>1. Uncounted(k)' = Uncounted(k)
    BY <1>1, <1>5 DEF Uncounted
  <2> QED
    BY <2>1
<1> QED
  BY <1>3, <1>4, <1>5

LEMMA CountStays ==
  ASSUME IInv, NEW t \in Tasks, NEW v, pc' = [pc EXCEPT ![t] = v], NEW k \in Kinds,
         pc[t] # k, v # k
  PROVE  Cardinality(Uncounted(k))' = Cardinality(Uncounted(k))
BY OneTaskMoves DEF IInv, Shapes

LEMMA CountGrows ==
  ASSUME IInv, NEW t \in Tasks, NEW v, pc' = [pc EXCEPT ![t] = v], NEW k \in Kinds,
         pc[t] # k, v = k
  PROVE  Cardinality(Uncounted(k))' = Cardinality(Uncounted(k)) + 1
BY OneTaskMoves DEF IInv, Shapes

LEMMA CountFalls ==
  ASSUME IInv, NEW t \in Tasks, NEW v, pc' = [pc EXCEPT ![t] = v], NEW k \in Kinds,
         pc[t] = k, v # k
  PROVE  Cardinality(Uncounted(k))' = Cardinality(Uncounted(k)) - 1
BY OneTaskMoves DEF IInv, Shapes

(* What holds of the ids and the counts of one kind. *)
Balance(k) ==
  /\ Ordered(StoredIds(k), logged[k])
  /\ logged[k] = Len(StoredIds(k)) + LostOf(k) + Told(k) + dropped[k] + Cardinality(Uncounted(k))

LEMMA Balances == IdsOrdered /\ Accounted <=> \A k \in Kinds : Balance(k)
BY DEF IdsOrdered, Accounted, Balance

LEMMA BalancesNext == IdsOrdered' /\ Accounted' <=> \A k \in Kinds : Balance(k)'
BY DEF IdsOrdered, Accounted, Balance

LEMMA CountTypes ==
  ASSUME IInv, NEW k \in Kinds
  PROVE  /\ logged[k] \in Nat /\ dropped[k] \in Nat /\ Told(k) \in Nat
         /\ StoredIds(k) \in Seq(Nat) /\ Len(StoredIds(k)) \in Nat
         /\ Cardinality(Uncounted(k)) \in Nat /\ LostOf(k) \in Nat
         /\ Balance(k)
<1>1. StoredIds(k) \in Seq(Nat) /\ Told(k) \in Nat /\ LostOf(k) \in Nat
  BY PartsType DEF IInv, LostOf
<1>2. Balance(k)
  BY Balances DEF IInv
<1> QED
  BY <1>1, <1>2, UncountedType, LenProperties DEF IInv, Shapes, TypeOK

(* Nothing of the kind happens, but that a drop is counted. *)
LEMMA KeepsBalance ==
  ASSUME IInv, NEW k \in Kinds, UNCHANGED uploadVars,
         logged'[k] = logged[k], StoredIds(k)' = StoredIds(k), Told(k)' = Told(k),
         \/ dropped'[k] = dropped[k] /\ Cardinality(Uncounted(k))' = Cardinality(Uncounted(k))
         \/ /\ dropped'[k] = dropped[k] + 1
            /\ Cardinality(Uncounted(k))' = Cardinality(Uncounted(k)) - 1
  PROVE  Balance(k)'
<1>1. /\ logged[k] \in Nat /\ dropped[k] \in Nat /\ Told(k) \in Nat
      /\ Len(StoredIds(k)) \in Nat /\ Cardinality(Uncounted(k)) \in Nat
      /\ LostOf(k) \in Nat /\ LostOf(k)' = LostOf(k)
      /\ logged[k] = Len(StoredIds(k)) + LostOf(k) + Told(k) + dropped[k] + Cardinality(Uncounted(k))
      /\ Ordered(StoredIds(k), logged[k])
  BY CountTypes DEF Balance, LostOf, uploadVars, results
<1>2. dropped'[k] + Cardinality(Uncounted(k))' = dropped[k] + Cardinality(Uncounted(k))
      /\ dropped'[k] \in Int /\ Cardinality(Uncounted(k))' \in Int
  <2> DEFINE b == dropped[k]
             c == Cardinality(Uncounted(k))
             b1 == dropped'[k]
             c1 == Cardinality(Uncounted(k))'
  <2>1. /\ b \in Nat /\ c \in Nat
        /\ (b1 = b /\ c1 = c) \/ (b1 = b + 1 /\ c1 = c - 1)
    BY <1>1
  <2> HIDE DEF b, c, b1, c1
  <2>2. b1 + c1 = b + c /\ b1 \in Int /\ c1 \in Int
    BY <2>1
  <2> QED
    BY <2>2 DEF b, c, b1, c1
<1>3. logged[k] = Len(StoredIds(k)) + LostOf(k) + Told(k) + dropped'[k] + Cardinality(Uncounted(k))'
  <2> DEFINE n == Len(StoredIds(k))
             l == LostOf(k)
             a == Told(k)
             b == dropped[k]
             c == Cardinality(Uncounted(k))
             b1 == dropped'[k]
             c1 == Cardinality(Uncounted(k))'
  <2>1. /\ n \in Nat /\ c \in Nat /\ a \in Nat /\ b \in Nat /\ c1 \in Int /\ b1 \in Int
        /\ l \in Nat /\ logged[k] = n + l + a + b + c /\ b1 + c1 = b + c
    BY <1>1, <1>2
  <2> HIDE DEF n, c, l, a, b, b1, c1
  <2>2. logged[k] = n + l + a + b1 + c1
    BY <2>1
  <2> QED
    BY <2>2 DEF n, l, a, b1, c1
<1>4. (logged[k] = Len(StoredIds(k)) + LostOf(k) + Told(k) + dropped[k] + Cardinality(Uncounted(k)))'
  BY <1>1, <1>3
<1>5. Ordered(StoredIds(k), logged[k])'
  BY <1>1 DEF Ordered
<1> QED
  BY <1>4, <1>5 DEF Balance

(* One more is logged: it is stored, or its task has a drop to count. *)
LEMMA LogsOne ==
  ASSUME IInv, NEW k \in Kinds, UNCHANGED uploadVars,
         logged'[k] = logged[k] + 1, Told(k)' = Told(k), dropped'[k] = dropped[k],
         \/ /\ StoredIds(k)' = StoredIds(k) \o <<logged[k] + 1>>
            /\ Cardinality(Uncounted(k))' = Cardinality(Uncounted(k))
         \/ /\ StoredIds(k)' = StoredIds(k)
            /\ Cardinality(Uncounted(k))' = Cardinality(Uncounted(k)) + 1
  PROVE  Balance(k)'
<1>1. /\ logged[k] \in Nat /\ dropped[k] \in Nat /\ Told(k) \in Nat
      /\ Len(StoredIds(k)) \in Nat /\ Cardinality(Uncounted(k)) \in Nat
      /\ LostOf(k) \in Nat /\ LostOf(k)' = LostOf(k)
      /\ logged[k] = Len(StoredIds(k)) + LostOf(k) + Told(k) + dropped[k] + Cardinality(Uncounted(k))
      /\ Ordered(StoredIds(k), logged[k]) /\ StoredIds(k) \in Seq(Nat)
  BY CountTypes DEF Balance, LostOf, uploadVars, results
<1>2. CASE /\ StoredIds(k)' = StoredIds(k) \o <<logged[k] + 1>>
           /\ Cardinality(Uncounted(k))' = Cardinality(Uncounted(k))
  <2>1. /\ Ordered(StoredIds(k) \o <<logged[k] + 1>>, logged[k] + 1)
        /\ Len(StoredIds(k) \o <<logged[k] + 1>>) = Len(StoredIds(k)) + 1
    BY <1>1, OrderedAppend
  <2>2. logged[k] + 1 = Len(StoredIds(k) \o <<logged[k] + 1>>) + LostOf(k) + Told(k) + dropped[k]
                        + Cardinality(Uncounted(k))
    BY <1>1, <2>1
  <2>3. (logged[k] = Len(StoredIds(k)) + LostOf(k) + Told(k) + dropped[k] + Cardinality(Uncounted(k)))'
    BY <1>1, <1>2, <2>2
  <2>4. Ordered(StoredIds(k), logged[k])'
    BY <1>2, <2>1 DEF Ordered
  <2> QED
    BY <2>3, <2>4 DEF Balance
<1>3. CASE /\ StoredIds(k)' = StoredIds(k)
           /\ Cardinality(Uncounted(k))' = Cardinality(Uncounted(k)) + 1
  <2>1. logged[k] + 1 = Len(StoredIds(k)) + LostOf(k) + Told(k) + dropped[k]
                        + (Cardinality(Uncounted(k)) + 1)
    BY <1>1
  <2>2. (logged[k] = Len(StoredIds(k)) + LostOf(k) + Told(k) + dropped[k] + Cardinality(Uncounted(k)))'
    BY <1>1, <1>3, <2>1
  <2>3. \A i \in DOMAIN StoredIds(k) : StoredIds(k)[i] \in Nat
    BY <1>1, LenProperties, ElementOfSeq
  <2>4. Ordered(StoredIds(k), logged[k] + 1)
    BY <1>1, <2>3 DEF Ordered
  <2>5. Ordered(StoredIds(k), logged[k])'
    BY <1>3, <2>4 DEF Ordered
  <2> QED
    BY <2>2, <2>5 DEF Balance
<1> QED
  BY <1>2, <1>3

LEMMA UploadUntouched ==
  ASSUME UNCHANGED uploadVars
  PROVE  /\ \A k : Taken(k)' = Taken(k) /\ Told(k)' = Told(k)
         /\ BatchKept => BatchKept'
BY DEF uploadVars, results, Taken, Told, IdOf, BatchKept, Cap

LEMMA SinkStartInv ==
  ASSUME IInv, NEW t \in Tasks, NEW len \in PacketLens \cup {0}, SinkStart(t, len)
  PROVE  IInv'
<1>1. /\ pc[t] = "idle" /\ sinkLock = NoTask /\ sinkLock' = t
      /\ UNCHANGED <<binEnabled, ring, dropped, connected, uploadVars>>
  BY DEF SinkStart, LockIsFree
<1>2. /\ sinkItem = NoEntry /\ NoTask \notin Tasks
      /\ \A u \in Tasks : pc[u] \notin {"payload", "bin"}
  BY <1>1, LogUplinkAssumption DEF IInv, Shapes, SinkHeld
<1>3. len \in Nat /\ BatchKept' /\ PacketIsWhole'
  BY <1>1, UploadUntouched, LogUplinkAssumption DEF IInv, Shapes, PacketIsWhole
<1>4. /\ pc \in [Tasks -> {"idle", "payload", "bin", "text"}]
      /\ job \in [Tasks -> [id : Nat, left : Nat]]
      /\ acquired \in [Kinds -> Nat] /\ logged \in [Kinds -> Nat] /\ freed \in [Kinds -> Nat]
      /\ \A k \in Kinds : acquired[k] - freed[k] \in 0 .. RingSize
      /\ "bin" \in Kinds /\ "text" \in Kinds
  BY DEF IInv, Shapes, TypeOK, Kinds
<1>5. BatchFits'
  BY <1>1 DEF IInv, Shapes, TypeOK, BatchFits, uploadVars, results
<1>6. CASE len = 0 \/ ~binEnabled
  <2>1. /\ pc' = [pc EXCEPT ![t] = "payload"] /\ job' = [job EXCEPT ![t] = [id |-> 0, left |-> 0]]
        /\ sinkItem' = NoEntry /\ UNCHANGED <<acquired, logged>>
    BY <1>6 DEF SinkStart
  <2>2. TypeOK'
    <3>1. pc' \in [Tasks -> {"idle", "payload", "bin", "text"}]
      BY <1>4, <2>1
    <3>2. job' \in [Tasks -> [id : Nat, left : Nat]]
      BY <1>4, <2>1
    <3> QED
      BY <1>1, <1>2, <1>5, <2>1, <3>1, <3>2 DEF IInv, Shapes, TypeOK, uploadVars, results
  <2>3. SinkHeld'
    BY <1>1, <1>2, <1>4, <2>1 DEF SinkHeld
  <2>4. RingKept'
    BY <1>1, <2>1 DEF IInv, Shapes, RingKept, RingOf, uploadVars, results
  <2>5. ASSUME NEW k \in Kinds PROVE Balance(k)'
    <3>1. StoredIds(k)' = StoredIds(k) /\ Told(k)' = Told(k)
      BY <1>1, <1>2, <2>1, UploadUntouched DEF StoredIds, Written, uploadVars, results
    <3>2. Cardinality(Uncounted(k))' = Cardinality(Uncounted(k))
      <4>1. pc[t] # k /\ "payload" # k
        BY <1>1 DEF Kinds
      <4> QED
        BY <2>1, <4>1, CountStays, Zenon
    <3> QED
      BY <1>1, <2>1, <3>1, <3>2, KeepsBalance
  <2> QED
    BY <1>3, <2>2, <2>3, <2>4, <2>5, BalancesNext DEF IInv, Shapes
<1>7. CASE ~(len = 0 \/ ~binEnabled)
  <2>1. /\ logged["bin"] < MaxPackets /\ logged' = [logged EXCEPT !["bin"] = @ + 1]
        /\ job' = [job EXCEPT ![t] = [id |-> logged'["bin"], left |-> len - 1]]
        /\ len - 1 \in Nat
    BY <1>3, <1>7 DEF SinkStart
  <2>2. /\ logged'["bin"] = logged["bin"] + 1 /\ logged'["text"] = logged["text"]
        /\ logged'["bin"] \in Nat /\ logged' \in [Kinds -> Nat]
        /\ logged'["bin"] <= MaxPackets /\ logged'["text"] <= MaxLines
    <3>1. logged["bin"] \in Nat /\ MaxPackets \in Nat /\ logged["text"] <= MaxLines
      BY <1>4, LogUplinkAssumption DEF IInv, Shapes, TypeOK
    <3> QED
      BY <1>4, <2>1, <3>1
  <2>3. job' \in [Tasks -> [id : Nat, left : Nat]] /\ job'[t].id = logged'["bin"] /\ job'[t].left = len - 1
    BY <1>4, <2>1, <2>2
  <2>4. CASE Fits("bin", len)
    <3>1. /\ acquired' = [acquired EXCEPT !["bin"] = @ + len]
          /\ sinkItem' = Entry(len, acquired'["bin"], logged'["bin"])
          /\ pc' = [pc EXCEPT ![t] = "payload"]
      BY <1>7, <2>4 DEF SinkStart, Acquire
    <3>2. /\ acquired'["bin"] = acquired["bin"] + len /\ acquired'["text"] = acquired["text"]
          /\ acquired' \in [Kinds -> Nat] /\ acquired'["bin"] \in Nat
      BY <1>3, <1>4, <3>1 DEF Kinds
    <3>3. /\ sinkItem'.len = len /\ sinkItem'.end = acquired'["bin"]
          /\ sinkItem'.data = <<logged'["bin"]>> /\ sinkItem' \in Entries /\ sinkItem' # NoEntry
          /\ IdOf(sinkItem') = <<logged'["bin"]>>
      <4>1. <<logged'["bin"]>> \in Seq(Nat)
        BY <2>2
      <4>2. sinkItem' \in Entries
        BY <1>3, <3>1, <3>2, <4>1 DEF Entry, Entries
      <4>3. sinkItem'.data = <<logged'["bin"]>> /\ sinkItem'.data # <<>>
        BY <3>1 DEF Entry
      <4> QED
        BY <3>1, <4>2, <4>3, IdType DEF Entry, Id
    <3>4. TypeOK'
      <4>1. pc' \in [Tasks -> {"idle", "payload", "bin", "text"}]
        BY <1>4, <3>1
      <4>2. \A k \in Kinds : acquired'[k] - freed'[k] \in 0 .. RingSize
        <5>1. acquired'["bin"] - freed["bin"] \in 0 .. RingSize
          BY <1>3, <1>4, <2>4, <3>2, LogUplinkAssumption DEF Fits
        <5>2. acquired'["text"] - freed["text"] \in 0 .. RingSize
          BY <1>4, <3>2
        <5> QED
          BY <1>1, <5>1, <5>2 DEF uploadVars, results, Kinds
      <4> QED
        BY <1>1, <1>5, <2>2, <2>3, <3>2, <3>3, <4>1, <4>2 DEF IInv, Shapes, TypeOK, uploadVars, results
    <3>5. SinkHeld'
      <4>1. \A u \in Tasks : pc'[u] \in {"payload", "bin"} <=> sinkLock' = u
        BY <1>1, <1>2, <1>4, <3>1
      <4>2. \A u \in Tasks : pc'[u] # "bin"
        BY <1>2, <1>4, <3>1
      <4>3. /\ Len(sinkItem'.data) + job'[sinkLock'].left = sinkItem'.len
            /\ \A j \in DOMAIN sinkItem'.data : sinkItem'.data[j] = job'[sinkLock'].id
        BY <1>1, <1>3, <2>3, <3>3
      <4> QED
        BY <1>1, <1>2, <3>3, <4>1, <4>2, <4>3 DEF SinkHeld
    <3>6. RingKept'
      <4>1. RingOf("text")'
        BY <1>1, <1>4, <3>2 DEF IInv, Shapes, RingKept, RingOf, uploadVars, results
      <4>2. RingOf("bin")'
        <5>1. acquired["bin"] <= acquired'["bin"] /\ acquired["bin"] \in Nat
          BY <1>3, <1>4, <3>2
        <5>2. \A i \in 1 .. Len(ring["bin"]) : ring["bin"][i].end \in Nat
          <6>1. ring["bin"] \in Seq(Entries)
            BY <1>4 DEF IInv, Shapes, TypeOK
          <6>2. \A i \in 1 .. Len(ring["bin"]) : ring["bin"][i] \in Entries
            BY <6>1, ElementOfSeq
          <6> QED
            BY <6>2 DEF Entries
        <5>3. \A i \in 1 .. Len(ring["bin"]) : ring["bin"][i].end <= acquired'["bin"]
          <6>1. \A i \in 1 .. Len(ring["bin"]) : ring["bin"][i].end <= acquired["bin"]
            BY <1>4 DEF IInv, Shapes, RingKept, RingOf
          <6>2. acquired'["bin"] \in Nat
            BY <1>3, <1>4, <3>2
          <6> QED
            BY <5>1, <5>2, <6>1, <6>2
        <5>4. up[1] = "bin" /\ held # NoEntry => held.end <= acquired'["bin"]
          <6>1. held.end \in Nat
            BY DEF IInv, Shapes, TypeOK, Entries
          <6>2. up[1] = "bin" /\ held # NoEntry => held.end <= acquired["bin"]
            BY <1>4 DEF IInv, Shapes, RingKept, RingOf
          <6> QED
            BY <3>2, <5>1, <6>1, <6>2
        <5> QED
          BY <1>1, <1>4, <5>3, <5>4 DEF IInv, Shapes, RingKept, RingOf, uploadVars, results
      <4> QED
        BY <4>1, <4>2 DEF RingKept, Kinds
    <3>7. Balance("bin")'
      <4>1. Cardinality(Uncounted("bin"))' = Cardinality(Uncounted("bin"))
        <5>1. pc[t] # "bin" /\ "payload" # "bin"
          BY <1>1
        <5> QED
          BY <1>4, <3>1, <5>1, CountStays, Zenon
      <4>2. StoredIds("bin")' = StoredIds("bin") \o <<logged["bin"] + 1>>
        <5>1. Written("bin") = <<>> /\ Written("bin")' = <<logged["bin"] + 1>>
          BY <1>2, <2>2, <3>3 DEF Written, IdOf
        <5>2. out["bin"].ids \o Taken("bin") \o IdsOf(ring["bin"]) \in Seq(Nat)
          BY <1>4, PartsType, ConcatProperties DEF IInv
        <5>3. StoredIds("bin") = out["bin"].ids \o Taken("bin") \o IdsOf(ring["bin"])
          BY <5>1, <5>2, ConcatEmptySeq DEF StoredIds
        <5>4. out' = out /\ Taken("bin")' = Taken("bin") /\ ring' = ring
          BY <1>1, UploadUntouched DEF uploadVars, results
        <5> QED
          BY <5>1, <5>3, <5>4 DEF StoredIds
      <4> QED
        BY <1>1, <1>4, <2>2, <4>1, <4>2, LogsOne, UploadUntouched
    <3>8. Balance("text")'
      <4>1. Cardinality(Uncounted("text"))' = Cardinality(Uncounted("text"))
        <5>1. pc[t] # "text" /\ "payload" # "text"
          BY <1>1
        <5> QED
          BY <1>4, <3>1, <5>1, CountStays, Zenon
      <4>2. StoredIds("text")' = StoredIds("text") /\ Told("text")' = Told("text")
        BY <1>1, UploadUntouched DEF StoredIds, Written, uploadVars, results
      <4> QED
        BY <1>1, <1>4, <2>2, <4>1, <4>2, KeepsBalance
    <3> QED
      BY <1>3, <3>4, <3>5, <3>6, <3>7, <3>8, BalancesNext DEF IInv, Shapes, Kinds
  <2>5. CASE ~Fits("bin", len)
    <3>1. /\ sinkItem' = NoEntry /\ acquired' = acquired /\ pc' = [pc EXCEPT ![t] = "bin"]
      BY <1>7, <2>5 DEF SinkStart
    <3>2. TypeOK'
      <4>1. pc' \in [Tasks -> {"idle", "payload", "bin", "text"}]
        BY <1>4, <3>1
      <4> QED
        BY <1>1, <1>2, <1>5, <2>2, <2>3, <3>1, <4>1 DEF IInv, Shapes, TypeOK, uploadVars, results
    <3>3. SinkHeld'
      BY <1>1, <1>2, <1>4, <3>1 DEF SinkHeld
    <3>4. RingKept'
      BY <1>1, <3>1 DEF IInv, Shapes, RingKept, RingOf, uploadVars, results
    <3>5. \A k \in Kinds : StoredIds(k)' = StoredIds(k) /\ Told(k)' = Told(k)
      BY <1>1, <1>2, <3>1, UploadUntouched DEF StoredIds, Written, uploadVars, results
    <3>6. Balance("bin")'
      <4>1. Cardinality(Uncounted("bin"))' = Cardinality(Uncounted("bin")) + 1
        BY <1>1, <1>4, <3>1, CountGrows, Zenon
      <4> QED
        BY <1>1, <1>4, <2>2, <3>5, <4>1, LogsOne
    <3>7. Balance("text")'
      <4>1. Cardinality(Uncounted("text"))' = Cardinality(Uncounted("text"))
        <5>1. pc[t] # "text" /\ "bin" # "text"
          BY <1>1
        <5> QED
          BY <1>4, <3>1, <5>1, CountStays, Zenon
      <4> QED
        BY <1>1, <1>4, <2>2, <3>5, <4>1, KeepsBalance
    <3> QED
      BY <1>3, <3>2, <3>3, <3>4, <3>6, <3>7, BalancesNext DEF IInv, Shapes, Kinds
  <2> QED
    BY <2>4, <2>5
<1> QED
  BY <1>6, <1>7

LEMMA SinkCountDropInv == ASSUME IInv, NEW t \in Tasks, SinkCountDrop(t) PROVE IInv'
<1>1. /\ pc[t] = "bin" /\ dropped' = [dropped EXCEPT !["bin"] = @ + 1]
      /\ pc' = [pc EXCEPT ![t] = "payload"]
      /\ UNCHANGED <<binEnabled, ring, acquired, sinkLock, sinkItem, job, connected, logged,
                     uploadVars>>
  BY DEF SinkCountDrop
<1>2. /\ pc \in [Tasks -> {"idle", "payload", "bin", "text"}] /\ dropped \in [Kinds -> Nat]
      /\ "bin" \in Kinds /\ "text" \in Kinds
  BY DEF IInv, Shapes, TypeOK, Kinds
<1>3. /\ dropped' \in [Kinds -> Nat] /\ dropped'["bin"] = dropped["bin"] + 1
      /\ dropped'["text"] = dropped["text"]
  BY <1>1, <1>2
<1>4. TypeOK'
  <2>1. pc' \in [Tasks -> {"idle", "payload", "bin", "text"}]
    BY <1>1, <1>2
  <2> QED
    BY <1>1, <1>3, <2>1 DEF IInv, Shapes, TypeOK, BatchFits, uploadVars, results
<1>5. SinkHeld'
  BY <1>1, <1>2 DEF IInv, Shapes, SinkHeld
<1>6. RingKept' /\ BatchKept' /\ PacketIsWhole'
  BY <1>1, UploadUntouched DEF IInv, Shapes, RingKept, RingOf, PacketIsWhole, uploadVars, results
<1>7. \A k \in Kinds : StoredIds(k)' = StoredIds(k) /\ Told(k)' = Told(k)
  BY <1>1, UploadUntouched DEF StoredIds, Written, uploadVars, results
<1>8. Balance("bin")'
  <2>1. Cardinality(Uncounted("bin"))' = Cardinality(Uncounted("bin")) - 1
    <3>1. pc[t] = "bin" /\ "payload" # "bin"
      BY <1>1
    <3> QED
      BY <1>1, <1>2, <3>1, CountFalls, Zenon
  <2> QED
    BY <1>1, <1>2, <1>3, <1>7, <2>1, KeepsBalance
<1>9. Balance("text")'
  <2>1. Cardinality(Uncounted("text"))' = Cardinality(Uncounted("text"))
    <3>1. pc[t] # "text" /\ "payload" # "text"
      BY <1>1
    <3> QED
      BY <1>1, <1>2, <3>1, CountStays, Zenon
  <2> QED
    BY <1>1, <1>2, <1>3, <1>7, <2>1, KeepsBalance
<1> QED
  BY <1>4, <1>5, <1>6, <1>8, <1>9, BalancesNext DEF IInv, Shapes, Kinds

LEMMA SinkPayloadInv == ASSUME IInv, NEW t \in Tasks, SinkPayload(t) PROVE IInv'
<1>1. /\ pc[t] = "payload" /\ job[t].left > 0 /\ job' = [job EXCEPT ![t].left = @ - 1]
      /\ UNCHANGED <<binEnabled, ring, acquired, dropped, sinkLock, pc, connected, logged,
                     uploadVars>>
  BY DEF SinkPayload
<1>2. job \in [Tasks -> [id : Nat, left : Nat]] /\ sinkItem \in Entries /\ sinkLock = t
  BY <1>1 DEF IInv, Shapes, TypeOK, SinkHeld
<1>3. /\ job' \in [Tasks -> [id : Nat, left : Nat]]
      /\ job'[t].id = job[t].id /\ job'[t].left = job[t].left - 1
      /\ job[t].id \in Nat /\ job[t].left \in Nat
  BY <1>1, <1>2
<1>4. /\ sinkItem' \in Entries /\ (sinkItem' = NoEntry <=> sinkItem = NoEntry)
      /\ IdOf(sinkItem') = IdOf(sinkItem) /\ SinkHeld'
  <2>1. CASE sinkItem = NoEntry
    <3>1. sinkItem' = sinkItem
      BY <2>1 DEF SinkPayload
    <3> QED
      BY <1>1, <1>2, <2>1, <3>1 DEF IInv, Shapes, SinkHeld
  <2>2. CASE sinkItem # NoEntry
    <3>1. /\ sinkItem.end = acquired["bin"] /\ sinkItem.data # <<>>
          /\ Len(sinkItem.data) + job[t].left = sinkItem.len
          /\ \A j \in DOMAIN sinkItem.data : sinkItem.data[j] = job[t].id
          /\ sinkItem.data \in Seq(Nat) /\ sinkItem.len \in Nat /\ sinkItem.end \in Nat
      BY <1>2, <2>2 DEF IInv, Shapes, SinkHeld, Entries
    <3> DEFINE d == sinkItem.data
               e == Append(d, job[t].id)
    <3>2. /\ Len(d) \in Nat \ {0} /\ DOMAIN d = 1 .. Len(d)
          /\ e \in Seq(Nat) /\ Len(e) = Len(d) + 1 /\ DOMAIN e = 1 .. Len(d) + 1
          /\ (\A j \in 1 .. Len(d) : e[j] = d[j]) /\ e[Len(d) + 1] = job[t].id
      BY <1>3, <3>1, EmptySeq, LenProperties, AppendProperties
    <3>3. sinkItem' = [sinkItem EXCEPT !.data = e]
      BY <1>3, <2>2, <3>1, <3>2, <1>1 DEF SinkPayload
    <3> HIDE DEF d, e
    <3>4. /\ sinkItem'.data = e /\ sinkItem'.len = sinkItem.len /\ sinkItem'.end = sinkItem.end
          /\ sinkItem' \in Entries
      BY <1>2, <3>2, <3>3 DEF Entries
    <3>5. e # <<>> /\ \A j \in DOMAIN e : e[j] = job[t].id
      <4>1. \A j \in 1 .. Len(d) : d[j] = job[t].id
        BY <3>1, <3>2 DEF d
      <4>2. ASSUME NEW j \in 1 .. Len(d) + 1 PROVE e[j] = job[t].id
        BY <3>2, <4>1
      <4>3. Len(e) # 0
        BY <3>2
      <4> QED
        BY <3>2, <4>2, <4>3, EmptySeq
    <3>6. IdOf(sinkItem') = IdOf(sinkItem) /\ sinkItem' # NoEntry
      <4>1. e[1] = d[1]
        BY <3>2
      <4>2. Id(sinkItem') = Id(sinkItem)
        BY <3>4, <4>1 DEF Id, d
      <4>3. IdOf(sinkItem) = <<Id(sinkItem)>>
        BY <1>2, <3>1, IdType
      <4>4. IdOf(sinkItem') = <<Id(sinkItem')>> /\ sinkItem' # NoEntry
        BY <3>4, <3>5, IdType
      <4> QED
        BY <4>2, <4>3, <4>4
    <3>7. Len(e) + job'[t].left = sinkItem'.len
      <4>1. Len(d) + job[t].left = sinkItem.len /\ Len(d) \in Nat /\ Len(e) = Len(d) + 1
        BY <3>1, <3>2 DEF d
      <4> QED
        BY <1>3, <3>4, <4>1
    <3>8. \A u \in Tasks : pc[u] # "bin"
      BY <2>2 DEF IInv, Shapes, SinkHeld
    <3>9. SinkHeld'
      BY <1>1, <1>2, <1>3, <2>2, <3>1, <3>4, <3>5, <3>7, <3>8, LogUplinkAssumption
         DEF IInv, Shapes, SinkHeld
    <3> QED
      BY <2>2, <3>4, <3>6, <3>9
  <2> QED
    BY <2>1, <2>2
<1>5. TypeOK'
  BY <1>1, <1>3, <1>4 DEF IInv, Shapes, TypeOK, BatchFits, uploadVars, results
<1>6. RingKept' /\ BatchKept' /\ PacketIsWhole'
  BY <1>1, UploadUntouched DEF IInv, Shapes, RingKept, RingOf, PacketIsWhole, uploadVars, results
<1>7. ASSUME NEW k \in Kinds PROVE Balance(k)'
  <2>1. StoredIds(k)' = StoredIds(k) /\ Told(k)' = Told(k)
    BY <1>1, <1>4, UploadUntouched DEF StoredIds, Written, uploadVars, results
  <2>2. Cardinality(Uncounted(k))' = Cardinality(Uncounted(k))
    BY <1>1 DEF Uncounted
  <2> QED
    BY <1>1, <2>1, <2>2, KeepsBalance
<1> QED
  BY <1>4, <1>5, <1>6, <1>7, BalancesNext DEF IInv, Shapes

(* A complete entry at the end of a ring. *)
LEMMA RingGrows ==
  ASSUME IInv, NEW k \in Kinds, NEW e \in Entries,
         e.data # <<>>, e.len > 0, k = "text" => e.len < LineMax,
         acquired[k] <= acquired'[k], e.end = acquired'[k],
         acquired \in [Kinds -> Nat], acquired' \in [Kinds -> Nat],
         ring' = [ring EXCEPT ![k] = Append(@, e)],
         \A q \in Kinds : q # k => acquired'[q] = acquired[q],
         UNCHANGED uploadVars
  PROVE  /\ RingKept' /\ ring' \in [Kinds -> Seq(Entries)]
         /\ IdsOf(ring'[k]) = IdsOf(ring[k]) \o <<Id(e)>>
<1>1. /\ ring \in [Kinds -> Seq(Entries)] /\ ring[k] \in Seq(Entries)
      /\ freed \in [Kinds -> Nat] /\ held \in Entries /\ \A q \in Kinds : RingOf(q)
      /\ \A q \in Kinds : acquired[q] - freed[q] \in 0 .. RingSize
  BY DEF IInv, Shapes, TypeOK, RingKept
<1> DEFINE r == Append(ring[k], e)
           n == Len(ring[k])
<1>2. /\ r \in Seq(Entries) /\ n \in Nat /\ Len(r) = n + 1 /\ r[n + 1] = e
      /\ \A i \in 1 .. n : r[i] = ring[k][i]
  BY <1>1, AppendProperties, LenProperties
<1>3. ring'[k] = r /\ (\A q \in Kinds : q # k => ring'[q] = ring[q])
      /\ ring' \in [Kinds -> Seq(Entries)]
  BY <1>1, <1>2
<1>4. /\ \A i \in 1 .. n : ring[k][i].data # <<>>
      /\ IdsOf(ring'[k]) = IdsOf(ring[k]) \o <<Id(e)>>
  <2>1. \A i \in 1 .. n : ring[k][i].data # <<>>
    BY <1>1 DEF RingOf
  <2> QED
    BY <1>1, <1>3, <2>1, IdsOfAppend
<1>5. /\ acquired[k] \in Nat /\ acquired'[k] \in Nat /\ freed[k] \in Nat /\ held.end \in Nat
      /\ freed[k] <= acquired[k] /\ e.end \in Nat
      /\ \A i \in 1 .. n : ring[k][i].end \in Nat
  <2>1. \A i \in 1 .. n : ring[k][i] \in Entries
    BY <1>1, ElementOfSeq
  <2>2. acquired[k] - freed[k] >= 0
    BY <1>1, LogUplinkAssumption
  <2>3. acquired[k] \in Nat /\ acquired'[k] \in Nat /\ freed[k] \in Nat
    BY <1>1
  <2>4. held.end \in Nat /\ e.end \in Nat /\ \A i \in 1 .. n : ring[k][i].end \in Nat
    BY <1>1, <2>1 DEF Entries
  <2> QED
    BY <2>2, <2>3, <2>4
<1> HIDE DEF r, n
<1>6. RingOf(k)'
  <2>1. ASSUME NEW i \in 1 .. n + 1
        PROVE  /\ r[i].data # <<>> /\ r[i].len > 0
               /\ freed[k] <= r[i].end /\ r[i].end <= acquired'[k]
               /\ \A j \in 1 .. i : r[j].end <= r[i].end
               /\ k = "text" => r[i].len < LineMax
    <3>1. CASE i = n + 1
      <4>1. \A j \in 1 .. n : ring[k][j].end <= acquired'[k]
        <5>1. \A j \in 1 .. n : ring[k][j].end <= acquired[k]
          BY <1>1 DEF RingOf, n
        <5> QED
          BY <1>5, <5>1
      <4>2. \A j \in 1 .. i : r[j].end <= r[i].end
        <5>1. ASSUME NEW j \in 1 .. n PROVE r[j].end <= r[i].end
          BY <1>2, <3>1, <4>1
        <5>2. r[i].end <= r[i].end
          BY <1>2, <1>5, <3>1
        <5> QED
          BY <1>2, <3>1, <5>1, <5>2
      <4>3. freed[k] <= e.end /\ e.end <= acquired'[k]
        BY <1>5
      <4> QED
        BY <1>2, <3>1, <4>2, <4>3
    <3>2. CASE i \in 1 .. n
      <4>1. /\ ring[k][i].data # <<>> /\ ring[k][i].len > 0
            /\ freed[k] <= ring[k][i].end /\ ring[k][i].end <= acquired[k]
            /\ \A j \in 1 .. i : ring[k][j].end <= ring[k][i].end
            /\ k = "text" => ring[k][i].len < LineMax
        BY <1>1, <3>2 DEF RingOf, n
      <4>2. \A j \in 1 .. i : r[j] = ring[k][j]
        BY <1>2, <3>2
      <4>3. r[i] = ring[k][i] /\ r[i].end <= acquired'[k]
        BY <1>2, <1>5, <3>2, <4>1
      <4> QED
        BY <4>1, <4>2, <4>3
    <3> QED
      BY <1>2, <3>1, <3>2
  <2>2. up[1] = k /\ held # NoEntry =>
          /\ held.data # <<>> /\ held.len > 0
          /\ freed[k] <= held.end /\ held.end <= acquired[k]
          /\ \A i \in 1 .. n : held.end <= ring[k][i].end
          /\ k = "text" => held.len < LineMax
    BY <1>1 DEF RingOf, n
  <2>3. up[1] = k /\ held # NoEntry =>
          held.end <= acquired'[k] /\ \A i \in 1 .. n + 1 : held.end <= r[i].end
    <3> SUFFICES ASSUME up[1] = k /\ held # NoEntry
                 PROVE  held.end <= acquired'[k] /\ \A i \in 1 .. n + 1 : held.end <= r[i].end
      OBVIOUS
    <3>1. held.end <= acquired'[k]
      BY <1>5, <2>2
    <3>2. ASSUME NEW i \in 1 .. n PROVE held.end <= r[i].end
      BY <1>2, <2>2
    <3>3. held.end <= r[n + 1].end
      BY <1>2, <3>1
    <3> QED
      BY <1>2, <3>1, <3>2, <3>3
  <2>4. up' = up /\ held' = held /\ freed' = freed
    BY DEF uploadVars, results
  <2> QED
    BY <1>2, <1>3, <2>1, <2>2, <2>3, <2>4 DEF RingOf
<1>7. \A q \in Kinds : q # k => RingOf(q)'
  BY <1>1, <1>3 DEF RingOf, uploadVars, results
<1> QED
  BY <1>3, <1>4, <1>6, <1>7 DEF RingKept

LEMMA SinkEndInv == ASSUME IInv, NEW t \in Tasks, SinkEnd(t) PROVE IInv'
<1>1. /\ pc[t] = "payload" /\ job[t].left = 0 /\ sinkItem' = NoEntry /\ sinkLock' = NoTask
      /\ pc' = [pc EXCEPT ![t] = "idle"]
      /\ job' = [job EXCEPT ![t] = [id |-> 0, left |-> 0]]
      /\ UNCHANGED <<binEnabled, acquired, dropped, connected, logged, uploadVars>>
  BY DEF SinkEnd
<1>2. /\ pc \in [Tasks -> {"idle", "payload", "bin", "text"}] /\ sinkLock = t
      /\ ring \in [Kinds -> Seq(Entries)] /\ sinkItem \in Entries
      /\ acquired \in [Kinds -> Nat] /\ "bin" \in Kinds
  BY <1>1 DEF IInv, Shapes, TypeOK, SinkHeld, Kinds
<1>3. SinkHeld'
  <2>1. \A u \in Tasks : pc'[u] \notin {"payload", "bin"}
    BY <1>1, <1>2 DEF IInv, Shapes, SinkHeld
  <2> QED
    BY <1>1, <2>1, LogUplinkAssumption DEF SinkHeld
<1>4. /\ RingKept' /\ ring' \in [Kinds -> Seq(Entries)] /\ PacketIsWhole'
      /\ \A k \in Kinds : StoredIds(k)' = StoredIds(k)
  <2>1. CASE sinkItem = NoEntry
    <3>1. ring' = ring
      BY <2>1 DEF SinkEnd
    <3>2. RingKept'
      BY <1>1, <3>1 DEF IInv, Shapes, RingKept, RingOf, uploadVars, results
    <3>3. PacketIsWhole'
      BY <3>1 DEF IInv, PacketIsWhole
    <3>4. \A k \in Kinds : StoredIds(k)' = StoredIds(k)
      BY <1>1, <2>1, <3>1, UploadUntouched DEF StoredIds, Written, uploadVars, results
    <3> QED
      BY <1>2, <3>1, <3>2, <3>3, <3>4
  <2>2. CASE sinkItem # NoEntry
    <3>1. ring' = [ring EXCEPT !["bin"] = Append(@, sinkItem)]
      BY <2>2 DEF SinkEnd
    <3>2. /\ sinkItem.end = acquired["bin"] /\ sinkItem.data # <<>>
          /\ Len(sinkItem.data) + job[t].left = sinkItem.len
          /\ \A j \in DOMAIN sinkItem.data : sinkItem.data[j] = job[t].id
      BY <1>2, <2>2 DEF IInv, Shapes, SinkHeld
    <3>3. /\ sinkItem.data \in Seq(Nat) /\ Len(sinkItem.data) \in Nat \ {0}
          /\ DOMAIN sinkItem.data = 1 .. Len(sinkItem.data)
          /\ Len(sinkItem.data) = sinkItem.len /\ sinkItem.len > 0
      <4>1. sinkItem.data \in Seq(Nat)
        BY <1>2 DEF Entries
      <4>2. Len(sinkItem.data) \in Nat \ {0}
        BY <3>2, <4>1, EmptySeq
      <4>3. Len(sinkItem.data) = sinkItem.len
        BY <1>1, <3>2, <4>2
      <4> QED
        BY <4>1, <4>2, <4>3, LenProperties
    <3>4. /\ RingKept' /\ ring' \in [Kinds -> Seq(Entries)]
          /\ IdsOf(ring'["bin"]) = IdsOf(ring["bin"]) \o <<Id(sinkItem)>>
      <4>1. acquired["bin"] <= acquired'["bin"] /\ acquired' = acquired
        BY <1>1, <1>2
      <4>2. UNCHANGED uploadVars
        BY <1>1
      <4> QED
        BY <1>2, <3>1, <3>2, <3>3, <4>1, <4>2, RingGrows
    <3>5. PacketIsWhole'
      <4>1. ring["bin"] \in Seq(Entries)
        BY <1>2
      <4> DEFINE r == Append(ring["bin"], sinkItem)
                 n == Len(ring["bin"])
      <4>2. /\ n \in Nat /\ DOMAIN r = 1 .. n + 1 /\ r[n + 1] = sinkItem
            /\ DOMAIN ring["bin"] = 1 .. n /\ \A i \in 1 .. n : r[i] = ring["bin"][i]
        BY <1>2, <4>1, LenProperties, AppendProperties
      <4>3. ring'["bin"] = r
        BY <1>2, <3>1
      <4> HIDE DEF r, n
      <4>4. \A j \in DOMAIN sinkItem.data : sinkItem.data[j] = sinkItem.data[1]
        BY <3>2, <3>3
      <4>5. ASSUME NEW i \in 1 .. n + 1
            PROVE  Len(r[i].data) = r[i].len /\ \A j \in DOMAIN r[i].data : r[i].data[j] = r[i].data[1]
        <5>1. CASE i = n + 1
          BY <3>3, <4>2, <4>4, <5>1
        <5>2. CASE i \in 1 .. n
          BY <4>2, <5>2 DEF IInv, PacketIsWhole
        <5> QED
          BY <4>2, <5>1, <5>2
      <4> QED
        BY <4>2, <4>3, <4>5 DEF PacketIsWhole
    <3>6. ASSUME NEW k \in Kinds PROVE StoredIds(k)' = StoredIds(k)
      <4>1. out' = out /\ Taken(k)' = Taken(k)
        BY <1>1, UploadUntouched DEF uploadVars, results
      <4>2. CASE k = "bin"
        <5> DEFINE a == out["bin"].ids \o Taken("bin")
                   b == IdsOf(ring["bin"])
                   c == <<Id(sinkItem)>>
        <5>1. a \in Seq(Nat) /\ b \in Seq(Nat)
          BY <1>2, PartsType, ConcatProperties DEF IInv
        <5>2. IdOf(sinkItem) = c /\ Id(sinkItem) \in Nat /\ c \in Seq(Nat)
          BY <1>2, <3>2, IdType
        <5>3. Written("bin") = c /\ Written("bin")' = <<>>
          BY <1>1, <5>2 DEF Written, IdOf
        <5>4. StoredIds("bin") = (a \o b) \o c
          BY <5>3 DEF StoredIds
        <5>5. StoredIds("bin")' = (a \o (b \o c)) \o <<>>
          BY <3>4, <4>1, <4>2, <5>3 DEF StoredIds
        <5> HIDE DEF a, b, c
        <5>6. b \o c \in Seq(Nat) /\ a \o (b \o c) \in Seq(Nat)
          BY <5>1, <5>2, ConcatProperties
        <5>7. (a \o (b \o c)) \o <<>> = a \o (b \o c)
          BY <5>6, ConcatEmptySeq
        <5>8. (a \o b) \o c = a \o (b \o c)
          BY <5>1, <5>2, IdsAssociative
        <5> QED
          BY <4>2, <5>4, <5>5, <5>7, <5>8
      <4>3. CASE k # "bin"
        BY <1>2, <3>1, <4>1, <4>3 DEF StoredIds, Written
      <4> QED
        BY <4>2, <4>3
    <3> QED
      BY <3>4, <3>5, <3>6
  <2> QED
    BY <2>1, <2>2
<1>5. TypeOK'
  <2>1. pc' \in [Tasks -> {"idle", "payload", "bin", "text"}]
    BY <1>1, <1>2
  <2>2. NoEntry \in Entries
    BY EmptySeq DEF NoEntry, Entries
  <2>3. job' \in [Tasks -> [id : Nat, left : Nat]]
    BY <1>1 DEF IInv, Shapes, TypeOK
  <2> QED
    BY <1>1, <1>4, <2>1, <2>2, <2>3 DEF IInv, Shapes, TypeOK, BatchFits, uploadVars, results
<1>6. BatchKept'
  BY <1>1, UploadUntouched DEF IInv, Shapes
<1>7. ASSUME NEW k \in Kinds PROVE Balance(k)'
  <2>1. Cardinality(Uncounted(k))' = Cardinality(Uncounted(k))
    <3>1. pc[t] # k /\ "idle" # k
      BY <1>1 DEF Kinds
    <3> QED
      BY <1>1, <3>1, CountStays, Zenon
  <2>2. Told(k)' = Told(k)
    BY <1>1, UploadUntouched
  <2> QED
    BY <1>1, <1>4, <2>1, <2>2, KeepsBalance
<1> QED
  BY <1>3, <1>4, <1>5, <1>6, <1>7, BalancesNext DEF IInv, Shapes

LEMMA TextVprintfInv ==
  ASSUME IInv, NEW t \in Tasks, NEW len \in LineLens, TextVprintf(t, len)
  PROVE  IInv'
<1> DEFINE n == LineLen(len)
<1>1. /\ pc[t] = "idle" /\ logged["text"] < MaxLines
      /\ logged' = [logged EXCEPT !["text"] = @ + 1]
      /\ UNCHANGED <<binEnabled, dropped, sinkLock, sinkItem, job, connected, uploadVars>>
  BY DEF TextVprintf
<1>2. /\ pc \in [Tasks -> {"idle", "payload", "bin", "text"}]
      /\ ring \in [Kinds -> Seq(Entries)]
      /\ logged \in [Kinds -> Nat] /\ logged["bin"] <= MaxPackets
      /\ acquired \in [Kinds -> Nat] /\ freed \in [Kinds -> Nat]
      /\ \A k \in Kinds : acquired[k] - freed[k] \in 0 .. RingSize
      /\ "bin" \in Kinds /\ "text" \in Kinds
  BY DEF IInv, Shapes, TypeOK, Kinds
<1>3. /\ logged'["text"] = logged["text"] + 1 /\ logged'["bin"] = logged["bin"]
      /\ logged'["text"] \in Nat /\ logged' \in [Kinds -> Nat]
      /\ logged'["bin"] <= MaxPackets /\ logged'["text"] <= MaxLines
  <2>1. logged["text"] \in Nat /\ MaxLines \in Nat
    BY <1>2, LogUplinkAssumption
  <2> QED
    BY <1>1, <1>2, <2>1
<1>4. n \in Nat /\ n > 0 /\ n < LineMax
  BY LogUplinkAssumption DEF LineLen
<1> HIDE DEF n
<1>5. BatchKept' /\ BatchFits'
  BY <1>1, UploadUntouched DEF IInv, Shapes, TypeOK, BatchFits, uploadVars, results
<1>6. CASE Fits("text", n)
  <2>1. /\ acquired' = [acquired EXCEPT !["text"] = @ + n] /\ pc' = pc
        /\ ring' = [ring EXCEPT !["text"] = Append(@, Entry(n, acquired'["text"], logged'["text"]))]
    BY <1>6 DEF TextVprintf, Acquire, n
  <2>2. /\ acquired'["text"] = acquired["text"] + n /\ acquired'["bin"] = acquired["bin"]
        /\ acquired' \in [Kinds -> Nat] /\ acquired'["text"] \in Nat
        /\ acquired["text"] <= acquired'["text"]
    <3>1. acquired["text"] \in Nat
      BY <1>2
    <3> QED
      BY <1>2, <1>4, <2>1, <3>1
  <2> DEFINE e == Entry(n, acquired'["text"], logged'["text"])
  <2>3. /\ e \in Entries /\ e.data # <<>> /\ e.len = n /\ e.end = acquired'["text"]
        /\ Id(e) = logged'["text"]
    <3>1. <<logged'["text"]>> \in Seq(Nat)
      BY <1>3
    <3>2. e \in Entries
      BY <1>4, <2>2, <3>1 DEF Entry, Entries
    <3> QED
      BY <3>2 DEF Entry, Id
  <2>4. ring' = [ring EXCEPT !["text"] = Append(@, e)]
    BY <2>1
  <2> HIDE DEF e
  <2>5. /\ RingKept' /\ ring' \in [Kinds -> Seq(Entries)]
        /\ IdsOf(ring'["text"]) = IdsOf(ring["text"]) \o <<logged["text"] + 1>>
    <3>1. \A q \in Kinds : q # "text" => acquired'[q] = acquired[q]
      BY <2>2 DEF Kinds
    <3>2. UNCHANGED uploadVars /\ e.len > 0 /\ e.len < LineMax
      BY <1>1, <1>4, <2>3
    <3>3. RingKept' /\ ring' \in [Kinds -> Seq(Entries)]
          /\ IdsOf(ring'["text"]) = IdsOf(ring["text"]) \o <<Id(e)>>
      BY <1>2, <2>2, <2>3, <2>4, <3>1, <3>2, RingGrows
    <3> QED
      BY <1>3, <2>3, <3>3
  <2>6. TypeOK'
    <3>1. \A k \in Kinds : acquired'[k] - freed'[k] \in 0 .. RingSize
      <4>1. acquired'["text"] - freed["text"] \in 0 .. RingSize
        <5>1. acquired["text"] \in Nat /\ freed["text"] \in Nat
              /\ acquired["text"] - freed["text"] \in 0 .. RingSize
          BY <1>2
        <5> QED
          BY <1>4, <1>6, <2>2, <5>1, LogUplinkAssumption DEF Fits
      <4>2. acquired'["bin"] - freed["bin"] \in 0 .. RingSize
        BY <1>2, <2>2
      <4> QED
        BY <1>1, <4>1, <4>2 DEF uploadVars, results, Kinds
    <3> QED
      BY <1>1, <1>3, <1>5, <2>1, <2>2, <2>5, <3>1 DEF IInv, Shapes, TypeOK, uploadVars, results
  <2>7. SinkHeld' /\ PacketIsWhole'
    <3>1. ring'["bin"] = ring["bin"]
      BY <1>2, <2>1
    <3> QED
      BY <1>1, <2>1, <2>2, <3>1 DEF IInv, Shapes, SinkHeld, PacketIsWhole
  <2>8. Uncounted("bin")' = Uncounted("bin") /\ Uncounted("text")' = Uncounted("text")
    BY <2>1 DEF Uncounted
  <2>9. Balance("bin")'
    <3>1. StoredIds("bin")' = StoredIds("bin") /\ Told("bin")' = Told("bin")
      BY <1>1, <1>2, <2>1, UploadUntouched DEF StoredIds, Written, uploadVars, results
    <3> QED
      BY <1>1, <1>2, <1>3, <2>8, <3>1, KeepsBalance
  <2>10. Balance("text")'
    <3> DEFINE a == out["text"].ids \o Taken("text")
               b == IdsOf(ring["text"])
               c == <<logged["text"] + 1>>
    <3>1. a \in Seq(Nat) /\ b \in Seq(Nat) /\ c \in Seq(Nat)
      BY <1>2, <1>3, PartsType, ConcatProperties DEF IInv
    <3>2. Written("text") = <<>> /\ Written("text")' = <<>>
      BY DEF Written
    <3>3. StoredIds("text") = (a \o b) \o <<>>
      BY <3>2 DEF StoredIds
    <3>4. out' = out /\ Taken("text")' = Taken("text") /\ Told("text")' = Told("text")
      BY <1>1, UploadUntouched DEF uploadVars, results
    <3>5. StoredIds("text")' = (a \o (b \o c)) \o <<>>
      BY <2>5, <3>2, <3>4 DEF StoredIds
    <3> HIDE DEF a, b, c
    <3>6. a \o b \in Seq(Nat) /\ b \o c \in Seq(Nat) /\ a \o (b \o c) \in Seq(Nat)
      BY <3>1, ConcatProperties
    <3>7. (a \o b) \o <<>> = a \o b /\ (a \o (b \o c)) \o <<>> = a \o (b \o c)
      BY <3>6, ConcatEmptySeq
    <3>8. (a \o b) \o c = a \o (b \o c)
      BY <3>1, IdsAssociative
    <3>9. StoredIds("text")' = StoredIds("text") \o <<logged["text"] + 1>>
      BY <3>3, <3>5, <3>7, <3>8 DEF c
    <3> QED
      BY <1>1, <1>2, <1>3, <2>8, <3>4, <3>9, LogsOne
  <2> QED
    BY <1>5, <2>5, <2>6, <2>7, <2>9, <2>10, BalancesNext DEF IInv, Shapes, Kinds
<1>7. CASE ~Fits("text", n)
  <2>1. pc' = [pc EXCEPT ![t] = "text"] /\ UNCHANGED <<ring, acquired>>
    BY <1>7 DEF TextVprintf, n
  <2>2. TypeOK'
    <3>1. pc' \in [Tasks -> {"idle", "payload", "bin", "text"}]
      BY <1>2, <2>1
    <3> QED
      BY <1>1, <1>3, <1>5, <2>1, <3>1 DEF IInv, Shapes, TypeOK, uploadVars, results
  <2>3. SinkHeld'
    BY <1>1, <1>2, <2>1 DEF IInv, Shapes, SinkHeld
  <2>4. RingKept' /\ PacketIsWhole'
    BY <1>1, <2>1 DEF IInv, Shapes, RingKept, RingOf, PacketIsWhole, uploadVars, results
  <2>5. \A k \in Kinds : StoredIds(k)' = StoredIds(k) /\ Told(k)' = Told(k)
    BY <1>1, <2>1, UploadUntouched DEF StoredIds, Written, uploadVars, results
  <2>6. Balance("text")'
    <3>1. Cardinality(Uncounted("text"))' = Cardinality(Uncounted("text")) + 1
      <4>1. pc[t] # "text"
        BY <1>1
      <4> QED
        BY <1>2, <2>1, <4>1, CountGrows, Zenon
    <3> QED
      BY <1>1, <1>2, <1>3, <2>5, <3>1, LogsOne
  <2>7. Balance("bin")'
    <3>1. Cardinality(Uncounted("bin"))' = Cardinality(Uncounted("bin"))
      <4>1. pc[t] # "bin" /\ "text" # "bin"
        BY <1>1
      <4> QED
        BY <1>2, <2>1, <4>1, CountStays, Zenon
    <3> QED
      BY <1>1, <1>2, <1>3, <2>5, <3>1, KeepsBalance
  <2> QED
    BY <1>5, <2>2, <2>3, <2>4, <2>6, <2>7, BalancesNext DEF IInv, Shapes, Kinds
<1> QED
  BY <1>6, <1>7

LEMMA TextCountDropInv == ASSUME IInv, NEW t \in Tasks, TextCountDrop(t) PROVE IInv'
<1>1. /\ pc[t] = "text" /\ dropped' = [dropped EXCEPT !["text"] = @ + 1]
      /\ pc' = [pc EXCEPT ![t] = "idle"]
      /\ UNCHANGED <<binEnabled, ring, acquired, sinkLock, sinkItem, job, connected, logged,
                     uploadVars>>
  BY DEF TextCountDrop
<1>2. /\ pc \in [Tasks -> {"idle", "payload", "bin", "text"}] /\ dropped \in [Kinds -> Nat]
      /\ "bin" \in Kinds /\ "text" \in Kinds
  BY DEF IInv, Shapes, TypeOK, Kinds
<1>3. /\ dropped' \in [Kinds -> Nat] /\ dropped'["text"] = dropped["text"] + 1
      /\ dropped'["bin"] = dropped["bin"]
  BY <1>1, <1>2
<1>4. TypeOK'
  <2>1. pc' \in [Tasks -> {"idle", "payload", "bin", "text"}]
    BY <1>1, <1>2
  <2> QED
    BY <1>1, <1>3, <2>1 DEF IInv, Shapes, TypeOK, BatchFits, uploadVars, results
<1>5. SinkHeld'
  BY <1>1, <1>2 DEF IInv, Shapes, SinkHeld
<1>6. RingKept' /\ BatchKept' /\ PacketIsWhole'
  BY <1>1, UploadUntouched DEF IInv, Shapes, RingKept, RingOf, PacketIsWhole, uploadVars, results
<1>7. \A k \in Kinds : StoredIds(k)' = StoredIds(k) /\ Told(k)' = Told(k)
  BY <1>1, UploadUntouched DEF StoredIds, Written, uploadVars, results
<1>8. Balance("text")'
  <2>1. Cardinality(Uncounted("text"))' = Cardinality(Uncounted("text")) - 1
    <3>1. pc[t] = "text" /\ "idle" # "text"
      BY <1>1
    <3> QED
      BY <1>1, <1>2, <3>1, CountFalls, Zenon
  <2>2. /\ logged'["text"] = logged["text"]
        /\ StoredIds("text")' = StoredIds("text") /\ Told("text")' = Told("text")
    BY <1>1, <1>2, <1>7, Zenon
  <2> QED
    BY <1>1, <1>2, <1>3, <2>1, <2>2, KeepsBalance, Zenon
<1>9. Balance("bin")'
  <2>1. Cardinality(Uncounted("bin"))' = Cardinality(Uncounted("bin"))
    <3>1. pc[t] # "bin" /\ "idle" # "bin"
      BY <1>1
    <3> QED
      BY <1>1, <1>2, <3>1, CountStays, Zenon
  <2>2. /\ logged'["bin"] = logged["bin"]
        /\ StoredIds("bin")' = StoredIds("bin") /\ Told("bin")' = Told("bin")
    BY <1>1, <1>2, <1>7, Zenon
  <2> QED
    BY <1>1, <1>2, <1>3, <2>1, <2>2, KeepsBalance, Zenon
<1> QED
  BY <1>4, <1>5, <1>6, <1>8, <1>9, BalancesNext DEF IInv, Shapes, Kinds

(* Nothing but a switch moves, or nothing at all. *)
LEMMA NothingLogged ==
  ASSUME IInv, UNCHANGED <<ring, acquired, dropped, sinkLock, sinkItem, pc, job, logged, uploadVars>>,
         binEnabled' \in BOOLEAN, connected' \in BOOLEAN
  PROVE  IInv'
<1>1. TypeOK'
  BY DEF IInv, Shapes, TypeOK, BatchFits, uploadVars, results
<1>2. SinkHeld' /\ RingKept' /\ BatchKept' /\ PacketIsWhole'
  BY UploadUntouched DEF IInv, Shapes, SinkHeld, RingKept, RingOf, PacketIsWhole, uploadVars, results
<1>3. ASSUME NEW k \in Kinds PROVE Balance(k)'
  <2>1. StoredIds(k)' = StoredIds(k) /\ Told(k)' = Told(k)
    BY UploadUntouched DEF StoredIds, Written, uploadVars, results
  <2>2. Cardinality(Uncounted(k))' = Cardinality(Uncounted(k))
    BY DEF Uncounted
  <2> QED
    BY <2>1, <2>2, KeepsBalance
<1> QED
  BY <1>1, <1>2, <1>3, BalancesNext DEF IInv, Shapes

--------------------------------------------------------------------------------
(* The whole invariant *)

LEMMA InitInv == Init => IInv
<1> SUFFICES ASSUME Init PROVE IInv
  OBVIOUS
<1>1. /\ batch = NoBatch /\ held = NoEntry /\ sinkItem = NoEntry
      /\ up = <<"none", "delay">> /\ sinkLock = NoTask
      /\ \A t \in Tasks : pc[t] = "idle"
  BY DEF Init, Delay
<1>2. \A k \in Kinds : /\ ring[k] = <<>> /\ acquired[k] = 0 /\ freed[k] = 0
                       /\ dropped[k] = 0 /\ logged[k] = 0
                       /\ out[k].ids = <<>> /\ out[k].told = 0
                       /\ lost[k].entries = 0 /\ lost[k].told = 0
  BY DEF Init
<1>3. <<>> \in Seq(Nat) /\ <<>> \in Seq(Entries) /\ Len(<<>>) = 0
  BY EmptySeq
<1>4. NoEntry \in Entries /\ NoBatch \in [len : Nat, told : Nat, ids : Seq(Nat)]
  BY <1>3 DEF NoEntry, NoBatch, Entries
<1>5. TypeOK
  <2>1. BatchFits /\ up \in {Delay} \cup (Kinds \X {"start", "receive", "copy", "store"})
    BY DEF Init, BatchFits
  <2>2. \A k \in Kinds : acquired[k] - freed[k] \in 0..RingSize
    BY <1>2, LogUplinkAssumption
  <2>3. logged["bin"] <= MaxPackets /\ logged["text"] <= MaxLines
    BY <1>2, LogUplinkAssumption DEF Kinds
  <2>4. (up[2] \in {"copy", "store"}) <=> (held # NoEntry)
    BY <1>1
  <2>5. /\ acquired \in [Kinds -> Nat] /\ freed \in [Kinds -> Nat]
        /\ dropped \in [Kinds -> Nat] /\ logged \in [Kinds -> Nat]
    BY DEF Init
  <2>6. ring \in [Kinds -> Seq(Entries)] /\ out \in [Kinds -> [ids : Seq(Nat), told : Nat]]
        /\ lost \in [Kinds -> [entries : Nat, told : Nat]]
    BY <1>3 DEF Init
  <2>7. /\ pc \in [Tasks -> {"idle", "payload", "bin", "text"}]
        /\ job \in [Tasks -> [id : Nat, left : Nat]]
    BY DEF Init
  <2>8. binEnabled \in BOOLEAN /\ connected \in BOOLEAN
    BY Zenon DEF Init
  <2> QED
    BY <1>1, <1>4, <2>1, <2>2, <2>3, <2>4, <2>5, <2>6, <2>7, <2>8 DEF TypeOK
<1>6. SinkHeld
  BY <1>1, LogUplinkAssumption DEF SinkHeld
<1>7. RingKept
  BY <1>1, <1>2, <1>3 DEF RingKept, RingOf
<1>8. BatchKept
  BY <1>1 DEF BatchKept, Delay, NoBatch
<1>9. PacketIsWhole
  <2>1. ring["bin"] = <<>>
    BY <1>2 DEF Kinds
  <2> QED
    BY <1>3, <2>1 DEF PacketIsWhole
<1>10. ASSUME NEW k \in Kinds PROVE Balance(k)
  <2>1. Taken(k) = <<>>
    BY <1>1, NothingTaken
  <2>2. IdsOf(ring[k]) = <<>>
    <3>1. ring[k] \in Seq(Entries) /\ Len(ring[k]) = 0
      BY <1>2, <1>3
    <3>2. \A i \in 1 .. Len(ring[k]) : ring[k][i].data # <<>>
      BY <3>1
    <3>3. Len(IdsOf(ring[k])) = 0 /\ IdsOf(ring[k]) \in Seq(Nat)
      BY <3>1, <3>2, IdsOfType
    <3> QED
      BY <3>3, EmptySeq
  <2>3. Written(k) = <<>>
    BY <1>1 DEF Written, IdOf
  <2>4. StoredIds(k) = <<>>
    <3>1. <<>> \o <<>> = <<>>
      BY EmptySeq, ConcatEmptySeq
    <3> QED
      BY <1>2, <2>1, <2>2, <2>3, <3>1 DEF StoredIds
  <2>5. Told(k) = 0
    BY <1>1, <1>2 DEF Told, NoBatch
  <2>6. Uncounted(k) = {}
    BY <1>1 DEF Uncounted, Kinds
  <2>7. Cardinality(Uncounted(k)) = 0
    BY <2>6, FS_EmptySet
  <2>8. Ordered(StoredIds(k), logged[k])
    BY <1>3, <2>4 DEF Ordered
  <2> QED
    BY <1>2, <1>3, <2>4, <2>5, <2>7, <2>8 DEF Balance, LostOf
<1> QED
  BY <1>5, <1>6, <1>7, <1>8, <1>9, <1>10, Balances DEF IInv, Shapes

LEMMA UploadInv == IInv /\ Upload => IInv'
BY StartRoundInv, PublishOversizeInv, TakeDropsInv, ReceiveInv, FlushInv, CopyInv, FinishBatchInv
   DEF Upload

LEMMA LoggingInv == ASSUME IInv, NEW t \in Tasks, Logging(t) PROVE IInv'
<1>1. ASSUME NEW len \in PacketLens \cup {0}, SinkStart(t, len) PROVE IInv'
  BY <1>1, SinkStartInv
<1>2. ASSUME NEW len \in LineLens, TextVprintf(t, len) PROVE IInv'
  BY <1>2, TextVprintfInv
<1>3. CASE Callbacks(t)
  BY <1>3, SinkCountDropInv, SinkPayloadInv, SinkEndInv, TextCountDropInv DEF Callbacks
<1> QED
  BY <1>1, <1>2, <1>3 DEF Logging

LEMMA NextInv == IInv /\ [Next]_vars => IInv'
<1> SUFFICES ASSUME IInv, [Next]_vars PROVE IInv'
  OBVIOUS
<1>1. binEnabled \in BOOLEAN /\ connected \in BOOLEAN
  BY Zenon DEF IInv, Shapes, TypeOK
<1>2. CASE SetBinEnabled
  <2>1. binEnabled' \in BOOLEAN /\ connected' \in BOOLEAN
    BY <1>1, <1>2, Zenon DEF SetBinEnabled
  <2> QED
    BY <1>2, <2>1, NothingLogged DEF SetBinEnabled
<1>3. CASE Connection
  <2>1. binEnabled' \in BOOLEAN /\ connected' \in BOOLEAN
    BY <1>1, <1>3, Zenon DEF Connection
  <2> QED
    BY <1>3, <2>1, NothingLogged DEF Connection
<1>4. CASE UNCHANGED vars
  <2>1. binEnabled' \in BOOLEAN /\ connected' \in BOOLEAN
    BY <1>1, <1>4, Zenon DEF vars
  <2> QED
    BY <1>4, <2>1, NothingLogged DEF vars, uploadVars, results
<1> QED
  BY <1>2, <1>3, <1>4, UploadInv, LoggingInv DEF Next

THEOREM Inductive == Spec => []IInv
<1>1. Init => IInv
  BY InitInv
<1>2. IInv /\ [Next]_vars => IInv'
  BY NextInv
<1> QED
  BY <1>1, <1>2, PTL DEF Spec

(* No ring and no batch is ever overrun, the TIME_SYNC packet that closes  *)
(* a "bin" batch included, and every variable keeps its type.              *)
THEOREM TypeCorrect == Spec => []TypeOK
<1>1. IInv => TypeOK
  BY DEF IInv, Shapes
<1> QED
  BY <1>1, Inductive, PTL

(* What sink_start() and text_vprintf() accept or refuse is accounted for, *)
(* once: the exchange(0) and the fetch_add() of a drop counter lose no     *)
(* drop between them, and no entry leaves a ring or the batch but in a     *)
(* publish.  All that is ever missing is what publish() failed to take.    *)
THEOREM OnlyFailedPublishesLose == Spec => []Accounted
<1>1. IInv => Accounted
  BY DEF IInv
<1> QED
  BY <1>1, Inductive, PTL

(* Packets and lines leave in the order they were logged, each once,       *)
(* although a full batch, the rest of a batch and an oversize packet take  *)
(* different ways out.                                                     *)
THEOREM EntriesLeaveInOrder == Spec => []InOrder
<1>1. IInv => InOrder
  BY DEF IInv, IdsOrdered, Ordered, InOrder
<1> QED
  BY <1>1, Inductive, PTL

(* Every packet that sink_end() hands to the ring is as long as it said    *)
(* and holds the bytes of one task only.                                   *)
THEOREM PacketsAreWhole == Spec => []PacketIsWhole
<1>1. IInv => PacketIsWhole
  BY DEF IInv
<1> QED
  BY <1>1, Inductive, PTL
================================================================================
