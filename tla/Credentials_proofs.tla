-------------------------- MODULE Credentials_proofs --------------------------
(***************************************************************************)
(* Proofs about module Credentials, for any number of enrollments: what    *)
(* NVS holds of an interrupted save is the beginning of it, what it holds  *)
(* of an interrupted erase is a part of what it held before.               *)
(***************************************************************************)
EXTENDS Credentials, SequenceTheorems, TLAPS

\* What NVS holds is not newer than the platform's last answer, which is what a save writes.
NoneIsNewer ==
    /\ \A k \in Keys : nvs[k] <= issued
    /\ pc = "save" => resp = issued /\ resp > 0

\* A save has written its first strings; the handle holds the following ones, up to the
\* next call.
SaveInOrder ==
    pc = "save" =>
        /\ Len(pending) < step
        /\ \A i \in 1..Len(pending) : pending[i] = <<KeyOrder[step - Len(pending) + i - 1], resp>>
        /\ \A i \in 1..3 : i < step - Len(pending) => nvs[KeyOrder[i]] = resp
        /\ step > 1 => ~erased

\* An erase removes keys only, and every key that is left is about to be removed.
EraseRemoves ==
    pc = "erase" =>
        /\ \A i \in 1..Len(pending) : pending[i][2] = 0
        /\ \A k \in Keys : nvs[k] # 0 => \E i \in 1..Len(pending) : pending[i][1] = k

\* A token is redeemed only for a device that needs it.
EnrollIsDue == pc = "enroll" => reEnroll \/ ~Enrolled

IInv ==
    /\ TypeOK /\ NoneIsNewer /\ SaveInOrder /\ EraseRemoves /\ EnrollIsDue
    /\ RunningIsDurable /\ MixIsOrdered /\ ErasedStaysErased

-----------------------------------------------------------------------------
LEMMA KeyFacts ==
    /\ \A i \in 1..3 : KeyOrder[i] \in Keys
    /\ \A i, j \in 1..3 : KeyOrder[i] = KeyOrder[j] => i = j
    /\ \A k \in Keys : \E i \in 1..3 : k = KeyOrder[i]
<1>1. /\ 1..3 = {1, 2, 3}
      /\ KeyOrder[1] = "dev_id" /\ KeyOrder[2] = "password" /\ KeyOrder[3] = "mqtt_url"
  BY DEF KeyOrder
<1> QED
  BY <1>1 DEF Keys

LEMMA AllFacts ==
    \A n : All(n) \in [Keys -> {n}] /\ \A k \in Keys : All(n)[k] = n
  BY DEF All

Item == Keys \X (0..MaxIssued)

\* What is left in the handle after NVS has written the oldest string.
LEMMA PendingTail ==
    ASSUME pending \in Seq(Item), pending # <<>>
    PROVE  /\ Len(pending) \in Nat \ {0} /\ Head(pending) = pending[1] /\ pending[1] \in Item
           /\ Tail(pending) \in Seq(Item) /\ Len(Tail(pending)) = Len(pending) - 1
           /\ \A i \in 1..(Len(pending) - 1) : Tail(pending)[i] = pending[i + 1]
<1>1. Len(pending) \in Nat \ {0}
  BY EmptySeq
<1>2. /\ Head(pending) \in Item /\ Tail(pending) \in Seq(Item)
      /\ Len(Tail(pending)) = Len(pending) - 1
      /\ \A i \in 1..Len(Tail(pending)) : Tail(pending)[i] = pending[i + 1]
  BY HeadTailProperties
<1>3. Head(pending) = pending[1]
  OBVIOUS
<1> QED
  BY <1>1, <1>2, <1>3

LEMMA NoPending == <<>> \in Seq(Item) /\ Len(<<>>) = 0
  BY EmptySeq

LEMMA InitInv == Init => IInv
<1> SUFFICES ASSUME Init PROVE IInv
  OBVIOUS
<1>1. nvs = All(0) /\ identity = All(0) /\ pending = <<>> /\ pc = "boot" /\ issued = 0 /\ erased = FALSE
  BY DEF Init
<1>2. 0 \in 0..MaxIssued
  BY MaxIssuedAssumption
<1>3. nvs \in [Keys -> 0..MaxIssued] /\ \A k \in Keys : nvs[k] = 0
  BY <1>1, <1>2, AllFacts
<1>4. TypeOK
  <2>1. pending \in Seq(Keys \X (0..MaxIssued))
    BY <1>1, NoPending DEF Item
  <2>2. identity \in [Keys -> 0..MaxIssued]
    BY <1>1, <1>3
  <2>3. step \in 1..4 /\ resp \in 0..MaxIssued /\ issued \in 0..MaxIssued
    BY <1>2 DEF Init
  <2> QED
    BY <1>1, <1>3, <2>1, <2>2, <2>3 DEF Init, TypeOK
<1>5. MixIsOrdered
  BY <1>3, KeyFacts DEF MixIsOrdered
<1> QED
  BY <1>1, <1>3, <1>4, <1>5 DEF IInv, NoneIsNewer, SaveInOrder, EraseRemoves, EnrollIsDue,
     RunningIsDurable, ErasedStaysErased

\* A step that leaves NVS alone and is in no save or erase afterwards.
LEMMA QuietStep ==
    ASSUME IInv, TypeOK', UNCHANGED nvs, issued <= issued', pc' \notin {"save", "erase"},
           EnrollIsDue', RunningIsDurable', ErasedStaysErased'
    PROVE  IInv'
<1>1. NoneIsNewer'
  BY DEF IInv, TypeOK, NoneIsNewer
<1>2. MixIsOrdered'
  BY DEF IInv, MixIsOrdered
<1> QED
  BY <1>1, <1>2 DEF IInv, SaveInOrder, EraseRemoves

LEMMA ZeroIdentity == All(0) \in [Keys -> 0..MaxIssued]
<1>1. 0 \in 0..MaxIssued
  BY MaxIssuedAssumption
<1> QED
  BY <1>1 DEF All

LEMMA ConfigureInv == IInv /\ Configure => IInv'
<1> SUFFICES ASSUME IInv, Configure PROVE IInv'
  OBVIOUS
<1>1. TypeOK' /\ issued <= issued'
  BY DEF IInv, TypeOK, Configure
<1> QED
  BY <1>1, QuietStep DEF IInv, Configure, EnrollIsDue, RunningIsDurable, ErasedStaysErased

LEMMA LoadInv == IInv /\ LoadIdentity => IInv'
<1> SUFFICES ASSUME IInv, LoadIdentity PROVE IInv'
  OBVIOUS
<1> PICK result \in {"ok", "not_found", "error"} :
        /\ result = "ok" => Enrolled
        /\ result = "not_found" => ~Enrolled
        /\ identity' = IF result = "ok" THEN nvs ELSE All(0)
        /\ pc' = CASE MayEnroll(result) -> "enroll"
                   [] ~MayEnroll(result) /\ result = "ok" -> "running"
                   [] OTHER -> "failed"
  BY DEF LoadIdentity
<1>1. /\ UNCHANGED <<nvs, pending, step, caller, resp, token, reEnroll, issued, erased>>
      /\ pc \in {"boot", "failed"} /\ pending = <<>>
  BY DEF IInv, TypeOK, LoadIdentity, config
<1>2. /\ pc' \in {"enroll", "running", "failed"}
      /\ pc' = "enroll" => MayEnroll(result)
      /\ pc' = "running" => result = "ok"
  OBVIOUS
<1>3. identity' \in [Keys -> 0..MaxIssued]
  BY ZeroIdentity DEF IInv, TypeOK
<1>4. TypeOK' /\ issued <= issued'
  BY <1>1, <1>2, <1>3 DEF IInv, TypeOK
<1>5. EnrollIsDue'
  BY <1>1, <1>2 DEF EnrollIsDue, MayEnroll, Enrolled
<1>6. RunningIsDurable'
  BY <1>1, <1>2 DEF RunningIsDurable
<1>7. ErasedStaysErased'
  BY <1>1 DEF IInv, ErasedStaysErased
<1> QED
  BY <1>1, <1>2, <1>4, <1>5, <1>6, <1>7, QuietStep

LEMMA EnrollInv == IInv /\ (Redeem \/ RedeemUnheard \/ EnrollFails) => IInv'
<1> SUFFICES ASSUME IInv, Redeem \/ RedeemUnheard \/ EnrollFails PROVE IInv'
  OBVIOUS
<1>1. CASE Redeem
  <2>1. /\ UNCHANGED <<nvs, pending, identity, caller, reEnroll, erased>>
        /\ issued' = issued + 1 /\ issued' \in 1..MaxIssued /\ resp' = issued'
        /\ token' = "spent" /\ step' = 1 /\ pc' = "save" /\ pending = <<>>
    BY <1>1, MaxIssuedAssumption DEF IInv, TypeOK, Redeem
  <2>2. TypeOK'
    BY <2>1 DEF IInv, TypeOK
  <2>3. NoneIsNewer'
    BY <2>1 DEF IInv, TypeOK, NoneIsNewer
  <2>4. SaveInOrder'
    BY <2>1, NoPending DEF SaveInOrder
  <2>5. MixIsOrdered' /\ ErasedStaysErased'
    BY <2>1 DEF IInv, MixIsOrdered, ErasedStaysErased
  <2> QED
    BY <2>1, <2>2, <2>3, <2>4, <2>5 DEF IInv, EraseRemoves, EnrollIsDue, RunningIsDurable
<1>2. CASE RedeemUnheard \/ EnrollFails
  <2>1. TypeOK' /\ issued <= issued'
    BY <1>2, MaxIssuedAssumption DEF IInv, TypeOK, RedeemUnheard, EnrollFails, config
  <2> QED
    BY <1>2, <2>1, QuietStep
       DEF IInv, RedeemUnheard, EnrollFails, EnrollIsDue, RunningIsDurable, ErasedStaysErased
<1> QED
  BY <1>1, <1>2
-----------------------------------------------------------------------------
\* The next string goes behind those the handle holds.
LEMMA SaveSetInv == IInv /\ SaveSet => IInv'
<1> SUFFICES ASSUME IInv, SaveSet PROVE IInv'
  OBVIOUS
<1>1. /\ UNCHANGED <<nvs, identity, pc, caller, resp, token, reEnroll, issued>>
      /\ pc = "save" /\ step \in 1..3 /\ step' = step + 1 /\ erased' = FALSE
      /\ pending' = Append(pending, <<KeyOrder[step], resp>>)
  BY DEF SaveSet, config
<1>2. pending \in Seq(Item) /\ <<KeyOrder[step], resp>> \in Item
  BY <1>1, KeyFacts DEF IInv, TypeOK, Item
<1>3. /\ pending' \in Seq(Item) /\ Len(pending') = Len(pending) + 1 /\ Len(pending) \in Nat
      /\ \A i \in 1..Len(pending) : pending'[i] = pending[i]
      /\ pending'[Len(pending) + 1] = <<KeyOrder[step], resp>>
  BY <1>1, <1>2, AppendProperties, LenProperties
<1>4. TypeOK'
  <2>1. pending' \in Seq(Keys \X (0..MaxIssued))
    BY <1>3 DEF Item
  <2>2. step' \in 1..4
    BY <1>1
  <2>3. erased' \in BOOLEAN
    BY <1>1, Zenon
  <2> QED
    BY <1>1, <2>1, <2>2, <2>3 DEF IInv, TypeOK
<1>5. SaveInOrder'
  <2>1. ASSUME NEW i \in 1..Len(pending')
        PROVE  pending'[i] = <<KeyOrder[step' - Len(pending') + i - 1], resp'>>
    <3>1. CASE i \in 1..Len(pending)
      <4>1. pending[i] = <<KeyOrder[step - Len(pending) + i - 1], resp>>
        BY <1>1, <3>1 DEF IInv, SaveInOrder
      <4>2. step' - Len(pending') + i - 1 = step - Len(pending) + i - 1
        BY <1>1, <1>3
      <4> QED
        BY <1>1, <1>3, <3>1, <4>1, <4>2
    <3>2. CASE i = Len(pending) + 1
      <4>1. step' - Len(pending') + i - 1 = step
        BY <1>1, <1>3, <3>2
      <4> QED
        BY <1>1, <1>3, <3>2, <4>1
    <3> QED
      BY <1>3, <3>1, <3>2
  <2>2. step' - Len(pending') = step - Len(pending) /\ Len(pending') < step'
    BY <1>1, <1>3 DEF IInv, SaveInOrder
  <2> QED
    BY <1>1, <2>1, <2>2 DEF IInv, SaveInOrder
<1> QED
  BY <1>1, <1>4, <1>5 DEF IInv, NoneIsNewer, EraseRemoves, EnrollIsDue, RunningIsDurable,
     MixIsOrdered, ErasedStaysErased

\* When the handle is empty after the last string, NVS holds the whole identity.
LEMMA SaveCommittedInv == IInv /\ SaveCommitted => IInv'
<1> SUFFICES ASSUME IInv, SaveCommitted PROVE IInv'
  OBVIOUS
<1>1. /\ UNCHANGED <<nvs, pending, caller, token, reEnroll, issued, erased>>
      /\ pc = "save" /\ step = 4 /\ pending = <<>>
      /\ identity' = All(resp) /\ pc' = "running" /\ step' = 1 /\ resp' = 0
  BY DEF SaveCommitted, config
<1>2. nvs = All(resp)
  <2>1. \A k \in Keys : nvs[k] = resp
    <3>1. \A i \in 1..3 : nvs[KeyOrder[i]] = resp
      BY <1>1, NoPending DEF IInv, SaveInOrder
    <3> QED
      BY <3>1, KeyFacts
  <2> QED
    BY <2>1 DEF IInv, TypeOK, All
<1>3. TypeOK'
  <2>1. resp' \in 0..MaxIssued
    BY <1>1, MaxIssuedAssumption
  <2> QED
    BY <1>1, <1>2, <2>1 DEF IInv, TypeOK
<1>4. RunningIsDurable' /\ ErasedStaysErased' /\ issued <= issued'
  BY <1>1, <1>2 DEF IInv, TypeOK, RunningIsDurable, SaveInOrder, ErasedStaysErased
<1> QED
  BY <1>1, <1>3, <1>4, QuietStep DEF EnrollIsDue

\* A failed save or erase, a committed erase and a loss of power drop what the handle holds.
LEMMA SaveFailsInv == IInv /\ SaveFails => IInv'
<1> SUFFICES ASSUME IInv, SaveFails PROVE IInv'
  OBVIOUS
<1>1. 0 \in 0..MaxIssued /\ <<>> \in Seq(Keys \X (0..MaxIssued))
  BY MaxIssuedAssumption, NoPending DEF Item
<1>2. TypeOK' /\ issued <= issued'
  BY <1>1 DEF IInv, TypeOK, SaveFails, config
<1> QED
  BY <1>2, QuietStep DEF IInv, SaveFails, EnrollIsDue, RunningIsDurable, ErasedStaysErased

LEMMA EraseEndsInv == IInv /\ (EraseCommitted \/ EraseFails) => IInv'
<1> SUFFICES ASSUME IInv, EraseCommitted \/ EraseFails PROVE IInv'
  OBVIOUS
<1>1. /\ UNCHANGED <<nvs, step, caller, resp, token, reEnroll, issued>>
      /\ pc = "erase" /\ pc' = caller /\ pending' = <<>> /\ identity' = All(0)
      /\ erased' = erased \/ (pending = <<>> /\ erased' = TRUE)
  BY DEF EraseCommitted, EraseFails, config
<1>2. <<>> \in Seq(Keys \X (0..MaxIssued))
  BY NoPending DEF Item
<1>3. TypeOK' /\ issued <= issued' /\ pc' \in {"boot", "running", "failed"}
  <2>1. erased' \in BOOLEAN
    BY <1>1, Zenon DEF IInv, TypeOK
  <2> QED
    BY <1>1, <1>2, <2>1, ZeroIdentity DEF IInv, TypeOK
<1>4. pending = <<>> => nvs = All(0)
  <2>1. pending = <<>> => \A k \in Keys : nvs[k] = 0
    BY <1>1, NoPending DEF IInv, EraseRemoves
  <2> QED
    BY <2>1 DEF IInv, TypeOK, All
<1>5. ErasedStaysErased'
  BY <1>1, <1>4 DEF IInv, ErasedStaysErased
<1> QED
  BY <1>1, <1>3, <1>5, QuietStep DEF EnrollIsDue, RunningIsDurable

LEMMA PowerLossInv == IInv /\ PowerLoss => IInv'
<1> SUFFICES ASSUME IInv, PowerLoss PROVE IInv'
  OBVIOUS
<1>1. 0 \in 0..MaxIssued /\ <<>> \in Seq(Keys \X (0..MaxIssued))
  BY MaxIssuedAssumption, NoPending DEF Item
<1>2. TypeOK' /\ issued <= issued'
  BY <1>1, ZeroIdentity DEF IInv, TypeOK, PowerLoss, config
<1> QED
  BY <1>2, QuietStep DEF IInv, PowerLoss, EnrollIsDue, RunningIsDurable, ErasedStaysErased

\* nvs_erase_all() has a removal for every key.
LEMMA EraseAllInv == IInv /\ EraseAll => IInv'
<1> SUFFICES ASSUME IInv, EraseAll PROVE IInv'
  OBVIOUS
<1> PICK a, b, c \in Keys :
        /\ a # b /\ b # c /\ a # c
        /\ pending' = <<<<a, 0>>, <<b, 0>>, <<c, 0>>>>
  BY DEF EraseAll
<1>1. /\ UNCHANGED <<nvs, identity, step, resp, token, reEnroll, issued, erased>>
      /\ pc \in {"boot", "failed", "running"} /\ caller' = pc /\ pc' = "erase"
  BY DEF EraseAll, config
<1>2. /\ Len(pending') = 3 /\ pending' \in Seq(Item)
      /\ pending'[1] = <<a, 0>> /\ pending'[2] = <<b, 0>> /\ pending'[3] = <<c, 0>>
  <2>1. 0 \in 0..MaxIssued
    BY MaxIssuedAssumption
  <2> QED
    BY <2>1 DEF Item
<1>3. TypeOK'
  BY <1>1, <1>2 DEF IInv, TypeOK, Item
<1>4. EraseRemoves'
  <2>1. \A k \in Keys : k = a \/ k = b \/ k = c
    BY DEF Keys, KeyOrder
  <2> QED
    BY <1>2, <2>1 DEF EraseRemoves
<1> QED
  BY <1>1, <1>3, <1>4 DEF IInv, NoneIsNewer, SaveInOrder, EnrollIsDue, RunningIsDurable,
     MixIsOrdered, ErasedStaysErased
-----------------------------------------------------------------------------
\* NVS writes the oldest string: in a save the one after those it has written, which
\* cannot be older than any other; in an erase it only removes.
LEMMA WriteInv == IInv /\ Write => IInv'
<1> SUFFICES ASSUME IInv, Write PROVE IInv'
  OBVIOUS
<1> DEFINE key == pending[1][1]
           value == pending[1][2]
<1>1. /\ UNCHANGED <<identity, pc, step, caller, resp, token, reEnroll, issued, erased>>
      /\ pending # <<>> /\ pending \in Seq(Item) /\ pc \in {"save", "erase"}
      /\ pending' = Tail(pending) /\ nvs' = [nvs EXCEPT ![Head(pending)[1]] = Head(pending)[2]]
  BY DEF IInv, TypeOK, Write, config, Item
<1>2. /\ Len(pending) \in Nat \ {0} /\ key \in Keys /\ value \in 0..MaxIssued
      /\ nvs' = [nvs EXCEPT ![key] = value]
      /\ pending' \in Seq(Item) /\ Len(pending') = Len(pending) - 1
      /\ \A i \in 1..Len(pending') : pending'[i] = pending[i + 1]
  BY <1>1, PendingTail DEF Item
<1> HIDE DEF key, value
<1>3. nvs \in [Keys -> 0..MaxIssued]
  BY DEF IInv, TypeOK
<1>4. TypeOK'
  <2>1. pending' \in Seq(Keys \X (0..MaxIssued))
    BY <1>2 DEF Item
  <2>2. nvs' \in [Keys -> 0..MaxIssued]
    BY <1>2, <1>3
  <2> QED
    BY <1>1, <2>1, <2>2 DEF IInv, TypeOK
<1>5. CASE pc = "save"
  <2> DEFINE at == step - Len(pending)
  <2>1. at \in 1..3 /\ key = KeyOrder[at] /\ value = resp /\ ~erased
    <3>1. at \in 1..3 /\ step > 1
      <4>1. step \in 1..4 /\ Len(pending) < step
        BY <1>5 DEF IInv, TypeOK, SaveInOrder
      <4> QED
        BY <1>2, <4>1
    <3>2. pending[1] = <<KeyOrder[at + 1 - 1], resp>>
      BY <1>2, <1>5 DEF IInv, SaveInOrder
    <3> QED
      BY <1>5, <3>1, <3>2 DEF IInv, SaveInOrder, key, value
  <2>2. /\ resp = issued /\ issued \in Nat \ {0}
        /\ \A k \in Keys : nvs[k] <= issued /\ nvs[k] \in Nat
        /\ nvs'[key] = resp /\ \A k \in Keys : k # key => nvs'[k] = nvs[k]
    <3>1. resp = issued /\ issued \in Nat \ {0}
      BY <1>5 DEF IInv, TypeOK, NoneIsNewer
    <3>2. \A k \in Keys : nvs[k] <= issued /\ nvs[k] \in Nat
      BY <1>3 DEF IInv, NoneIsNewer
    <3>3. nvs'[key] = resp /\ \A k \in Keys : k # key => nvs'[k] = nvs[k]
      BY <1>2, <1>3, <2>1
    <3> QED
      BY <3>1, <3>2, <3>3
  <2>3. NoneIsNewer'
    BY <1>1, <2>2 DEF NoneIsNewer
  <2>4. \A i \in 1..3 : i < at => nvs[KeyOrder[i]] = resp
    BY <1>5 DEF IInv, SaveInOrder
  <2>5. \A i \in 1..3 : i <= at => nvs'[KeyOrder[i]] = resp
    BY <2>1, <2>2, <2>4, KeyFacts
  <2>6. SaveInOrder'
    <3>1. step' - Len(pending') = at + 1 /\ Len(pending') < step'
      BY <1>1, <1>2, <1>5 DEF IInv, TypeOK, SaveInOrder
    <3>2. ASSUME NEW i \in 1..Len(pending')
          PROVE  pending'[i] = <<KeyOrder[step' - Len(pending') + i - 1], resp'>>
      <4>1. i + 1 \in 1..Len(pending)
        BY <1>2
      <4>2. pending[i + 1] = <<KeyOrder[at + (i + 1) - 1], resp>>
        BY <1>5, <4>1 DEF IInv, SaveInOrder
      <4>3. at + (i + 1) - 1 = step' - Len(pending') + i - 1
        BY <2>1, <3>1
      <4> QED
        BY <1>1, <1>2, <4>2, <4>3
    <3>3. \A i \in 1..3 : i < step' - Len(pending') => nvs'[KeyOrder[i]] = resp'
      BY <1>1, <2>1, <2>5, <3>1
    <3> HIDE DEF at
    <3> QED
      BY <1>1, <2>1, <3>1, <3>2, <3>3 DEF SaveInOrder
  <2>7. MixIsOrdered'
    <3> SUFFICES ASSUME NEW i \in 1..3, NEW j \in 1..3, i < j,
                        nvs'[KeyOrder[i]] # 0, nvs'[KeyOrder[j]] # 0
                 PROVE  nvs'[KeyOrder[i]] >= nvs'[KeyOrder[j]]
      BY DEF MixIsOrdered
    <3>1. nvs'[KeyOrder[j]] <= resp /\ nvs'[KeyOrder[i]] \in Nat
      BY <2>2, KeyFacts
    <3>2. CASE i <= at
      BY <2>2, <2>5, <3>1, <3>2
    <3>3. CASE at < i
      <4>1. nvs'[KeyOrder[i]] = nvs[KeyOrder[i]] /\ nvs'[KeyOrder[j]] = nvs[KeyOrder[j]]
        BY <2>1, <2>2, <3>3, KeyFacts
      <4> QED
        BY <4>1 DEF IInv, MixIsOrdered
    <3> QED
      BY <2>1, <3>2, <3>3
  <2> QED
    BY <1>1, <1>4, <1>5, <2>1, <2>3, <2>6, <2>7 DEF IInv, EraseRemoves, EnrollIsDue,
       RunningIsDurable, ErasedStaysErased
<1>6. CASE pc = "erase"
  <2>1. value = 0
    BY <1>2, <1>6 DEF IInv, EraseRemoves, value
  <2>2. nvs'[key] = 0 /\ \A k \in Keys : k # key => nvs'[k] = nvs[k]
    BY <1>2, <1>3, <2>1
  <2>3. NoneIsNewer'
    BY <1>1, <1>6, <2>2 DEF IInv, TypeOK, NoneIsNewer
  <2>4. MixIsOrdered'
    BY <2>2, KeyFacts DEF IInv, MixIsOrdered
  <2>5. EraseRemoves'
    <3>1. \A i \in 1..Len(pending') : pending'[i][2] = 0
      BY <1>2, <1>6 DEF IInv, EraseRemoves
    <3>2. ASSUME NEW k \in Keys, nvs'[k] # 0
          PROVE  \E i \in 1..Len(pending') : pending'[i][1] = k
      <4>1. PICK i \in 1..Len(pending) : pending[i][1] = k
        BY <1>6, <2>2, <3>2 DEF IInv, EraseRemoves
      <4>2. i # 1
        BY <2>2, <3>2, <4>1 DEF key
      <4>3. i - 1 \in 1..Len(pending') /\ pending'[i - 1] = pending[i]
        BY <1>2, <4>2
      <4> QED
        BY <4>1, <4>3
    <3> QED
      BY <3>1, <3>2 DEF EraseRemoves
  <2>6. ErasedStaysErased'
    <3>1. erased => \A k \in Keys : nvs'[k] = 0
      BY <2>2, AllFacts DEF IInv, ErasedStaysErased
    <3>2. erased => nvs' = All(0)
      BY <1>4, <3>1 DEF TypeOK, All
    <3> QED
      BY <1>1, <3>2 DEF IInv, ErasedStaysErased
  <2> QED
    BY <1>1, <1>4, <1>6, <2>3, <2>4, <2>5, <2>6 DEF IInv, SaveInOrder, EnrollIsDue,
       RunningIsDurable
<1> QED
  BY <1>1, <1>5, <1>6
-----------------------------------------------------------------------------
LEMMA NextInv == IInv /\ [Next]_vars => IInv'
<1> SUFFICES ASSUME IInv, [Next]_vars PROVE IInv'
  OBVIOUS
<1>1. CASE UNCHANGED vars
  BY <1>1 DEF vars, IInv, TypeOK, NoneIsNewer, SaveInOrder, EraseRemoves, EnrollIsDue, Enrolled,
     RunningIsDurable, MixIsOrdered, ErasedStaysErased
<1> QED
  BY <1>1, ConfigureInv, LoadInv, EnrollInv, SaveSetInv, SaveCommittedInv, SaveFailsInv, WriteInv,
     EraseAllInv, EraseEndsInv, PowerLossInv DEF Next

THEOREM Inductive == Spec => []IInv
  BY InitInv, NextInv, PTL DEF Spec

\* The state of the credentials is well-formed; NVS holds unwritten strings in a save or an
\* erase only.
THEOREM TypeCorrect == Spec => []TypeOK
  BY Inductive, PTL DEF IInv

\* A client that init() has reported ready uses what a restart will load.
THEOREM RunsOnWhatIsStored == Spec => []RunningIsDurable
  BY Inductive, PTL DEF IInv

\* However saves and erases are interrupted, a mixture pairs a newer device ID with older
\* strings, never the other way round.
THEOREM MixturesAreOrdered == Spec => []MixIsOrdered
  BY Inductive, PTL DEF IInv

\* After an erase that reported success no restart brings an identity back.
THEOREM EraseIsFinal == Spec => []ErasedStaysErased
  BY Inductive, PTL DEF IInv

LEMMA StepKeepsIdentity ==
    IInv /\ [Next]_vars =>
        /\ Enrolled => Enrolled' \/ pc = "erase"
        /\ issued' # issued => reEnroll \/ ~Enrolled
<1> SUFFICES ASSUME IInv, [Next]_vars
             PROVE  /\ Enrolled => Enrolled' \/ pc = "erase"
                    /\ issued' # issued => reEnroll \/ ~Enrolled
  OBVIOUS
<1>1. CASE Write
  <2>1. /\ UNCHANGED issued /\ pending # <<>> /\ pending \in Seq(Item)
        /\ nvs' = [nvs EXCEPT ![Head(pending)[1]] = Head(pending)[2]]
        /\ nvs \in [Keys -> 0..MaxIssued] /\ pc \in {"save", "erase"}
    BY <1>1 DEF IInv, TypeOK, Write, Item
  <2>2. pc = "save" => Head(pending)[2] # 0
    <3>1. Head(pending) = pending[1] /\ 1 \in 1..Len(pending)
      BY <2>1, PendingTail
    <3> QED
      BY <3>1 DEF IInv, TypeOK, NoneIsNewer, SaveInOrder
  <2> QED
    BY <2>1, <2>2 DEF Enrolled
<1>2. CASE Redeem \/ RedeemUnheard
  BY <1>2 DEF IInv, EnrollIsDue, Redeem, RedeemUnheard, Enrolled
<1>3. UNCHANGED <<nvs, issued>> => Enrolled' = Enrolled
  BY DEF Enrolled
<1>4. CASE ~(Write \/ Redeem \/ RedeemUnheard)
  <2>1. UNCHANGED <<nvs, issued>>
    BY <1>4 DEF Next, vars, Configure, LoadIdentity, EnrollFails, SaveSet, SaveCommitted, SaveFails,
       EraseAll, EraseCommitted, EraseFails, PowerLoss
  <2> QED
    BY <1>3, <2>1
<1> QED
  BY <1>1, <1>2, <1>4

\* Only an erase takes an identity away from an enrolled device, and a token is spent on one
\* only when re_enroll says so.
THEOREM EnrolledUntilErased == Spec => IdentityKept
  BY Inductive, StepKeepsIdentity, PTL DEF Spec, IdentityKept
=============================================================================
