------------------------------- MODULE Ota_proofs -------------------------------
(***************************************************************************)
(* Proofs about Ota, for any updates, sizes, buffers and bounds: the type  *)
(* of its variables, that a resumed download keeps every byte in its place,*)
(* that nothing unverified becomes the boot image, and that one update     *)
(* runs at a time.                                                         *)
(***************************************************************************)
EXTENDS Ota, SequenceTheorems, TLAPS

(* The flash and the hash see the same bytes; a response that is being     *)
(* read continues where the flash ends; past Verify the hash was right.    *)
StreamOK ==
  /\ flash = hashed
  /\ pc = "read" => stream = Len(flash) + 1
  /\ pc = "finish" => hashed = Image(params)

TaskOK ==
  /\ running <=> pc # "none"
  /\ running => params \in Updates
  /\ pc \in {"attempt", "connect", "read", "failed"} => attempts < MaxAttempts

IInv == TypeOK /\ StreamOK /\ ResumesInPlace /\ BootVerified /\ TaskOK

(* The bytes of one read. *)
Bytes(n, right) == [i \in 1 .. n |-> IF right THEN stream + i - 1 ELSE 0]

LEMMA BytesType ==
  ASSUME stream \in Nat, NEW n \in Nat, NEW right \in BOOLEAN
  PROVE  Bytes(n, right) \in Seq(Byte) /\ Len(Bytes(n, right)) = n
<1>1. \A i \in 1 .. n : (IF right THEN stream + i - 1 ELSE 0) \in Byte
  BY DEF Byte
<1>2. Bytes(n, right) \in [1 .. n -> Byte]
  BY <1>1 DEF Bytes
<1>3. Bytes(n, right) \in Seq(Byte)
  BY <1>2, SeqDef
<1> QED
  BY <1>2, <1>3, LenProperties

LEMMA InitInductive == Init => IInv
<1> SUFFICES ASSUME Init PROVE IInv
  OBVIOUS
<1> USE DEF Init
<1>1. /\ flash \in Seq(Byte) /\ hashed \in Seq(Byte)
      /\ boot \in [update: Update, bytes: Seq(Byte)]
  BY EmptySeq DEF OldImage, Update
<1>2. /\ attempts \in 0 .. MaxAttempts /\ starts \in 0 .. MaxStarts
      /\ params \in Update
  BY LimitsAssumption DEF Update
<1>3. TypeOK
  BY <1>1, <1>2 DEF TypeOK
<1>4. StreamOK /\ BootVerified /\ TaskOK
  BY DEF StreamOK, BootVerified, TaskOK
<1>5. ResumesInPlace
  BY EmptySeq DEF ResumesInPlace
<1> QED
  BY <1>3, <1>4, <1>5 DEF IInv

LEMMA StartStep ==
  ASSUME IInv, NEW u \in Updates, Start(u)
  PROVE  IInv'
<1> USE DEF IInv, Start, downloadVars
<1>1. pc = "none"
  BY DEF TaskOK
<1>2. starts' \in 0 .. MaxStarts
  BY LimitsAssumption DEF TypeOK
<1>3. TypeOK'
  BY <1>2 DEF TypeOK, Update
<1>4. StreamOK' /\ TaskOK'
  BY <1>1 DEF StreamOK, TaskOK
<1>5. ResumesInPlace' /\ BootVerified'
  BY <1>1 DEF ResumesInPlace, BootVerified, Image
<1> QED
  BY <1>3, <1>4, <1>5

LEMMA CancelStep ==
  ASSUME IInv, Cancel
  PROVE  IInv'
BY DEF IInv, TypeOK, StreamOK, ResumesInPlace, BootVerified, TaskOK, Cancel, downloadVars, Image

LEMMA BeginStep ==
  ASSUME IInv, Begin
  PROVE  IInv'
<1> USE DEF IInv, Begin
<1>1. flash' \in Seq(Byte) /\ hashed' \in Seq(Byte)
  BY EmptySeq DEF TypeOK
<1>2. offset' \in Nat /\ attempts' \in 0 .. MaxAttempts
  BY LimitsAssumption DEF TypeOK
<1>3. TypeOK'
  BY <1>1, <1>2 DEF TypeOK
<1>4. StreamOK' /\ TaskOK' /\ BootVerified'
  BY LimitsAssumption DEF StreamOK, TaskOK, BootVerified, Image
<1>5. ResumesInPlace'
  BY EmptySeq DEF ResumesInPlace
<1> QED
  BY <1>3, <1>4, <1>5

LEMMA AttemptStep ==
  ASSUME IInv, Attempt
  PROVE  IInv'
BY DEF IInv, TypeOK, StreamOK, ResumesInPlace, BootVerified, TaskOK, Attempt, downloadVars, Image

(* A 200 answers a request from byte 0, a 206 one from offset: the         *)
(* response starts where the flash ends.                                   *)
LEMMA ConnectStep ==
  ASSUME IInv, Connect
  PROVE  IInv'
<1> USE UpdatesAssumption DEF IInv, Connect
<1>1. PICK status \in {0, 200, 206, 400} :
         /\ status = 206 => offset > 0
         /\ pc' = IF StatusOk(status) THEN "read" ELSE IF status = 400 THEN "end" ELSE "failed"
         /\ stream' = IF status = 206 THEN offset + 1 ELSE 1
  OBVIOUS
<1>2. StatusOk(status) => stream' = offset + 1
  BY <1>1 DEF StatusOk, TypeOK
<1>3. TypeOK' /\ TaskOK' /\ BootVerified'
  BY <1>1 DEF TypeOK, TaskOK, BootVerified, Image
<1>4. Len(flash) = offset /\ offset \in Nat
  BY DEF ResumesInPlace, TypeOK
<1>5. ResumesInPlace'
  BY <1>1, <1>4 DEF ResumesInPlace, TypeOK
<1>6. flash' = hashed' /\ pc' # "finish"
  BY <1>1 DEF StreamOK
<1>7. pc' = "read" => stream' = Len(flash') + 1
  BY <1>1, <1>2, <1>4 DEF TypeOK
<1> QED
  BY <1>3, <1>5, <1>6, <1>7 DEF StreamOK

Extended(n, right) ==
  /\ flash' = flash \o Bytes(n, right) /\ hashed' = hashed \o Bytes(n, right)
  /\ total_read' = total_read + n
  /\ stream' = stream + n
  /\ UNCHANGED pc

LEMMA ReadStep ==
  ASSUME IInv, Read
  PROVE  IInv'
<1> USE DEF IInv
<1>0. /\ pc = "read" /\ Wanted > 0
      /\ UNCHANGED <<running, params, cancel_requested, offset, attempts, boot, starts>>
  BY DEF Read
<1>1. /\ params \in Updates /\ Wanted \in Int
      /\ stream \in Nat /\ total_read \in Nat /\ offset \in Nat
  BY <1>0, UpdatesAssumption, LimitsAssumption DEF TaskOK, TypeOK, Wanted, Lesser
<1>2. CASE pc' = "end" /\ UNCHANGED <<flash, hashed, total_read, stream>>
  BY <1>0, <1>2 DEF TypeOK, StreamOK, TaskOK, ResumesInPlace, BootVerified, Image
<1>3. ASSUME NEW n \in 1 .. Wanted, NEW right \in BOOLEAN, Extended(n, right)
      PROVE  IInv'
  <2> DEFINE b == Bytes(n, right)
  <2>1. n \in Nat \ {0}
    BY <1>1
  <2>2. b \in Seq(Byte) /\ Len(b) = n
    BY <1>1, <2>1, BytesType
  <2>3. flash \in Seq(Byte) /\ hashed \in Seq(Byte)
    BY DEF TypeOK
  <2>4. /\ flash' \in Seq(Byte) /\ hashed' \in Seq(Byte)
        /\ Len(flash') = Len(flash) + n
        /\ \A i \in 1 .. Len(flash') :
             flash'[i] = IF i <= Len(flash) THEN flash[i] ELSE b[i - Len(flash)]
    <3>1. flash' = flash \o b /\ hashed' = hashed \o b
      BY <1>3 DEF Extended
    <3> HIDE DEF b
    <3>2. flash \o b \in Seq(Byte) /\ hashed \o b \in Seq(Byte)
      BY <2>2, <2>3, ConcatProperties
    <3>3. Len(flash \o b) = Len(flash) + n
      BY <2>2, <2>3, ConcatProperties
    <3>4. \A i \in 1 .. Len(flash) + n :
            (flash \o b)[i] = IF i <= Len(flash) THEN flash[i] ELSE b[i - Len(flash)]
      BY <2>2, <2>3, ConcatProperties
    <3> QED
      BY <3>1, <3>2, <3>3, <3>4
  <2>5. Len(flash) = offset + total_read /\ stream = Len(flash) + 1 /\ Len(flash) \in Nat
    BY <1>0, <1>1 DEF ResumesInPlace, StreamOK
  <2>6. \A i \in DOMAIN flash' : flash'[i] \in {0, i}
    <3>1. SUFFICES ASSUME NEW i \in 1 .. Len(flash')
                   PROVE  flash'[i] \in {0, i}
      BY <2>4, LenProperties
    <3>2. CASE i <= Len(flash)
      <4>1. i \in DOMAIN flash
        BY <2>3, <2>5, <3>1, <3>2, LenProperties
      <4>2. flash'[i] = flash[i]
        BY <2>4, <3>1, <3>2
      <4> QED
        BY <4>1, <4>2 DEF ResumesInPlace
    <3>3. CASE i > Len(flash)
      <4>1. i - Len(flash) \in 1 .. n
        BY <2>1, <2>4, <2>5, <3>1, <3>3
      <4>2. b[i - Len(flash)] \in {0, stream + (i - Len(flash)) - 1}
        BY <4>1 DEF Bytes
      <4>3. flash'[i] = b[i - Len(flash)]
        BY <2>4, <2>5, <3>3
      <4>4. stream + (i - Len(flash)) - 1 = i
        BY <2>5, <3>1, <2>4, <2>1
      <4> QED
        BY <4>2, <4>3, <4>4
    <3> QED
      BY <2>4, <2>5, <3>2, <3>3
  <2>7. TypeOK'
    BY <1>0, <1>1, <1>3, <2>1, <2>4 DEF TypeOK, Extended
  <2>8. StreamOK' /\ TaskOK' /\ BootVerified'
    BY <1>0, <1>3, <2>1, <2>4, <2>5 DEF StreamOK, TaskOK, BootVerified, Image, Extended
  <2>9. ResumesInPlace'
    BY <1>0, <1>1, <1>3, <2>1, <2>4, <2>5, <2>6 DEF ResumesInPlace, Extended
  <2> QED
    BY <2>7, <2>8, <2>9
<1>4. \/ pc' = "end" /\ UNCHANGED <<flash, hashed, total_read, stream>>
      \/ \E n \in 1 .. Wanted, right \in BOOLEAN : Extended(n, right)
  BY DEF Read, Extended, Bytes
<1> QED
  BY <1>2, <1>3, <1>4

LEMMA ReadEndsStep ==
  ASSUME IInv, ReadEnds
  PROVE  IInv'
BY LimitsAssumption
DEF IInv, TypeOK, StreamOK, ResumesInPlace, BootVerified, TaskOK, ReadEnds, Image

LEMMA RetryStep ==
  ASSUME IInv, Retry
  PROVE  IInv'
BY LimitsAssumption
DEF IInv, TypeOK, StreamOK, ResumesInPlace, BootVerified, TaskOK, Retry, Image

LEMMA VerifyStep ==
  ASSUME IInv, Verify
  PROVE  IInv'
BY DEF IInv, TypeOK, StreamOK, ResumesInPlace, BootVerified, TaskOK, Verify, downloadVars, Image

(* What Verify found right is what the flash holds. *)
LEMMA FinishStep ==
  ASSUME IInv, Finish
  PROVE  IInv'
<1> USE DEF IInv, Finish, downloadVars
<1>1. params \in Updates /\ flash = Image(params) /\ flash \in Seq(Byte)
  BY DEF TaskOK, StreamOK, TypeOK
<1>2. boot' = boot \/ boot' = [update |-> params, bytes |-> flash]
  OBVIOUS
<1>3. boot' \in [update: Update, bytes: Seq(Byte)]
  BY <1>1, <1>2 DEF TypeOK, Update
<1>4. BootVerified'
  <2>1. CASE boot' = boot
    BY <2>1 DEF BootVerified, Image
  <2>2. CASE boot' = [update |-> params, bytes |-> flash]
    BY <1>1, <2>2 DEF BootVerified, Image
  <2> QED
    BY <1>2, <2>1, <2>2
<1>5. TypeOK'
  BY <1>3 DEF TypeOK
<1>6. StreamOK' /\ TaskOK' /\ ResumesInPlace'
  BY DEF StreamOK, TaskOK, ResumesInPlace, Image
<1> QED
  BY <1>4, <1>5, <1>6

LEMMA RestartStep ==
  ASSUME IInv, Restart
  PROVE  IInv'
BY DEF IInv, TypeOK, StreamOK, ResumesInPlace, BootVerified, TaskOK, Restart, downloadVars, Image

LEMMA EndStep ==
  ASSUME IInv, End
  PROVE  IInv'
BY DEF IInv, TypeOK, StreamOK, ResumesInPlace, BootVerified, TaskOK, End, downloadVars, Image

LEMMA StutterStep ==
  ASSUME IInv, UNCHANGED vars
  PROVE  IInv'
BY DEF IInv, TypeOK, StreamOK, ResumesInPlace, BootVerified, TaskOK, vars, downloadVars, Image

(* Every step of the specification preserves the inductive invariant. *)
LEMMA NextInductive == IInv /\ [Next]_vars => IInv'
BY StartStep, CancelStep, BeginStep, AttemptStep, ConnectStep, ReadStep, ReadEndsStep,
   RetryStep, VerifyStep, FinishStep, RestartStep, EndStep, StutterStep
DEF Next, OtaTask, Download, RequestTask

(* The inductive invariant holds in every reachable state. *)
THEOREM Inductive == Spec => []IInv
<1> QED
  BY InitInductive, NextInductive, PTL DEF Spec

(* Every variable of Ota keeps its type. *)
THEOREM TypeCorrect == Spec => []TypeOK
<1>1. IInv => TypeOK
  BY DEF IInv
<1> QED
  BY <1>1, Inductive, PTL

(* Nothing but the whole, unaltered image the platform announced ever      *)
(* becomes the boot image, for any image, any server and any number of     *)
(* resumes.                                                                *)
THEOREM OnlyVerifiedBoots == Spec => []BootVerified
<1>1. IInv => BootVerified
  BY DEF IInv
<1> QED
  BY <1>1, Inductive, PTL

(* A resumed download puts every byte where an uninterrupted one would.    *)
THEOREM ResumeIsExact == Spec => []ResumesInPlace
<1>1. IInv => ResumesInPlace
  BY DEF IInv
<1> QED
  BY <1>1, Inductive, PTL

(* No second update is begun, and no parameter replaced, under a running   *)
(* update.                                                                 *)
THEOREM UpdatesExclude == Spec => OneUpdate
<1> DEFINE A == pc # "none" => params' = params /\ (pc' # "none" => running)
<1>1. IInv /\ [Next]_vars => [A]_vars
  BY DEF IInv, TaskOK, Next, OtaTask, Download, RequestTask, Start, Cancel, Begin, Attempt,
         Connect, Read, ReadEnds, Retry, Verify, Finish, Restart, End, downloadVars, vars
<1> QED
  BY <1>1, Inductive, PTL DEF OneUpdate, Spec

================================================================================
