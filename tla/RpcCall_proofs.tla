----------------------------- MODULE RpcCall_proofs -----------------------------
(***************************************************************************)
(* Proofs about module RpcCall, for every buffer and every set of answer   *)
(* sizes, any number of calls, boots and deliveries.                       *)
(***************************************************************************)
EXTENDS RpcCall, FiniteSetTheorems, TLAPS

(* The correlation of a call is set exactly while answers are taken, a     *)
(* call ends with an outcome, and what is parsed is what was received.     *)
Listening ==
  /\ pc \in {"idle", "parse"} => correlation = 0
  /\ pc \notin {"idle", "parse"} => correlation = call_counter /\ call_counter > 0
  /\ pc = "end" => ret # "none"
  /\ pc = "parse" => len = call_len

(* The platform has heard of no call of the future, nor of one that has    *)
(* not been published; it answers what it has heard.                       *)
Causal ==
  /\ \A c \in asked :
       /\ c.boot <= boot
       /\ c.boot = boot => c.n <= call_counter
       /\ c.boot = boot /\ pc \in {"clear", "publish"} => c.n < call_counter
  /\ \A m \in answers : m.call \in asked
  /\ rx.msg \in answers \cup {NoMessage}

(* The last byte in the buffer is of an answer with the number of this     *)
(* call: whatever is older can only be in front of it.                     *)
LastByteIsOurs ==
  pc # "idle" /\ call_len > 0 =>
    call_buf[call_len] \in answers /\ call_buf[call_len].call.n = call_counter

(* The platform answers a call once, so two deliveries with the same call  *)
(* are of the same answer.                                                 *)
AnsweredOnce == \A a, b \in answers : a.call = b.call => a = b

(* Unless an earlier boot has a namesake of the call, all that is received *)
(* while it waits is its own answer, from the first byte on: what follows  *)
(* is put behind what is there, or no longer fits.                         *)
InStep ==
  pc # "idle" /\ ~OlderNamesake(Current) =>
    /\ \A i \in 1 .. call_len : call_buf[i] \in answers /\ call_buf[i].call = Current
    /\ pc # "parse" /\ rx.msg # NoMessage /\ rx.msg.call = Current =>
         rx.off = call_len \/ rx.off >= BufSize

IInv ==
  /\ TypeOK /\ Listening /\ Causal /\ LastByteIsOurs /\ AnsweredOnce /\ InStep
  /\ AnswerIsWhole /\ AnswerWakes

--------------------------------------------------------------------------------
LEMMA MessageFacts ==
  /\ Garbage \notin Message
  /\ \A m \in Message : m.size \in Nat \ {0} /\ m.call \in Call
<1>1. \A m \in Message : m.size \in Nat \ {0} /\ m.call \in Call
  BY SizesAssumption DEF Message
<1>2. Garbage.size = 0
  BY DEF Garbage
<1> QED
  BY <1>1, <1>2

(* What is wholly in the buffer is its last byte. *)
LEMMA LastOfWhole ==
  ASSUME NEW m \in Message, NEW n, HoldsWhole(m, n)
  PROVE  n = m.size /\ n \in Nat \ {0} /\ call_buf[n] = m
BY MessageFacts DEF HoldsWhole

LEMMA InitInv == Init => IInv
<1> SUFFICES ASSUME Init PROVE IInv
  OBVIOUS
<1>1. TypeOK
  <2>1. call_buf \in [1 .. BufSize -> Message \cup {Garbage}]
    BY DEF Init
  <2>2. 0 \in 0 .. BufSize - 1
    BY SizesAssumption
  <2>3. rx \in [msg: Message \cup {NoMessage}, off: Nat]
    BY DEF Init
  <2> QED
    BY <2>1, <2>2, <2>3 DEF Init, TypeOK
<1> QED
  BY <1>1 DEF Init, IInv, Listening, Causal, LastByteIsOurs, AnsweredOnce, InStep,
     AnswerIsWhole, AnswerWakes

--------------------------------------------------------------------------------
(* The request task *)

LEMMA BeginInv == IInv /\ Begin => IInv'
<1> SUFFICES ASSUME IInv, Begin PROVE IInv'
  OBVIOUS
<1> USE DEF IInv, Begin, mqttVars, platform
<1>1. TypeOK'
  <2>1. 0 \in 0 .. BufSize - 1 /\ call_counter + 1 \in Nat
    BY SizesAssumption DEF TypeOK
  <2>2. call_overflow' \in BOOLEAN
    BY Zenon
  <2> QED
    BY <2>1, <2>2 DEF TypeOK
<1>2. Listening'
  BY DEF TypeOK, Listening
<1>3. Causal'
  <2>1. \A c \in asked : c.boot = boot => c.n < call_counter'
    BY DEF TypeOK, Causal, Call
  <2> QED
    BY <2>1 DEF TypeOK, Causal, Call
<1>4. LastByteIsOurs'
  BY DEF LastByteIsOurs
<1>5. InStep'
  <2>1. rx.msg # NoMessage => rx.msg.call # Current'
    BY DEF TypeOK, Causal, Call, Current
  <2>2. 1 .. call_len' = {}
    OBVIOUS
  <2> QED
    BY <2>1, <2>2 DEF InStep
<1> QED
  BY <1>1, <1>2, <1>3, <1>4, <1>5 DEF AnsweredOnce, AnswerIsWhole, AnswerWakes, OlderNamesake

LEMMA ClearBitInv == IInv /\ ClearBit => IInv'
BY DEF IInv, ClearBit, lockVars, mqttVars, platform, TypeOK, Listening, Causal, LastByteIsOurs,
   AnsweredOnce, InStep, OlderNamesake, Current, AnswerIsWhole, AnswerWakes

LEMMA PublishInv == IInv /\ Publish => IInv'
<1> SUFFICES ASSUME IInv, Publish PROVE IInv'
  OBVIOUS
<1> USE DEF IInv, Publish, lockVars, mqttVars
<1>1. Current \in Call /\ Current.boot = boot /\ Current.n = call_counter
  BY DEF TypeOK, Current, Call
<1>2. TypeOK'
  BY <1>1 DEF TypeOK
<1>3. Listening' /\ LastByteIsOurs' /\ AnsweredOnce' /\ InStep' /\ AnswerIsWhole'
  BY DEF Listening, LastByteIsOurs, AnsweredOnce, InStep, OlderNamesake, Current, AnswerIsWhole
<1>4. Causal'
  BY <1>1 DEF Causal, TypeOK
<1>5. AnswerWakes'
  <2>1. Current' = Current
    BY DEF Current
  <2>2. \A m \in answers : m.call # Current
    BY <1>1 DEF Causal, TypeOK
  <2> QED
    BY <2>1, <2>2 DEF AnswerWakes
<1> QED
  BY <1>2, <1>3, <1>4, <1>5

LEMMA WaitBitInv == IInv /\ WaitBit => IInv'
BY DEF IInv, WaitBit, lockVars, mqttVars, platform, TypeOK, Listening, Causal, LastByteIsOurs,
   AnsweredOnce, InStep, OlderNamesake, Current, AnswerIsWhole, AnswerWakes

(* What a call returns is well-formed, and whatever it returns without an  *)
(* answer adds nothing to prove.                                           *)
LEMMA ReturnType ==
  ASSUME TypeOK, NEW status \in Status, NEW from \in SUBSET (Message \cup {Garbage}),
         Return(status, from)
  PROVE  results' \subseteq [call: Call, status: Status, from: SUBSET (Message \cup {Garbage})]
<1>1. Current \in Call
  BY DEF TypeOK, Current, Call
<1> QED
  BY <1>1 DEF TypeOK, Return

LEMMA ReturnNothing ==
  ASSUME TypeOK, NEW status \in Status \ {"parsed"}, Return(status, {}),
         AnswerIsWhole, UNCHANGED answers
  PROVE  /\ results' \subseteq [call: Call, status: Status, from: SUBSET (Message \cup {Garbage})]
         /\ AnswerIsWhole'
<1>1. results' \subseteq [call: Call, status: Status, from: SUBSET (Message \cup {Garbage})]
  BY ReturnType
<1> QED
  BY <1>1 DEF Return, AnswerIsWhole, OlderNamesake

LEMMA EndInv == IInv /\ End => IInv'
<1> SUFFICES ASSUME IInv, End PROVE IInv'
  OBVIOUS
<1>1. /\ UNCHANGED <<boot, call_buf, call_len, call_overflow, call_bit, call_counter, ret,
                     rx, mqtt_pc, deliveries, asked, answers>>
      /\ correlation' = 0 /\ len' = call_len /\ pc = "end" /\ pc' \in {"idle", "parse"}
  BY DEF End, Return, mqttVars, platform
<1>2. /\ results' \subseteq [call: Call, status: Status, from: SUBSET (Message \cup {Garbage})]
      /\ AnswerIsWhole'
  <2>1. CASE ret = "answered" /\ ~call_overflow
    BY <1>1, <2>1 DEF IInv, TypeOK, End, AnswerIsWhole, OlderNamesake
  <2>2. CASE ~(ret = "answered" /\ ~call_overflow)
    <3>1. PICK status \in Status \ {"parsed"} : Return(status, {})
      <4>1. ret \in {"answered", "timeout", "not_sent"}
        BY <1>1 DEF IInv, TypeOK, Listening
      <4> QED
        BY <2>2, <4>1 DEF End, Status
    <3> QED
      BY <1>1, <3>1, ReturnNothing DEF IInv
  <2> QED
    BY <2>1, <2>2
<1>3. TypeOK'
  BY <1>1, <1>2 DEF IInv, TypeOK
<1>4. Listening' /\ Causal' /\ LastByteIsOurs' /\ AnsweredOnce' /\ AnswerWakes'
  BY <1>1 DEF IInv, TypeOK, Listening, Causal, LastByteIsOurs, AnsweredOnce, AnswerWakes
<1>5. InStep'
  BY <1>1 DEF IInv, InStep, OlderNamesake, Current
<1> QED
  BY <1>2, <1>3, <1>4, <1>5 DEF IInv

(* Without an older namesake, the text that is parsed is of one answer, so *)
(* it is no mixture, and an answer that leads it is the call's own.        *)
LEMMA OwnBytes ==
  ASSUME IInv, pc = "parse", ~OlderNamesake(Current)
  PROVE  /\ ~(Cardinality(Origins) > 1)
         /\ \A m \in answers : Leads(m) => m.call = Current /\ m.size < BufSize
<1>1. len = call_len /\ len \in 0 .. BufSize - 1
  BY DEF IInv, TypeOK, Listening
<1>2. \A i \in 1 .. len : call_buf[i] \in answers /\ call_buf[i].call = Current
  BY <1>1 DEF IInv, InStep
<1>3. ~(Cardinality(Origins) > 1)
  <2>1. CASE len = 0
    <3>1. Origins = {}
      BY <2>1 DEF Origins
    <3> QED
      BY <3>1, FS_EmptySet
  <2>2. CASE len # 0
    <3>1. 1 \in 1 .. len
      BY <1>1, <2>2
    <3>2. \A i \in 1 .. len : call_buf[i] = call_buf[1]
      BY <1>2, <3>1 DEF IInv, AnsweredOnce
    <3>3. Origins = {call_buf[1]}
      BY <3>1, <3>2 DEF Origins
    <3>4. Cardinality({call_buf[1]}) = 1
      BY FS_Singleton
    <3> QED
      BY <3>3, <3>4
  <2> QED
    BY <2>1, <2>2
<1>4. ASSUME NEW m \in answers, Leads(m) PROVE m.call = Current /\ m.size < BufSize
  <2>1. m.size \in Nat \ {0}
    BY MessageFacts DEF IInv, TypeOK
  <2>2. m.size <= len /\ call_buf[1] = m
    BY <1>4, <2>1 DEF Leads
  <2>3. 1 \in 1 .. len
    BY <1>1, <2>1, <2>2
  <2> QED
    BY <1>1, <1>2, <2>1, <2>2, <2>3, SizesAssumption
<1> QED
  BY <1>3, <1>4

(* The result of a call that parses something. *)
LEMMA ReturnParsed ==
  ASSUME IInv, NEW from \in SUBSET (Message \cup {Garbage}), Return("parsed", from),
         UNCHANGED answers,
         \/ \E m \in answers : from = {m} /\ m.call = Current /\ m.size < BufSize
         \/ OlderNamesake(Current)
  PROVE  /\ results' \subseteq [call: Call, status: Status, from: SUBSET (Message \cup {Garbage})]
         /\ AnswerIsWhole'
<1>1. results' \subseteq [call: Call, status: Status, from: SUBSET (Message \cup {Garbage})]
  BY ReturnType DEF IInv, Status
<1> DEFINE result == [call |-> Current, status |-> "parsed", from |-> from]
<1>2. results' = results \cup {result} /\ result.call = Current /\ result.from = from
  BY DEF Return
<1> HIDE DEF result
<1>3. \A c : OlderNamesake(c)' <=> OlderNamesake(c)
  BY DEF OlderNamesake
<1>4. ASSUME NEW r \in results', r.status = "parsed"
      PROVE  \/ \E m \in answers' : r.from = {m} /\ m.call = r.call /\ m.size < BufSize
             \/ OlderNamesake(r.call)
  BY <1>2, <1>4 DEF IInv, AnswerIsWhole
<1>5. AnswerIsWhole'
  BY <1>4 DEF AnswerIsWhole, OlderNamesake
<1> QED
  BY <1>1, <1>5

LEMMA ParseInv == IInv /\ Parse => IInv'
<1> SUFFICES ASSUME IInv, Parse PROVE IInv'
  OBVIOUS
<1>1. /\ UNCHANGED <<boot, correlation, call_buf, call_len, call_overflow, call_bit, call_counter,
                     ret, len, rx, mqtt_pc, deliveries, asked, answers>>
      /\ pc = "parse" /\ pc' = "idle"
  BY DEF Parse, Return, lockVars, mqttVars, platform
<1>2. /\ results' \subseteq [call: Call, status: Status, from: SUBSET (Message \cup {Garbage})]
      /\ AnswerIsWhole'
  <2>1. ASSUME NEW m \in answers, Leads(m), Return("parsed", {m})
        PROVE  /\ results' \subseteq [call: Call, status: Status,
                                       from: SUBSET (Message \cup {Garbage})]
               /\ AnswerIsWhole'
    <3>1. {m} \in SUBSET (Message \cup {Garbage})
      BY DEF IInv, TypeOK
    <3>2. \/ {m} = {m} /\ m.call = Current /\ m.size < BufSize
          \/ OlderNamesake(Current)
      BY <1>1, <2>1, OwnBytes
    <3> QED
      BY <1>1, <2>1, <3>1, <3>2, ReturnParsed
  <2>2. CASE Cardinality(Origins) > 1 /\ Return("parsed", Origins)
    <3>1. Origins \in SUBSET (Message \cup {Garbage})
      <4>1. 1 .. len \subseteq 1 .. BufSize
        BY SizesAssumption DEF IInv, TypeOK
      <4>2. \A i \in 1 .. BufSize : call_buf[i] \in Message \cup {Garbage}
        BY DEF IInv, TypeOK
      <4> QED
        BY <4>1, <4>2 DEF Origins
    <3>2. OlderNamesake(Current)
      BY <1>1, <2>2, OwnBytes
    <3> QED
      BY <1>1, <2>2, <3>1, <3>2, ReturnParsed
  <2>3. CASE Return("unparsed", {})
    BY <1>1, <2>3, ReturnNothing DEF IInv, Status
  <2> QED
    BY <2>1, <2>2, <2>3 DEF Parse
<1>3. TypeOK'
  BY <1>1, <1>2 DEF IInv, TypeOK
<1>4. Listening' /\ Causal' /\ LastByteIsOurs' /\ AnsweredOnce' /\ InStep' /\ AnswerWakes'
  BY <1>1 DEF IInv, TypeOK, Listening, Causal, LastByteIsOurs, AnsweredOnce, InStep, AnswerWakes
<1> QED
  BY <1>2, <1>3, <1>4 DEF IInv

--------------------------------------------------------------------------------
(* The esp-mqtt task *)

LEMMA DeliverInv ==
  ASSUME IInv, NEW m \in answers, NEW off \in Nat, NEW n \in Nat \ {0},
         off = 0 \/ (rx.msg = m /\ rx.off = off),
         mqtt_pc = "idle", Deliver(m, off, n), deliveries' \in Nat,
         UNCHANGED <<boot, correlation, call_bit, taskVars, platform, results>>
  PROVE  IInv'
<1> DEFINE ours == correlation # 0 /\ correlation = m.call.n
           fits == off + n < BufSize
           whole == off + n >= m.size
           at == off + n
<1>1. /\ UNCHANGED <<boot, correlation, call_bit, call_counter, pc, ret, len, asked, answers,
                     results>>
      /\ ours /\ fits =>
           /\ call_len' = at
           /\ call_buf' = [i \in DOMAIN call_buf |->
                             IF off < i /\ i <= at THEN m ELSE call_buf[i]]
      /\ ~(ours /\ fits) => UNCHANGED <<call_buf, call_len>>
      /\ call_overflow' = (call_overflow \/ (ours /\ ~fits))
      /\ mqtt_pc' = IF ours /\ whole THEN "notify" ELSE "idle"
      /\ rx' = IF whole THEN [msg |-> NoMessage, off |-> 0] ELSE [msg |-> m, off |-> at]
  BY DEF Deliver, taskVars, platform
<1>2. m \in Message /\ m.size \in Nat \ {0} /\ at \in Nat \ {0} /\ at > off
  BY MessageFacts DEF IInv, TypeOK
<1>3. ours /\ fits => at \in 1 .. BufSize - 1 /\ call_buf'[at] = m
  BY <1>1, <1>2, SizesAssumption DEF IInv, TypeOK
<1>4. TypeOK'
  <2>1. call_buf' \in [1 .. BufSize -> Message \cup {Garbage}]
    BY <1>1, <1>2 DEF IInv, TypeOK
  <2>2. call_len' \in 0 .. BufSize - 1
    BY <1>1, <1>3 DEF IInv, TypeOK
  <2>3. rx' \in [msg: Message \cup {NoMessage}, off: Nat]
    BY <1>1, <1>2
  <2>4. call_overflow' \in BOOLEAN
    BY <1>1, Zenon DEF IInv, TypeOK
  <2>5. mqtt_pc' \in {"idle", "notify"}
    BY <1>1
  <2> QED
    BY <1>1, <2>1, <2>2, <2>3, <2>4, <2>5 DEF IInv, TypeOK
<1>5. Listening'
  <2>1. pc = "parse" => ~ours
    BY DEF IInv, Listening
  <2> QED
    BY <1>1, <2>1 DEF IInv, Listening
<1>6. Causal'
  BY <1>1 DEF IInv, Causal
<1>7. LastByteIsOurs'
  <2>1. CASE ours /\ fits
    <3>1. pc # "idle" => m.call.n = call_counter
      BY <2>1 DEF IInv, TypeOK, Listening
    <3> QED
      BY <1>1, <1>3, <2>1, <3>1 DEF LastByteIsOurs
  <2>2. CASE ~(ours /\ fits)
    BY <1>1, <2>2 DEF IInv, LastByteIsOurs
  <2> QED
    BY <2>1, <2>2
<1>8. AnsweredOnce' /\ AnswerIsWhole'
  BY <1>1 DEF IInv, AnsweredOnce, AnswerIsWhole, OlderNamesake
<1>9. AnswerWakes'
  <2> SUFFICES ASSUME pc = "wait", NEW a \in answers, a.call = Current,
                      a.size = call_len', \A i \in 1 .. call_len' : call_buf'[i] = a
               PROVE  call_bit \/ mqtt_pc' = "notify"
    BY <1>1 DEF AnswerWakes, HoldsWhole, Current
  <2>1. CASE ours /\ fits
    <3>1. a = m
      BY <1>1, <1>2, <1>3, <2>1
    <3> QED
      BY <1>1, <1>2, <2>1, <3>1
  <2>2. CASE ~(ours /\ fits)
    <3>1. HoldsWhole(a, call_len)
      BY <1>1, <2>2 DEF HoldsWhole
    <3> QED
      BY <3>1 DEF IInv, AnswerWakes
  <2> QED
    BY <2>1, <2>2
<1>10. InStep'
  <2> SUFFICES ASSUME pc # "idle", ~OlderNamesake(Current)
               PROVE  /\ \A i \in 1 .. call_len' :
                           call_buf'[i] \in answers /\ call_buf'[i].call = Current
                      /\ pc # "parse" /\ rx'.msg # NoMessage /\ rx'.msg.call = Current =>
                           rx'.off = call_len' \/ rx'.off >= BufSize
    BY <1>1 DEF InStep, OlderNamesake, Current
  <2>1. /\ \A i \in 1 .. call_len : call_buf[i] \in answers /\ call_buf[i].call = Current
        /\ pc # "parse" /\ m.call = Current =>
             off = 0 \/ off = call_len \/ off >= BufSize
    BY <1>2, MessageFacts DEF IInv, InStep, NoMessage
  <2>2. ours <=> pc # "parse" /\ m.call = Current
    <3>1. m.call \in Call /\ m.call.boot <= boot /\ ~(m.call.n = call_counter /\ m.call.boot < boot)
      BY <1>2, MessageFacts DEF IInv, Causal, OlderNamesake, Current
    <3>2. m.call.n = call_counter => m.call = Current
      BY <3>1 DEF IInv, TypeOK, Call, Current
    <3>3. m.call = Current => m.call.n = call_counter
      BY DEF Current
    <3> QED
      BY <3>2, <3>3 DEF IInv, TypeOK, Listening
  <2>3. CASE ours /\ fits
    <3>1. off = 0 \/ off = call_len
      BY <1>2, <2>1, <2>2, <2>3, SizesAssumption
    <3>2. ASSUME NEW i \in 1 .. call_len'
          PROVE  call_buf'[i] \in answers /\ call_buf'[i].call = Current
      <4>1. i \in 1 .. at /\ i \in 1 .. BufSize
        BY <1>1, <1>3, <2>3, SizesAssumption
      <4>2. call_buf'[i] = IF off < i THEN m ELSE call_buf[i]
        <5>1. i \in DOMAIN call_buf /\ i <= at
          BY <1>2, <4>1 DEF IInv, TypeOK
        <5> QED
          BY <1>1, <2>3, <5>1
      <4>3. ~(off < i) => i \in 1 .. call_len
        BY <3>1, <4>1 DEF IInv, TypeOK
      <4> QED
        BY <2>1, <2>2, <2>3, <4>2, <4>3
    <3> QED
      BY <1>1, <2>3, <3>2
  <2>4. CASE ours /\ ~fits
    <3>1. at >= BufSize
      BY <1>2, <2>4, SizesAssumption
    <3> QED
      BY <1>1, <2>1, <2>4, <3>1
  <2>5. CASE ~ours
    <3>1. pc # "parse" /\ rx'.msg # NoMessage => rx'.msg.call # Current
      BY <1>1, <2>2, <2>5
    <3> QED
      BY <1>1, <2>1, <2>5, <3>1
  <2> QED
    BY <2>3, <2>4, <2>5
<1> HIDE DEF ours, fits, whole, at
<1> QED
  BY <1>4, <1>5, <1>6, <1>7, <1>8, <1>9, <1>10 DEF IInv

LEMMA MqttTaskInv == IInv /\ MqttTask => IInv'
<1> SUFFICES ASSUME IInv, MqttTask PROVE IInv'
  OBVIOUS
<1>1. ASSUME NEW m \in answers, NEW n \in 1 .. m.size, FirstEvent(m, n) PROVE IInv'
  <2>1. n \in Nat \ {0} /\ 0 \in Nat /\ deliveries' \in Nat
    BY <1>1 DEF IInv, TypeOK, FirstEvent
  <2> QED
    BY <1>1, <2>1, DeliverInv DEF FirstEvent
<1>2. ASSUME rx.msg # NoMessage, NEW n \in 1 .. (rx.msg.size - rx.off), NextEvent(n) PROVE IInv'
  <2>1. rx.msg \in answers /\ rx.off \in Nat /\ n \in Nat \ {0} /\ deliveries' \in Nat
    BY <1>2 DEF IInv, TypeOK, Causal, NextEvent
  <2> QED
    BY <1>2, <2>1, DeliverInv DEF NextEvent
<1>3. CASE Notify
  BY <1>3 DEF IInv, Notify, lockVars, taskVars, platform, TypeOK, Listening, Causal,
     LastByteIsOurs, AnsweredOnce, InStep, OlderNamesake, AnswerIsWhole, AnswerWakes,
       HoldsWhole, Current
<1>4. CASE RxLost
  <2>1. rx' \in [msg: Message \cup {NoMessage}, off: Nat] /\ rx'.msg = NoMessage
    BY <1>4 DEF RxLost
  <2> QED
    BY <1>4, <2>1 DEF IInv, RxLost, lockVars, taskVars, platform, TypeOK, Listening, Causal,
       LastByteIsOurs, AnsweredOnce, InStep, OlderNamesake, AnswerIsWhole, AnswerWakes,
       HoldsWhole, Current
<1> QED
  BY <1>1, <1>2, <1>3, <1>4 DEF MqttTask

--------------------------------------------------------------------------------
(* The platform, and a reboot *)

(* An answer that has just been sent is nowhere in the buffer. *)
LEMMA PlatformInv == IInv /\ Platform => IInv'
<1> SUFFICES ASSUME IInv, NEW c \in asked, NEW size \in AnswerSizes, PlatformAnswers(c, size)
             PROVE  IInv'
  BY DEF Platform
<1> DEFINE new == [call |-> c, size |-> size]
<1>1. /\ UNCHANGED <<boot, correlation, call_buf, call_len, call_overflow, call_bit, call_counter,
                     pc, ret, len, rx, mqtt_pc, deliveries, asked, results>>
      /\ answers' = answers \cup {new} /\ \A m \in answers : m.call # c
  BY DEF PlatformAnswers, lockVars, taskVars, mqttVars
<1>2. new \in Message /\ new.call = c /\ new \notin answers
  BY <1>1 DEF IInv, TypeOK, Message
<1> HIDE DEF new
<1>3. TypeOK' /\ Listening' /\ Causal' /\ LastByteIsOurs'
  BY <1>1, <1>2 DEF IInv, TypeOK, Listening, Causal, LastByteIsOurs
<1>5. AnsweredOnce'
  BY <1>1, <1>2 DEF IInv, AnsweredOnce
<1>6. \A d : OlderNamesake(d) => OlderNamesake(d)'
  BY <1>1 DEF OlderNamesake
<1>7. InStep'
  BY <1>1, <1>6 DEF IInv, InStep, Current, OlderNamesake
<1>8. AnswerIsWhole'
  BY <1>1 DEF IInv, AnswerIsWhole, OlderNamesake
<1>4. AnswerWakes'
  <2>1. pc = "wait" => ~HoldsWhole(new, call_len)
    BY <1>2, LastOfWhole DEF IInv, LastByteIsOurs
  <2> QED
    BY <1>1, <2>1 DEF IInv, AnswerWakes, HoldsWhole, Current
<1> QED
  BY <1>3, <1>4, <1>5, <1>7, <1>8 DEF IInv

LEMMA RebootInv == IInv /\ Reboot => IInv'
<1> SUFFICES ASSUME IInv, Reboot PROVE IInv'
  OBVIOUS
<1> USE DEF IInv, Reboot, platform
<1>1. TypeOK'
  <2>1. call_buf' \in [1 .. BufSize -> Message \cup {Garbage}]
    OBVIOUS
  <2>2. 0 \in 0 .. BufSize - 1 /\ boot + 1 \in Nat
    BY SizesAssumption DEF TypeOK
  <2>3. rx' \in [msg: Message \cup {NoMessage}, off: Nat]
    OBVIOUS
  <2>4. call_overflow' \in BOOLEAN /\ call_bit' \in BOOLEAN
    BY Zenon
  <2> QED
    BY <2>1, <2>2, <2>3, <2>4 DEF TypeOK
<1>2. Causal'
  <2>1. \A c \in asked : c.boot \in Nat /\ c.boot < boot'
    BY DEF TypeOK, Causal, Call
  <2> QED
    BY <2>1 DEF Causal, TypeOK
<1> QED
  BY <1>1, <1>2 DEF Listening, LastByteIsOurs, AnsweredOnce, InStep, OlderNamesake, AnswerIsWhole,
     AnswerWakes

--------------------------------------------------------------------------------
LEMMA NextInv == IInv /\ [Next]_vars => IInv'
<1> SUFFICES ASSUME IInv, [Next]_vars PROVE IInv'
  OBVIOUS
<1>1. CASE UNCHANGED vars
  BY <1>1 DEF vars, lockVars, taskVars, mqttVars, platform, IInv, TypeOK, Listening, Causal,
     LastByteIsOurs, AnsweredOnce, InStep, OlderNamesake, AnswerIsWhole, AnswerWakes,
       HoldsWhole, Current
<1> QED
  BY <1>1, BeginInv, ClearBitInv, PublishInv, WaitBitInv, EndInv, ParseInv, MqttTaskInv,
     PlatformInv, RebootInv DEF Next, RequestTask

THEOREM Inductive == Spec => []IInv
  BY InitInv, NextInv, PTL DEF Spec

(* The state of calls is well-formed, in particular the length of what has *)
(* been received leaves room for the NUL of the buffer.                    *)
THEOREM TypeCorrect == Spec => []TypeOK
  BY Inductive, PTL DEF IInv

(* What a call hands out is the whole of its own answer and nothing else,  *)
(* although the buffer keeps what earlier calls left in it - or an earlier *)
(* boot's call of the same number has been answered.                       *)
THEOREM AnswersAreWhole == Spec => []AnswerIsWhole
  BY Inductive, PTL DEF IInv

(* No order of clearing and setting the bit loses the wake-up of an answer *)
(* that is there.                                                          *)
THEOREM AnswersWake == Spec => []AnswerWakes
  BY Inductive, PTL DEF IInv

(* Only a call that takes answers can see its buffer change. *)
LEMMA BufferStep ==
  IInv /\ [Next]_vars => ((boot' = boot /\ pc \in {"parse", "idle"}) => call_buf' = call_buf)
<1> SUFFICES ASSUME IInv, [Next]_vars, boot' = boot, pc \in {"parse", "idle"}
             PROVE  call_buf' = call_buf
  OBVIOUS
<1>1. ASSUME NEW m, NEW off, NEW n, Deliver(m, off, n) PROVE call_buf' = call_buf
  BY <1>1 DEF Deliver, IInv, Listening
<1>2. CASE MqttTask
  BY <1>1, <1>2 DEF MqttTask, FirstEvent, NextEvent, Notify, RxLost, lockVars
<1>3. CASE RequestTask
  BY <1>3 DEF RequestTask, Begin, ClearBit, Publish, WaitBit, End, Parse, lockVars
<1>4. CASE Platform
  BY <1>4 DEF Platform, PlatformAnswers, lockVars
<1>5. ~Reboot
  BY DEF Reboot, IInv, TypeOK
<1>6. CASE UNCHANGED vars
  BY <1>6 DEF vars, lockVars
<1> QED
  BY <1>2, <1>3, <1>4, <1>5, <1>6 DEF Next

(* The buffer is still while call() and its caller have pointers into it. *)
THEOREM BufferIsStable == Spec => BufferStable
  BY Inductive, BufferStep, PTL DEF Spec, BufferStable
================================================================================
