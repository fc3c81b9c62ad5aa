--------------------------- MODULE RpcRequests_proofs ---------------------------
(***************************************************************************)
(* Proofs about RpcRequests, for every number of slots, every payload      *)
(* limit and every set of requests.                                        *)
(***************************************************************************)
EXTENDS RpcRequests, SequenceTheorems, FiniteSetTheorems, FunctionTheorems, TLAPS

--------------------------------------------------------------------------------
(* Queues without repetitions *)

(* Sending an item a queue does not hold adds it and repeats nothing. *)
LEMMA AppendDistinct ==
  ASSUME NEW S, NEW q \in Seq(S), NEW e \in S, IsInjective(q), e \notin Range(q)
  PROVE  /\ Append(q, e) \in Seq(S)
         /\ Range(Append(q, e)) = Range(q) \cup {e}
         /\ IsInjective(Append(q, e))
<1>1. /\ Append(q, e) \in Seq(S) /\ Len(Append(q, e)) = Len(q) + 1
      /\ \A i \in 1 .. Len(q) : Append(q, e)[i] = q[i]
      /\ Append(q, e)[Len(q) + 1] = e
  BY AppendProperties
<1>2. /\ Len(q) \in Nat /\ DOMAIN q = 1 .. Len(q)
      /\ DOMAIN Append(q, e) = 1 .. Len(q) + 1
  BY <1>1, LenProperties
<1>3. Range(Append(q, e)) = Range(q) \cup {e}
  <2>1. ASSUME NEW i \in 1 .. Len(q) + 1
        PROVE  Append(q, e)[i] \in Range(q) \cup {e}
    BY <1>1, <1>2 DEF Range
  <2>2. ASSUME NEW x \in Range(q)
        PROVE  \E i \in 1 .. Len(q) + 1 : Append(q, e)[i] = x
    BY <1>1, <1>2 DEF Range
  <2>3. \E i \in 1 .. Len(q) + 1 : Append(q, e)[i] = e
    BY <1>1, <1>2
  <2> QED BY <1>2, <2>1, <2>2, <2>3 DEF Range
<1>4. IsInjective(Append(q, e))
  <2> SUFFICES ASSUME NEW i \in 1 .. Len(q) + 1, NEW j \in 1 .. Len(q) + 1,
                      Append(q, e)[i] = Append(q, e)[j]
               PROVE  i = j
    BY <1>2 DEF IsInjective
  <2>1. \A k \in 1 .. Len(q) : Append(q, e)[k] # e
    BY <1>1, <1>2 DEF Range
  <2> QED BY <1>1, <1>2, <2>1 DEF IsInjective
<1> QED BY <1>1, <1>3, <1>4

(* Receiving takes the head away and nothing else. *)
LEMMA TailDistinct ==
  ASSUME NEW S, NEW q \in Seq(S), q # <<>>, IsInjective(q)
  PROVE  /\ Head(q) \in S /\ Tail(q) \in Seq(S)
         /\ Head(q) \in Range(q)
         /\ Range(Tail(q)) = Range(q) \ {Head(q)}
         /\ IsInjective(Tail(q))
<1>1. /\ Head(q) \in S /\ Tail(q) \in Seq(S) /\ Len(Tail(q)) = Len(q) - 1
      /\ \A i \in 1 .. Len(Tail(q)) : Tail(q)[i] = q[i + 1]
  BY HeadTailProperties
<1>2. /\ Len(q) \in Nat \ {0} /\ DOMAIN q = 1 .. Len(q) /\ Head(q) = q[1]
      /\ DOMAIN Tail(q) = 1 .. Len(q) - 1
  BY <1>1, LenProperties, EmptySeq
<1>3. Head(q) \in Range(q)
  BY <1>2 DEF Range
<1>4. Range(Tail(q)) = Range(q) \ {Head(q)}
  <2>1. ASSUME NEW i \in 1 .. Len(q) - 1
        PROVE  Tail(q)[i] \in Range(q) /\ Tail(q)[i] # Head(q)
    <3>1. i + 1 \in 1 .. Len(q) /\ 1 \in 1 .. Len(q) /\ i + 1 # 1
      BY <1>2
    <3>2. Tail(q)[i] = q[i + 1]
      BY <1>1
    <3> QED BY <1>2, <3>1, <3>2 DEF Range, IsInjective
  <2>2. ASSUME NEW k \in 1 .. Len(q), q[k] # Head(q)
        PROVE  \E i \in 1 .. Len(q) - 1 : Tail(q)[i] = q[k]
    <3>1. k - 1 \in 1 .. Len(q) - 1 /\ (k - 1) + 1 = k
      BY <1>2, <2>2
    <3> QED BY <1>1, <3>1
  <2>3. Range(Tail(q)) \subseteq Range(q) \ {Head(q)}
    BY <1>2, <2>1 DEF Range
  <2>4. ASSUME NEW x \in Range(q), x # Head(q)
        PROVE  x \in Range(Tail(q))
    <3>1. PICK k \in 1 .. Len(q) : q[k] = x
      BY <1>2 DEF Range
    <3>2. PICK i \in 1 .. Len(q) - 1 : Tail(q)[i] = x
      BY <2>2, <2>4, <3>1
    <3> QED BY <1>2, <3>2 DEF Range
  <2> QED BY <2>3, <2>4
<1>5. IsInjective(Tail(q))
  <2> SUFFICES ASSUME NEW i \in 1 .. Len(q) - 1, NEW j \in 1 .. Len(q) - 1,
                      Tail(q)[i] = Tail(q)[j]
               PROVE  i = j
    BY <1>2 DEF IsInjective
  <2>1. i + 1 \in 1 .. Len(q) /\ j + 1 \in 1 .. Len(q) /\ q[i + 1] = q[j + 1]
    BY <1>1, <1>2
  <2>2. i + 1 = j + 1
    BY <1>2, <2>1 DEF IsInjective
  <2> QED BY <2>2
<1> QED BY <1>1, <1>3, <1>4, <1>5

(* A queue of distinct slots that lacks one of them is not full, so that a *)
(* send of that slot never fails ("Cannot fail", sc_rpc.cpp).              *)
LEMMA NotFull ==
  ASSUME NEW q \in Seq(Slots), NEW e \in Slots, IsInjective(q), e \notin Range(q)
  PROVE  Len(q) < Cardinality(Slots)
<1>1. Len(q) \in Nat /\ DOMAIN q = 1 .. Len(q) /\ q \in [1 .. Len(q) -> Slots]
  BY LenProperties
<1>2. /\ IsFiniteSet(Slots \ {e}) /\ Cardinality(Slots) \in Nat
      /\ Cardinality(Slots \ {e}) = Cardinality(Slots) - 1
  BY SlotsAssumption, FS_RemoveElement, FS_CardinalityType
<1>3. q \in [1 .. Len(q) -> Slots \ {e}]
  BY <1>1 DEF Range
<1>4. q \in Injection(1 .. Len(q), Slots \ {e})
  BY <1>1, <1>3 DEF Injection, IsInjective
<1>5. Cardinality(1 .. Len(q)) <= Cardinality(Slots \ {e})
  BY <1>2, <1>4, FS_Injection
<1>6. Cardinality(1 .. Len(q)) = Len(q)
  BY <1>1, FS_Interval
<1> QED BY <1>1, <1>2, <1>5, <1>6

LEMMA SendFits ==
  ASSUME NEW q \in Seq(Slots), NEW e \in Slots, IsInjective(q), e \notin Range(q)
  PROVE  QueueSend(q, e) = Append(q, e)
BY NotFull DEF QueueSend

--------------------------------------------------------------------------------
(* The contents of a slot *)

LEMMA MsgShape ==
  ASSUME NEW r \in Requests
  PROVE  /\ Msg[r] \in RequestShape
         /\ Msg[r].size \in Nat /\ Msg[r].corr \in BOOLEAN
         /\ Msg[r].topic \in {"up", "foreign", "none"}
         /\ Msg[r].known \in BOOLEAN /\ Msg[r].object \in BOOLEAN
         /\ r # NoRequest
BY RequestsAssumption DEF RequestShape

(* start_request() leaves a well-formed slot holding nothing of r yet. *)
LEMMA OpenedSlot ==
  ASSUME NEW r \in Requests, NEW s \in Slot
  PROVE  Opened(s, r) \in Slot /\ Holds(Opened(s, r), r, 0)
<1>1. Opened(s, r) \in Slot
  <2> DEFINE corr == IF Msg[r].corr THEN r ELSE NoRequest
             topic == IF Msg[r].topic = "none" THEN NoRequest ELSE r
             large == Msg[r].size > PayloadMax
  <2>1. corr \in Request /\ topic \in Request /\ large \in BOOLEAN
    BY DEF Request
  <2> HIDE DEF corr, topic, large
  <2>2. /\ s.payload \in [1 .. PayloadMax -> Request] /\ 0 \in 0 .. PayloadMax
        /\ r \in Request
    BY BoundsAssumption DEF Slot, Request
  <2>3. [method |-> r, correlation |-> corr, response_topic |-> topic,
         too_large |-> large, payload_len |-> 0, payload |-> s.payload] \in Slot
    BY <2>1, <2>2 DEF Slot
  <2> QED BY <2>3 DEF Opened, corr, topic, large
<1>2. FieldsOf(Opened(s, r), r) /\ Opened(s, r).payload_len = 0
  BY DEF Opened, FieldsOf, Slot
<1> QED BY <1>1, <1>2 DEF Holds

(* A data event that follows what the slot holds extends it. *)
LEMMA CopiedSlot ==
  ASSUME NEW r \in Requests, NEW s \in Slot, NEW off \in Nat, NEW len \in Nat,
         Holds(s, r, off), off + len <= Msg[r].size
  PROVE  Copied(s, r, off, len) \in Slot /\ Holds(Copied(s, r, off, len), r, off + len)
<1>1. CASE s.too_large
  BY <1>1 DEF Copied, Holds, FieldsOf
<1>2. CASE ~s.too_large
  <2> DEFINE bytes == [i \in 1 .. PayloadMax |->
                         IF off < i /\ i <= off + len THEN r ELSE s.payload[i]]
             c == [s EXCEPT !.payload = bytes, !.payload_len = off + len]
  <2>1. off + len \in 0 .. PayloadMax
    BY <1>2, MsgShape, BoundsAssumption DEF Holds, FieldsOf
  <2>2. Copied(s, r, off, len) = c
    BY <1>2, <2>1 DEF Copied, Slot
  <2>3. bytes \in [1 .. PayloadMax -> Request]
    BY DEF Slot, Request
  <2> HIDE DEF bytes
  <2>4. c \in Slot /\ c.payload = bytes /\ c.payload_len = off + len
    BY <2>1, <2>3 DEF Slot
  <2>5. FieldsOf(c, r)
    BY DEF Holds, FieldsOf, Slot
  <2>6. \A i \in 1 .. off + len : bytes[i] = r
    BY <1>2, <2>1, BoundsAssumption DEF bytes, Holds
  <2> QED BY <2>2, <2>4, <2>5, <2>6 DEF Holds
<1> QED BY <1>1, <1>2

(* A request fits in the event that carries the rest of it. *)
LEMMA EventFits ==
  ASSUME NEW r \in Requests, NEW off \in Nat, NEW len \in EventLengths(r, off),
         off <= Msg[r].size
  PROVE  len \in Nat /\ off + len <= Msg[r].size
         /\ (LastEvent(r, off, len) => off + len = Msg[r].size)
BY MsgShape DEF EventLengths, LastEvent

--------------------------------------------------------------------------------
(* Type correctness *)

LEMMA QueueSendType ==
  ASSUME NEW q \in Seq(Slots), NEW e \in Slots
  PROVE  QueueSend(q, e) \in Seq(Slots)
BY AppendProperties DEF QueueSend

LEMMA CountType ==
  ASSUME NEW r \in Requests, NEW field \in {"dropped", "accepted", "answered", "unsent"},
         tally \in [Requests -> Tally], Count(r, field)
  PROVE  tally' \in [Requests -> Tally]
BY DEF Count, Tally

LEMMA AnswerType ==
  ASSUME NEW s \in Slot, s.method \in Requests, NEW ok \in BOOLEAN
  PROVE  Answer(s, ok) \in Reply
<1>1. Params(s) \in Seq(Request)
  <2>1. \A i \in 1 .. s.payload_len : s.payload[i] \in Request
    BY BoundsAssumption DEF Slot
  <2>2. s.payload_len \in Int
    BY DEF Slot
  <2> QED BY <2>1, <2>2, SubSeqProperties DEF Params
<1>2. (IF ok THEN Params(s) ELSE <<>>) \in Seq(Request)
  BY <1>1
<1>3. s.correlation \in Request /\ s.response_topic \in Request
  BY DEF Slot
<1> QED BY <1>2, <1>3 DEF Answer, Reply, Request

LEMMA GiveBackRxType ==
  ASSUME free_slots \in Seq(Slots), rx_slot \in Slots \cup {NoSlot}, GiveBackRx
  PROVE  free_slots' \in Seq(Slots) /\ rx_slot' \in Slots \cup {NoSlot}
BY QueueSendType DEF GiveBackRx

LEMMA ReceivedType ==
  ASSUME NEW r \in Requests, NEW off \in Nat
  PROVE  ReceivedUpTo(r, off) \in [req: Request, off: Nat, len: Nat]
BY DEF ReceivedUpTo, NoMessage, Request

LEMMA RespondType ==
  ASSUME NEW s \in Slot, s.method \in Requests, NEW ok \in BOOLEAN,
         sent \subseteq Reply, tally \in [Requests -> Tally], faults \in Nat,
         Respond(s, ok)
  PROVE  sent' \subseteq Reply /\ tally' \in [Requests -> Tally] /\ faults' \in Nat
<1>1. Answer(s, ok) \in Reply
  BY AnswerType
<1> QED BY <1>1, CountType DEF Respond, Fault

LEMMA TypeStep ==
  TypeOK /\ ControlOK /\ ContentOK /\ [Next]_vars => TypeOK'
<1> SUFFICES ASSUME TypeOK, ControlOK, ContentOK, [Next]_vars
             PROVE  TypeOK'
  OBVIOUS
<1> USE DEF TypeOK
<1>1. ASSUME NEW r \in Requests, NEW len \in EventLengths(r, 0), FirstFragment(r, len)
      PROVE  TypeOK'
  <2>1. len \in Nat
    BY MsgShape DEF EventLengths
  <2> QED BY <1>1, <2>1, GiveBackRxType
       DEF FirstFragment, connVars, taskVars, Request
<1>2. ASSUME NEW len \in EventLengths(rx.req, rx.off), rx # NoMessage, NextFragment(len)
      PROVE  TypeOK'
  <2>1. /\ rx.req \in Requests /\ rx.off \in Nat /\ rx.off < Msg[rx.req].size
        /\ mqtt_pc = "idle"
    BY <1>2 DEF NextFragment, ControlOK
  <2>2. len \in Nat /\ rx.off + len \in Nat /\ rx.off + len <= Msg[rx.req].size
    BY <2>1, MsgShape, EventFits
  <2>3. rx' \in [req: Request, off: Nat, len: Nat]
    BY <1>2, <2>1, <2>2, ReceivedType DEF NextFragment
  <2>4. CASE rx_slot = NoSlot
    BY <1>2, <2>3, <2>4 DEF NextFragment, connVars, taskVars, history
  <2>5. CASE rx_slot # NoSlot
    <3>1. Holds(slots[rx_slot], rx.req, rx.off) /\ slots[rx_slot] \in Slot
      BY <1>2, <2>1, <2>5 DEF ContentOK
    <3>2. Copied(slots[rx_slot], rx.req, rx.off, len) \in Slot
      BY <2>1, <2>2, <3>1, CopiedSlot
    <3>3. slots' \in [Slots -> Slot]
      BY <1>2, <2>5, <3>2 DEF NextFragment
    <3> QED BY <1>2, <2>3, <2>5, <3>3 DEF NextFragment, connVars, taskVars, history
  <2> QED BY <2>4, <2>5
<1>3. ASSUME DropRequest PROVE TypeOK'
  <2>1. rx.req \in Requests /\ rx.len \in Nat
    BY <1>3 DEF DropRequest, ControlOK
  <2>2. rx' \in [req: Request, off: Nat, len: Nat]
    BY <1>3, <2>1, ReceivedType DEF DropRequest
  <2>3. tally' \in [Requests -> Tally]
    BY <1>3, <2>1, CountType DEF DropRequest
  <2> QED BY <1>3, <2>2, <2>3 DEF DropRequest, connVars, taskVars
<1>4. ASSUME StartRequest PROVE TypeOK'
  <2>1. /\ rx.req \in Requests /\ rx.len \in Nat
        /\ 0 + rx.len <= Msg[rx.req].size
    BY <1>4, MsgShape, EventFits DEF StartRequest, ControlOK
  <2>2. Head(free_slots) \in Slots /\ Tail(free_slots) \in Seq(Slots)
    BY <1>4, HeadTailProperties DEF StartRequest
  <2>3. Copied(Opened(slots[Head(free_slots)], rx.req), rx.req, 0, rx.len) \in Slot
    BY <2>1, <2>2, OpenedSlot, CopiedSlot
  <2>4. slots' \in [Slots -> Slot]
    BY <1>4, <2>2, <2>3 DEF StartRequest
  <2>5. rx' \in [req: Request, off: Nat, len: Nat]
    BY <1>4, <2>1, ReceivedType DEF StartRequest
  <2> QED BY <1>4, <2>2, <2>4, <2>5 DEF StartRequest, connVars, taskVars, history
<1>5. ASSUME OtherMessage PROVE TypeOK'
  BY <1>5, GiveBackRxType DEF OtherMessage, connVars, taskVars, history
<1>6. ASSUME Submit PROVE TypeOK'
  <2>1. rx_slot \in Slots /\ slots[rx_slot].method \in Requests
    BY <1>6 DEF Submit, ControlOK, ContentOK, Complete
  <2>2. ready_slots' \in Seq(Slots)
    BY <1>6, <2>1, QueueSendType DEF Submit
  <2>3. tally' \in [Requests -> Tally]
    BY <1>6, <2>1, CountType DEF Submit
  <2> QED BY <1>6, <2>2, <2>3 DEF Submit, connVars, taskVars
<1>7. ASSUME Notify PROVE TypeOK'
  BY <1>7 DEF Notify, connVars, taskVars, history
<1>8. ASSUME Connected PROVE TypeOK'
  BY <1>8 DEF Connected, mqttVars, taskVars, history
<1>9. ASSUME Disconnected PROVE TypeOK'
  <2>1. free_slots' \in Seq(Slots) /\ rx_slot' \in Slots \cup {NoSlot}
    BY <1>9, GiveBackRxType DEF Disconnected
  <2>2. rx' \in [req: Request, off: Nat, len: Nat]
    BY <1>9 DEF Disconnected, NoMessage, Request
  <2>3. faults' \in Nat
    BY <1>9 DEF Disconnected, Fault
  <2>4. link' \in BOOLEAN /\ is_connected' \in BOOLEAN
    BY <1>9 DEF Disconnected
  <2> QED BY <1>9, <2>1, <2>2, <2>3, <2>4 DEF Disconnected, taskVars
<1>10. ASSUME StopClient PROVE TypeOK'
  BY <1>10 DEF StopClient, NoMessage, Request, taskVars, history
<1>11. ASSUME Wake PROVE TypeOK'
  BY <1>11 DEF Wake, mqttVars, connVars, history
<1>12. ASSUME TakeReady PROVE TypeOK'
  <2>1. ready_slots' \in Seq(Slots) /\ slot' \in Slots \cup {NoSlot}
    <3>1. CASE ready_slots = <<>>
      BY <1>12, <3>1 DEF TakeReady
    <3>2. CASE ready_slots # <<>>
      <4>1. Head(ready_slots) \in Slots /\ Tail(ready_slots) \in Seq(Slots)
        BY <3>2, HeadTailProperties
      <4> QED BY <1>12, <3>2, <4>1 DEF TakeReady
    <3> QED BY <3>1, <3>2
  <2>2. task_pc' \in {"wait", "handle"}
    BY <1>12 DEF TakeReady
  <2> QED BY <1>12, <2>1, <2>2 DEF TakeReady, mqttVars, connVars, history
<1>13. ASSUME Handle PROVE TypeOK'
  <2>1. slot \in Slots /\ slots[slot] \in Slot /\ slots[slot].method \in Requests
    BY <1>13 DEF Handle, ControlOK, ContentOK, Complete, Handling
  <2>2. PICK ok \in BOOLEAN : Respond(slots[slot], ok)
    BY <1>13 DEF Handle, Outcomes
  <2>3. sent' \subseteq Reply /\ tally' \in [Requests -> Tally] /\ faults' \in Nat
    BY <2>1, <2>2, RespondType
  <2> QED BY <1>13, <2>3 DEF Handle, mqttVars, connVars
<1>14. ASSUME GiveBack PROVE TypeOK'
  <2>1. slot \in Slots
    BY <1>14 DEF GiveBack, ControlOK
  <2> QED BY <1>14, <2>1, QueueSendType DEF GiveBack, mqttVars, connVars, history
<1>15. ASSUME Stop PROVE TypeOK'
  <2>1. faults' \in Nat
    BY <1>15 DEF Stop, Fault
  <2>2. is_connected' \in BOOLEAN
    BY <1>15 DEF Stop
  <2> QED BY <1>15, <2>1, <2>2 DEF Stop, mqttVars, taskVars
<1>16. ASSUME UNCHANGED vars PROVE TypeOK'
  BY <1>16 DEF vars, mqttVars, connVars, taskVars, history
<1> QED
  BY <1>1, <1>2, <1>3, <1>4, <1>5, <1>6, <1>7, <1>8, <1>9, <1>10, <1>11, <1>12,
     <1>13, <1>14, <1>15, <1>16 DEF Next, MqttTask, RequestTask

--------------------------------------------------------------------------------
(* Program counters *)

LEMMA ControlStep ==
  TypeOK /\ ControlOK /\ [Next]_vars => ControlOK'
<1> SUFFICES ASSUME TypeOK, ControlOK, [Next]_vars
             PROVE  ControlOK'
  OBVIOUS
<1> USE DEF ControlOK
<1>1. ASSUME NEW r \in Requests, NEW len \in EventLengths(r, 0), FirstFragment(r, len)
      PROVE  ControlOK'
  BY <1>1 DEF FirstFragment, GiveBackRx, taskVars
<1>2. ASSUME NEW len \in EventLengths(rx.req, rx.off), rx # NoMessage, NextFragment(len)
      PROVE  ControlOK'
  <2>1. /\ rx.req \in Requests /\ rx.off \in Nat /\ rx.off < Msg[rx.req].size
        /\ mqtt_pc = "idle"
    BY <1>2 DEF NextFragment, TypeOK
  <2>2. rx.off + len \in Nat /\ Msg[rx.req].size \in Nat
    BY <2>1, MsgShape, EventFits
  <2>3. CASE LastEvent(rx.req, rx.off, len)
    BY <1>2, <2>1, <2>3 DEF NextFragment, LastEvent, ReceivedUpTo, taskVars, TypeOK
  <2>4. CASE ~LastEvent(rx.req, rx.off, len)
    BY <1>2, <2>1, <2>2, <2>4 DEF NextFragment, LastEvent, ReceivedUpTo, taskVars
  <2> QED BY <2>3, <2>4
<1>3. ASSUME DropRequest PROVE ControlOK'
  <2>1. rx.req \in Requests /\ rx.len \in Nat /\ Msg[rx.req].size \in Nat
    BY <1>3, MsgShape DEF DropRequest, TypeOK
  <2> QED BY <1>3, <2>1 DEF DropRequest, ReceivedUpTo, taskVars
<1>4. ASSUME StartRequest PROVE ControlOK'
  <2>1. rx.req \in Requests /\ rx.len \in Nat /\ Msg[rx.req].size \in Nat
    BY <1>4, MsgShape DEF StartRequest, TypeOK
  <2>2. Head(free_slots) \in Slots
    BY <1>4, HeadTailProperties DEF StartRequest, TypeOK
  <2> QED BY <1>4, <2>1, <2>2 DEF StartRequest, LastEvent, ReceivedUpTo, taskVars
<1>5. ASSUME OtherMessage PROVE ControlOK'
  BY <1>5 DEF OtherMessage, taskVars
<1>6. ASSUME Submit PROVE ControlOK'
  BY <1>6 DEF Submit, taskVars
<1>7. ASSUME Notify PROVE ControlOK'
  BY <1>7 DEF Notify, taskVars
<1>8. ASSUME Connected PROVE ControlOK'
  BY <1>8 DEF Connected, mqttVars, taskVars
<1>9. ASSUME Disconnected PROVE ControlOK'
  BY <1>9 DEF Disconnected, taskVars
<1>10. ASSUME StopClient PROVE ControlOK'
  BY <1>10 DEF StopClient, taskVars
<1>11. ASSUME Wake PROVE ControlOK'
  BY <1>11 DEF Wake, mqttVars
<1>12. ASSUME TakeReady PROVE ControlOK'
  <2>1. CASE ready_slots = <<>>
    BY <1>12, <2>1 DEF TakeReady, mqttVars
  <2>2. CASE ready_slots # <<>>
    <3>1. Head(ready_slots) \in Slots /\ Head(ready_slots) # NoSlot
      BY <2>2, HeadTailProperties, SlotsAssumption DEF TypeOK
    <3> QED BY <1>12, <2>2, <3>1 DEF TakeReady, mqttVars
  <2> QED BY <2>1, <2>2
<1>13. ASSUME Handle PROVE ControlOK'
  BY <1>13 DEF Handle, mqttVars
<1>14. ASSUME GiveBack PROVE ControlOK'
  BY <1>14 DEF GiveBack, mqttVars
<1>15. ASSUME Stop PROVE ControlOK'
  BY <1>15 DEF Stop, mqttVars, taskVars
<1>16. ASSUME UNCHANGED vars PROVE ControlOK'
  BY <1>16 DEF vars, mqttVars, taskVars
<1> QED
  BY <1>1, <1>2, <1>3, <1>4, <1>5, <1>6, <1>7, <1>8, <1>9, <1>10, <1>11, <1>12,
     <1>13, <1>14, <1>15, <1>16 DEF Next, MqttTask, RequestTask

--------------------------------------------------------------------------------
(* Ownership of the slots *)

(* Giving rx_slot back, wherever the esp-mqtt task does it. *)
LEMMA GiveBackRxSlots ==
  ASSUME TypeOK, SlotsConserved, GiveBackRx, UNCHANGED <<ready_slots, slot>>,
         mqtt_pc # "notify"
  PROVE  SlotsConserved'
<1>1. CASE rx_slot = NoSlot
  BY <1>1 DEF GiveBackRx, SlotsConserved, Filling, Handling
<1>2. CASE rx_slot # NoSlot
  <2>1. rx_slot \in Slots /\ rx_slot \notin Range(free_slots) /\ free_slots \in Seq(Slots)
    BY <1>2 DEF TypeOK, SlotsConserved, Filling
  <2>2. free_slots' = Append(free_slots, rx_slot)
    BY <1>2, <2>1, SendFits DEF GiveBackRx, SlotsConserved
  <2>3. Range(free_slots') = Range(free_slots) \cup {rx_slot} /\ IsInjective(free_slots')
    BY <2>1, <2>2, AppendDistinct DEF SlotsConserved
  <2>4. Filling = {rx_slot} /\ Filling' = {} /\ Handling' = Handling
    BY <1>2 DEF GiveBackRx, Filling, Handling
  <2> QED BY <2>3, <2>4 DEF SlotsConserved
<1> QED BY <1>1, <1>2

(* Nothing moves. *)
LEMMA SlotsStay ==
  ASSUME SlotsConserved, UNCHANGED <<free_slots, ready_slots, slot, rx_slot>>,
         mqtt_pc = mqtt_pc' \/ (mqtt_pc # "notify" /\ mqtt_pc' # "notify")
  PROVE  SlotsConserved'
BY DEF SlotsConserved, Filling, Handling

LEMMA SlotsStep ==
  TypeOK /\ ControlOK /\ SlotsConserved /\ [Next]_vars => SlotsConserved'
<1> SUFFICES ASSUME TypeOK, ControlOK, SlotsConserved, [Next]_vars
             PROVE  SlotsConserved'
  OBVIOUS
<1>1. ASSUME NEW r \in Requests, NEW len \in EventLengths(r, 0), FirstFragment(r, len)
      PROVE  SlotsConserved'
  BY <1>1, GiveBackRxSlots DEF FirstFragment, taskVars
<1>2. ASSUME NEW len \in EventLengths(rx.req, rx.off), rx # NoMessage, NextFragment(len)
      PROVE  SlotsConserved'
  BY <1>2, SlotsStay DEF NextFragment, taskVars
<1>3. ASSUME DropRequest PROVE SlotsConserved'
  BY <1>3, SlotsStay DEF DropRequest, taskVars
<1>4. ASSUME StartRequest PROVE SlotsConserved'
  <2>1. free_slots \in Seq(Slots) /\ free_slots # <<>> /\ IsInjective(free_slots)
    BY <1>4 DEF StartRequest, TypeOK, SlotsConserved
  <2>2. /\ Head(free_slots) \in Slots
        /\ Head(free_slots) \in Range(free_slots)
        /\ Range(free_slots') = Range(free_slots) \ {Head(free_slots)}
        /\ IsInjective(free_slots')
    BY <1>4, <2>1, TailDistinct DEF StartRequest
  <2>3. Filling = {} /\ Filling' = {Head(free_slots)} /\ Handling' = Handling
    BY <1>4, <2>2, SlotsAssumption DEF StartRequest, ControlOK, Filling, Handling, taskVars
  <2>4. UNCHANGED ready_slots
    BY <1>4 DEF StartRequest
  <2> QED BY <2>2, <2>3, <2>4 DEF SlotsConserved
<1>5. ASSUME OtherMessage PROVE SlotsConserved'
  BY <1>5, GiveBackRxSlots DEF OtherMessage, taskVars
<1>6. ASSUME Submit PROVE SlotsConserved'
  <2>1. /\ ready_slots \in Seq(Slots) /\ rx_slot \in Slots
        /\ rx_slot # NoSlot /\ Filling = {rx_slot}
    BY <1>6, SlotsAssumption DEF Submit, TypeOK, ControlOK, Filling
  <2>2. rx_slot \notin Range(ready_slots) /\ IsInjective(ready_slots)
    BY <2>1 DEF SlotsConserved
  <2>3. ready_slots' = Append(ready_slots, rx_slot)
    BY <1>6, <2>1, <2>2, SendFits DEF Submit
  <2>4. Range(ready_slots') = Range(ready_slots) \cup {rx_slot} /\ IsInjective(ready_slots')
    BY <2>1, <2>2, <2>3, AppendDistinct
  <2>5. Filling' = {} /\ Handling' = Handling /\ UNCHANGED free_slots
    BY <1>6 DEF Submit, Filling, Handling, taskVars
  <2> QED BY <2>1, <2>4, <2>5 DEF SlotsConserved
<1>7. ASSUME Notify PROVE SlotsConserved'
  BY <1>7 DEF Notify, taskVars, SlotsConserved, Filling, Handling
<1>8. ASSUME Connected PROVE SlotsConserved'
  BY <1>8, SlotsStay DEF Connected, mqttVars, taskVars
<1>9. ASSUME Disconnected PROVE SlotsConserved'
  BY <1>9, GiveBackRxSlots DEF Disconnected, taskVars
<1>10. ASSUME StopClient PROVE SlotsConserved'
  BY <1>10, SlotsStay DEF StopClient, taskVars
<1>11. ASSUME Wake PROVE SlotsConserved'
  BY <1>11, SlotsStay DEF Wake, mqttVars
<1>12. ASSUME TakeReady PROVE SlotsConserved'
  <2>1. CASE ready_slots = <<>>
    BY <1>12, <2>1, SlotsStay DEF TakeReady, mqttVars
  <2>2. CASE ready_slots # <<>>
    <3>1. /\ Head(ready_slots) \in Slots
          /\ Head(ready_slots) \in Range(ready_slots)
          /\ Range(Tail(ready_slots)) = Range(ready_slots) \ {Head(ready_slots)}
          /\ IsInjective(Tail(ready_slots))
      BY <2>2, TailDistinct DEF TypeOK, SlotsConserved
    <3>2. Handling = {} /\ Handling' = {Head(ready_slots)} /\ Filling' = Filling
      BY <1>12, <2>2, <3>1, SlotsAssumption
      DEF TakeReady, ControlOK, Filling, Handling, mqttVars
    <3>3. ready_slots' = Tail(ready_slots) /\ UNCHANGED free_slots
      BY <1>12, <2>2 DEF TakeReady
    <3> QED BY <3>1, <3>2, <3>3 DEF SlotsConserved
  <2> QED BY <2>1, <2>2
<1>13. ASSUME Handle PROVE SlotsConserved'
  BY <1>13, SlotsStay DEF Handle, mqttVars
<1>14. ASSUME GiveBack PROVE SlotsConserved'
  <2>1. /\ free_slots \in Seq(Slots) /\ slot \in Slots
        /\ slot # NoSlot /\ Handling = {slot}
    BY <1>14 DEF GiveBack, TypeOK, ControlOK, Handling
  <2>2. slot \notin Range(free_slots) /\ IsInjective(free_slots)
    BY <2>1 DEF SlotsConserved
  <2>3. free_slots' = Append(free_slots, slot)
    BY <1>14, <2>1, <2>2, SendFits DEF GiveBack
  <2>4. Range(free_slots') = Range(free_slots) \cup {slot} /\ IsInjective(free_slots')
    BY <2>1, <2>2, <2>3, AppendDistinct
  <2>5. Handling' = {} /\ Filling' = Filling /\ UNCHANGED ready_slots
    BY <1>14 DEF GiveBack, Filling, Handling, mqttVars
  <2> QED BY <2>1, <2>4, <2>5 DEF SlotsConserved
<1>15. ASSUME Stop PROVE SlotsConserved'
  BY <1>15, SlotsStay DEF Stop, mqttVars, taskVars
<1>16. ASSUME UNCHANGED vars PROVE SlotsConserved'
  BY <1>16, SlotsStay DEF vars, mqttVars, taskVars
<1> QED
  BY <1>1, <1>2, <1>3, <1>4, <1>5, <1>6, <1>7, <1>8, <1>9, <1>10, <1>11, <1>12,
     <1>13, <1>14, <1>15, <1>16 DEF Next, MqttTask, RequestTask

--------------------------------------------------------------------------------
(* The contents of the slots *)

(* Only a slot outside the pipeline is written to. *)
LEMMA PipelineContent ==
  ASSUME NEW P, NEW x, x \notin P, P \subseteq Slots, slots \in [Slots -> Slot],
         \A s \in P : Complete(slots[s]), NEW c,
         slots' = [slots EXCEPT ![x] = c]
  PROVE  \A s \in P : Complete(slots'[s])
<1> TAKE s \in P
<1>1. slots'[s] = slots[s]
  OBVIOUS
<1> QED BY <1>1

LEMMA PipelineSlots ==
  ASSUME TypeOK
  PROVE  Range(ready_slots) \cup Handling \subseteq Slots
BY RangeOfSeq DEF TypeOK, Handling

LEMMA ContentStep ==
  TypeOK /\ ControlOK /\ SlotsConserved /\ ContentOK /\ [Next]_vars => ContentOK'
<1> SUFFICES ASSUME TypeOK, ControlOK, SlotsConserved, ContentOK, [Next]_vars
             PROVE  ContentOK'
  OBVIOUS
<1> USE DEF ContentOK
<1>1. ASSUME NEW r \in Requests, NEW len \in EventLengths(r, 0), FirstFragment(r, len)
      PROVE  ContentOK'
  BY <1>1 DEF FirstFragment, taskVars, Handling
<1>2. ASSUME NEW len \in EventLengths(rx.req, rx.off), rx # NoMessage, NextFragment(len)
      PROVE  ContentOK'
  <2>1. /\ rx.req \in Requests /\ rx.off \in Nat /\ rx.off < Msg[rx.req].size
        /\ mqtt_pc = "idle" /\ UNCHANGED <<ready_slots, rx_slot, slot>>
    BY <1>2 DEF NextFragment, ControlOK, TypeOK, taskVars
  <2>2. /\ len \in Nat /\ rx.off + len \in Nat /\ rx.off + len <= Msg[rx.req].size
        /\ Msg[rx.req].size \in Nat
        /\ LastEvent(rx.req, rx.off, len) => rx.off + len = Msg[rx.req].size
    BY <2>1, MsgShape, EventFits
  <2>3. CASE rx_slot = NoSlot
    BY <1>2, <2>1, <2>3 DEF NextFragment, Handling
  <2>4. CASE rx_slot # NoSlot
    <3> DEFINE c == Copied(slots[rx_slot], rx.req, rx.off, len)
    <3>1. rx_slot \in Slots /\ Filling = {rx_slot} /\ slots[rx_slot] \in Slot
      BY <2>1, <2>4 DEF TypeOK, Filling
    <3>2. slots' = [slots EXCEPT ![rx_slot] = c]
      BY <1>2, <2>4 DEF NextFragment
    <3>3. c \in Slot /\ Holds(c, rx.req, rx.off + len)
      BY <1>2, <2>1, <2>2, <2>4, <3>1, CopiedSlot
    <3> HIDE DEF c
    <3>4. slots'[rx_slot] = c
      BY <3>1, <3>2 DEF TypeOK
    <3>5. \A s \in Range(ready_slots) \cup Handling : Complete(slots'[s])
      <4>1. rx_slot \notin Range(ready_slots) \cup Handling
        BY <3>1 DEF SlotsConserved
      <4> QED BY <3>2, <4>1, PipelineContent, PipelineSlots DEF TypeOK
    <3>6. CASE LastEvent(rx.req, rx.off, len)
      <4>1. Complete(c)
        BY <2>1, <2>2, <3>3, <3>6 DEF Complete, Holds, FieldsOf
      <4>2. mqtt_pc' = "submit"
        BY <1>2, <2>4, <3>6 DEF NextFragment
      <4> QED BY <2>1, <3>4, <3>5, <4>1, <4>2 DEF Handling
    <3>7. CASE ~LastEvent(rx.req, rx.off, len)
      <4>1. mqtt_pc' = "idle" /\ rx' = [req |-> rx.req, off |-> rx.off + len, len |-> 0]
        BY <1>2, <2>1, <2>2, <2>4, <3>7 DEF NextFragment, LastEvent, ReceivedUpTo
      <4> QED BY <2>1, <3>3, <3>4, <3>5, <4>1 DEF Handling
    <3> QED BY <3>6, <3>7
  <2> QED BY <2>3, <2>4
<1>3. ASSUME DropRequest PROVE ContentOK'
  BY <1>3 DEF DropRequest, ControlOK, taskVars, Handling
<1>4. ASSUME StartRequest PROVE ContentOK'
  <2> DEFINE x == Head(free_slots)
             c == Copied(Opened(slots[x], rx.req), rx.req, 0, rx.len)
  <2>1. /\ rx.req \in Requests /\ rx.len \in Nat /\ Msg[rx.req].size \in Nat
        /\ 0 + rx.len <= Msg[rx.req].size /\ 0 + rx.len = rx.len
        /\ LastEvent(rx.req, 0, rx.len) => rx.len = Msg[rx.req].size
    BY <1>4, MsgShape, EventFits DEF StartRequest, ControlOK, TypeOK
  <2>2. x \in Slots /\ x \in Range(free_slots)
    BY <1>4, TailDistinct DEF StartRequest, TypeOK, SlotsConserved
  <2>3. c \in Slot /\ Holds(c, rx.req, rx.len)
    <3>1. /\ Opened(slots[x], rx.req) \in Slot
          /\ Holds(Opened(slots[x], rx.req), rx.req, 0)
      BY <2>1, <2>2, OpenedSlot DEF TypeOK
    <3> QED BY <2>1, <3>1, CopiedSlot
  <2>4. slots' = [slots EXCEPT ![x] = c] /\ UNCHANGED <<ready_slots, slot>> /\ rx_slot' = x
    BY <1>4 DEF StartRequest, taskVars
  <2>5. x \notin Range(ready_slots) \cup Handling
    BY <2>2 DEF SlotsConserved
  <2>6. mqtt_pc' = IF LastEvent(rx.req, 0, rx.len) THEN "submit" ELSE "idle"
    BY <1>4 DEF StartRequest
  <2>7. rx' = ReceivedUpTo(rx.req, rx.len)
    BY <1>4 DEF StartRequest
  <2> HIDE DEF x, c
  <2>8. slots'[x] = c
    BY <2>2, <2>4 DEF TypeOK
  <2>9. \A s \in Range(ready_slots) \cup Handling : Complete(slots'[s])
    BY <2>4, <2>5, PipelineContent, PipelineSlots DEF TypeOK
  <2>10. CASE LastEvent(rx.req, 0, rx.len)
    <3>1. Complete(c)
      BY <2>1, <2>3, <2>10 DEF Complete, Holds, FieldsOf
    <3> QED BY <2>4, <2>6, <2>8, <2>9, <2>10, <3>1 DEF Handling
  <2>11. CASE ~LastEvent(rx.req, 0, rx.len)
    <3>1. rx' = [req |-> rx.req, off |-> rx.len, len |-> 0]
      BY <2>1, <2>7, <2>11 DEF LastEvent, ReceivedUpTo
    <3> QED BY <2>3, <2>4, <2>6, <2>8, <2>9, <2>11, <3>1 DEF Handling
  <2> QED BY <2>10, <2>11
<1>5. ASSUME OtherMessage PROVE ContentOK'
  BY <1>5 DEF OtherMessage, taskVars, Handling
<1>6. ASSUME Submit PROVE ContentOK'
  <2>1. /\ ready_slots \in Seq(Slots) /\ rx_slot \in Slots /\ rx_slot # NoSlot
        /\ rx_slot \notin Range(ready_slots) /\ IsInjective(ready_slots)
    BY <1>6, SlotsAssumption DEF Submit, TypeOK, ControlOK, SlotsConserved, Filling
  <2>2. ready_slots' = Append(ready_slots, rx_slot)
    BY <1>6, <2>1, SendFits DEF Submit
  <2>3. Range(ready_slots') = Range(ready_slots) \cup {rx_slot}
    BY <2>1, <2>2, AppendDistinct
  <2>4. Handling' = Handling /\ UNCHANGED slots /\ mqtt_pc' = "notify"
    BY <1>6 DEF Submit, taskVars, Handling
  <2>5. Complete(slots[rx_slot])
    BY <1>6 DEF Submit
  <2> QED BY <2>3, <2>4, <2>5
<1>7. ASSUME Notify PROVE ContentOK'
  BY <1>7 DEF Notify, taskVars, Handling
<1>8. ASSUME Connected PROVE ContentOK'
  BY <1>8 DEF Connected, mqttVars, taskVars, Handling
<1>9. ASSUME Disconnected PROVE ContentOK'
  BY <1>9 DEF Disconnected, taskVars, Handling
<1>10. ASSUME StopClient PROVE ContentOK'
  BY <1>10 DEF StopClient, taskVars, Handling
<1>11. ASSUME Wake PROVE ContentOK'
  BY <1>11 DEF Wake, mqttVars, Handling
<1>12. ASSUME TakeReady PROVE ContentOK'
  <2>1. CASE ready_slots = <<>>
    BY <1>12, <2>1 DEF TakeReady, mqttVars, Handling
  <2>2. CASE ready_slots # <<>>
    <3>1. /\ Head(ready_slots) \in Range(ready_slots)
          /\ Range(Tail(ready_slots)) = Range(ready_slots) \ {Head(ready_slots)}
      BY <2>2, TailDistinct DEF TypeOK, SlotsConserved
    <3>2. Range(ready_slots') \cup Handling' \subseteq Range(ready_slots)
      BY <1>12, <2>2, <3>1 DEF TakeReady, Handling
    <3> QED BY <1>12, <3>2 DEF TakeReady, mqttVars
  <2> QED BY <2>1, <2>2
<1>13. ASSUME Handle PROVE ContentOK'
  BY <1>13 DEF Handle, mqttVars, Handling
<1>14. ASSUME GiveBack PROVE ContentOK'
  BY <1>14 DEF GiveBack, mqttVars, Handling
<1>15. ASSUME Stop PROVE ContentOK'
  BY <1>15 DEF Stop, mqttVars, taskVars, Handling
<1>16. ASSUME UNCHANGED vars PROVE ContentOK'
  BY <1>16 DEF vars, mqttVars, taskVars, Handling
<1> QED
  BY <1>1, <1>2, <1>3, <1>4, <1>5, <1>6, <1>7, <1>8, <1>9, <1>10, <1>11, <1>12,
     <1>13, <1>14, <1>15, <1>16 DEF Next, MqttTask, RequestTask

--------------------------------------------------------------------------------
(* The inductive invariant: who owns a slot decides which writes reach it, *)
(* and what a slot holds decides what its answer says.                     *)
IInv == TypeOK /\ ControlOK /\ SlotsConserved /\ ContentOK

LEMMA InitIInv == Init => IInv
<1> SUFFICES ASSUME Init
             PROVE  IInv
  OBVIOUS
<1> DEFINE n == Cardinality(Slots)
<1>1. /\ n \in Nat /\ IsFiniteSet(1 .. n) /\ Cardinality(1 .. n) = n
      /\ IsFiniteSet(Slots)
  BY SlotsAssumption, FS_CardinalityType, FS_Interval
<1>2. /\ free_slots \in [1 .. n -> Slots] /\ IsInjective(free_slots)
      /\ DOMAIN free_slots = 1 .. n
  BY DEF Init
<1>3. free_slots \in Seq(Slots)
  BY <1>1, <1>2
<1>4. Range(free_slots) = Slots
  <2>1. free_slots \in Injection(1 .. n, Slots)
    BY <1>2 DEF Injection, IsInjective
  <2>2. free_slots \in Surjection(1 .. n, Slots)
    BY <1>1, <2>1, FS_Injection
  <2> QED BY <1>2, <2>2 DEF Surjection, Range
<1>5. TypeOK
  <2>1. EmptySlot \in Slot
    <3>1. [i \in 1 .. PayloadMax |-> NoRequest] \in [1 .. PayloadMax -> Request]
      BY DEF Request
    <3> QED BY <3>1, BoundsAssumption DEF EmptySlot, Slot, Request
  <2>2. NoTally \in Tally /\ NoMessage \in [req: Request, off: Nat, len: Nat]
    BY DEF NoTally, Tally, NoMessage, Request
  <2>3. tally \in [Requests -> Tally] /\ slots \in [Slots -> Slot]
    BY <2>1, <2>2 DEF Init
  <2>4. ready_slots \in Seq(Slots) /\ sent \subseteq Reply
    BY DEF Init
  <2>5. rx \in [req: Request, off: Nat, len: Nat]
    BY <2>2 DEF Init
  <2> QED BY <1>3, <2>3, <2>4, <2>5 DEF Init, TypeOK
<1>6. ControlOK
  BY DEF Init, ControlOK
<1>7. /\ IsInjective(ready_slots) /\ Range(ready_slots) = {}
      /\ Filling = {} /\ Handling = {}
  BY DEF Init, IsInjective, Range, Filling, Handling
<1>8. SlotsConserved
  BY <1>2, <1>4, <1>7 DEF SlotsConserved
<1>9. ContentOK
  BY <1>7 DEF Init, ContentOK
<1> QED BY <1>5, <1>6, <1>8, <1>9 DEF IInv

LEMMA Inductive == Spec => []IInv
<1>1. Init => IInv
  BY InitIInv
<1>2. IInv /\ [Next]_vars => IInv'
  BY TypeStep, ControlStep, SlotsStep, ContentStep DEF IInv
<1> QED BY <1>1, <1>2, PTL DEF Spec

(* The esp-mqtt task writes to slots outside the pipeline only. *)
LEMMA StartWritesOutside ==
  ASSUME IInv, StartRequest
  PROVE  \A s \in Range(ready_slots) \cup Handling : slots'[s] = slots[s]
<1>1. TypeOK /\ SlotsConserved
  BY DEF IInv
<1>2. Head(free_slots) \in Range(free_slots)
  BY <1>1, TailDistinct DEF StartRequest, TypeOK, SlotsConserved
<1>3. Head(free_slots) \notin Range(ready_slots) \cup Handling
  BY <1>1, <1>2 DEF SlotsConserved
<1> QED BY <1>1, <1>3, PipelineSlots DEF StartRequest, TypeOK

LEMMA FragmentWritesOutside ==
  ASSUME IInv, NEW len, NextFragment(len)
  PROVE  \A s \in Range(ready_slots) \cup Handling : slots'[s] = slots[s]
<1>1. TypeOK /\ SlotsConserved
  BY DEF IInv
<1>2. CASE rx_slot = NoSlot
  BY <1>2 DEF NextFragment
<1>3. CASE rx_slot # NoSlot
  <2>1. rx_slot \notin Range(ready_slots) \cup Handling
    BY <1>1, <1>3 DEF NextFragment, SlotsConserved, Filling
  <2> QED BY <1>1, <1>3, <2>1, PipelineSlots DEF NextFragment, TypeOK
<1> QED BY <1>2, <1>3

(* Every variable keeps its type: no length exceeds its buffer, no index   *)
(* is used that names no slot.                                             *)
THEOREM TypeCorrect == Spec => []TypeOK
BY Inductive, PTL DEF IInv

(* No slot is ever lost, queued twice or owned by both tasks.              *)
THEOREM SlotsAreConserved == Spec => []SlotsConserved
BY Inductive, PTL DEF IInv

(* No wake-up of the request task is lost. *)
THEOREM NoWakeupIsLost == Spec => []NoLostWakeup
<1>1. Init => NoLostWakeup
  BY DEF Init, NoLostWakeup
<1>2. IInv /\ NoLostWakeup /\ [Next]_vars => NoLostWakeup'
  <2> SUFFICES ASSUME IInv, NoLostWakeup, [Next]_vars
               PROVE  NoLostWakeup'
    OBVIOUS
  <2> USE DEF NoLostWakeup
  <2>1. ASSUME NEW r \in Requests, NEW len \in EventLengths(r, 0), FirstFragment(r, len)
        PROVE  NoLostWakeup'
    BY <2>1 DEF FirstFragment, taskVars
  <2>2. ASSUME NEW len \in EventLengths(rx.req, rx.off), NextFragment(len)
        PROVE  NoLostWakeup'
    BY <2>2 DEF NextFragment, taskVars
  <2>3. ASSUME DropRequest \/ StartRequest PROVE NoLostWakeup'
    BY <2>3 DEF DropRequest, StartRequest, taskVars
  <2>4. ASSUME OtherMessage PROVE NoLostWakeup'
    BY <2>4 DEF OtherMessage, taskVars
  <2>5. ASSUME Submit PROVE NoLostWakeup'
    BY <2>5 DEF Submit
  <2>6. ASSUME Notify PROVE NoLostWakeup'
    BY <2>6 DEF Notify
  <2>7. ASSUME Connected \/ Disconnected \/ StopClient \/ Stop PROVE NoLostWakeup'
    BY <2>7 DEF Connected, Disconnected, StopClient, Stop, taskVars, mqttVars
  <2>8. ASSUME Wake PROVE NoLostWakeup'
    BY <2>8 DEF Wake
  <2>9. ASSUME TakeReady PROVE NoLostWakeup'
    BY <2>9 DEF TakeReady
  <2>10. ASSUME Handle \/ GiveBack PROVE NoLostWakeup'
    BY <2>10 DEF Handle, GiveBack
  <2>11. ASSUME UNCHANGED vars PROVE NoLostWakeup'
    BY <2>11 DEF vars, mqttVars, taskVars
  <2> QED BY <2>1, <2>2, <2>3, <2>4, <2>5, <2>6, <2>7, <2>8, <2>9, <2>10, <2>11
          DEF Next, MqttTask, RequestTask
<1> QED BY <1>1, <1>2, Inductive, PTL DEF Spec

(* A complete slot yields only the answer its request may get. *)
LEMMA CompleteAnswers ==
  ASSUME NEW s \in Slot, Complete(s), NEW ok \in Outcomes(s)
  PROVE  ReplyMatches(s.method, Answer(s, ok))
<1> DEFINE r == s.method
           a == Answer(s, ok)
<1>1. /\ r \in Requests /\ FieldsOf(s, r)
      /\ r # NoRequest /\ Msg[r].size \in Nat
      /\ Msg[r].topic \in {"up", "foreign", "none"} /\ Msg[r].known \in BOOLEAN
  BY MsgShape DEF Complete, Holds
<1>2. /\ a.correlation = IF Msg[r].corr THEN r ELSE NoRequest
      /\ a.topic = IF Msg[r].topic = "up" THEN r ELSE NoRequest
  BY <1>1 DEF Answer, FieldsOf
<1>3. ASSUME a.ok
      PROVE  /\ Msg[r].known /\ Msg[r].size <= PayloadMax
             /\ Msg[r].size > 0 => Msg[r].object
             /\ a.params = [i \in 1 .. Msg[r].size |-> r]
  <2>1. ~s.too_large /\ Msg[r].known /\ Parses(s) /\ ok
    BY <1>3 DEF Outcomes, Answer
  <2>2. Msg[r].size <= PayloadMax
    BY <1>1, <2>1, BoundsAssumption DEF FieldsOf
  <2>3. s.payload_len = Msg[r].size /\ \A i \in 1 .. Msg[r].size : s.payload[i] = r
    BY <2>1 DEF Complete, Holds
  <2>4. Params(s) = [i \in 1 .. Msg[r].size |-> r]
    <3>1. /\ SubSeq(s.payload, 1, Msg[r].size) \in Seq({r})
          /\ Len(SubSeq(s.payload, 1, Msg[r].size)) = Msg[r].size
      <4>1. \A i \in 1 .. Msg[r].size : s.payload[i] \in {r}
        BY <2>3
      <4>2. Msg[r].size \in Int /\ (1 <= Msg[r].size \/ Msg[r].size = 0)
        BY <1>1
      <4> QED BY <4>1, <4>2, SubSeqProperties
    <3> QED BY <1>1, <2>3, <3>1, LenProperties, ElementOfSeq DEF Params
  <2>5. ASSUME Msg[r].size > 0
        PROVE  Msg[r].object
    <3>1. PICK q \in Requests : Msg[q].object /\ Params(s) = [i \in 1 .. Msg[q].size |-> q]
      BY <2>1, <2>3, <2>5, <1>1 DEF Parses
    <3>2. Params(s)[1] = r /\ 1 \in DOMAIN Params(s)
      BY <1>1, <2>4, <2>5
    <3>3. Params(s)[1] = q
      BY <3>1, <3>2
    <3> QED BY <3>1, <3>2, <3>3
  <2>6. a.params = Params(s)
    BY <2>1 DEF Answer
  <2> QED BY <2>1, <2>2, <2>4, <2>5, <2>6
<1> QED BY <1>2, <1>3 DEF ReplyMatches

(* Answers never mix requests, whatever slot, fragments and history. *)
THEOREM AnswersAreOwn == Spec => []AnswersMatch
<1>1. Init => AnswersMatch
  BY DEF Init, AnswersMatch
<1>2. IInv /\ AnswersMatch /\ [Next]_vars => AnswersMatch'
  <2> SUFFICES ASSUME IInv, AnswersMatch, [Next]_vars
               PROVE  AnswersMatch'
    OBVIOUS
  <2>1. CASE UNCHANGED sent
    BY <2>1 DEF AnswersMatch
  <2>2. CASE Handle
    <3>1. slot \in Slots /\ slots[slot] \in Slot /\ Complete(slots[slot])
      BY <2>2 DEF Handle, IInv, TypeOK, ControlOK, ContentOK, Handling
    <3>2. PICK ok \in Outcomes(slots[slot]) : Respond(slots[slot], ok)
      BY <2>2 DEF Handle
    <3> DEFINE a == Answer(slots[slot], ok)
    <3>3. a.method = slots[slot].method
      BY DEF Answer
    <3>4. ReplyMatches(a.method, a)
      BY <3>1, <3>3, CompleteAnswers
    <3>5. sent' \subseteq sent \cup {a}
      BY <3>2 DEF Respond
    <3> HIDE DEF a
    <3> QED BY <3>4, <3>5 DEF AnswersMatch
  <2> QED
    BY <2>1, <2>2
    DEF Next, MqttTask, RequestTask, FirstFragment, NextFragment, DropRequest,
        StartRequest, OtherMessage, Submit, Notify, Connected, Disconnected, StopClient,
        Stop, Wake, TakeReady, GiveBack, history, vars
<1> QED BY <1>1, <1>2, Inductive, PTL DEF Spec

(* Requests are dropped for lack of slots only. *)
THEOREM DropsAreJustified == Spec => DropOnlyWhenBusy
<1>1. IInv /\ [Next]_vars =>
        \A r \in Requests : tally'[r].dropped # tally[r].dropped =>
          Slots = Range(ready_slots) \cup Handling
  <2> SUFFICES ASSUME IInv, [Next]_vars, NEW r \in Requests,
                      tally'[r].dropped # tally[r].dropped
               PROVE  Slots = Range(ready_slots) \cup Handling
    OBVIOUS
  <2>1. DropRequest
    <3>1. ASSUME NEW q, NEW field \in {"accepted", "answered", "unsent"}, Count(q, field)
          PROVE  FALSE
      BY <3>1 DEF Count, IInv, TypeOK, Tally
    <3>2. ~Submit
      BY <3>1 DEF Submit
    <3>3. ~Handle
      BY <3>1 DEF Handle, Respond
    <3> QED
      BY <3>2, <3>3
      DEF Next, MqttTask, RequestTask, FirstFragment, NextFragment, StartRequest,
          OtherMessage, Notify, Connected, Disconnected, StopClient, Stop, Wake,
          TakeReady, GiveBack, history, vars
  <2>2. free_slots = <<>> /\ Filling = {}
    BY <2>1 DEF DropRequest, IInv, ControlOK, Filling
  <2>3. Range(free_slots) = {}
    BY <2>2 DEF Range
  <2> QED BY <2>2, <2>3 DEF IInv, SlotsConserved
<1> QED BY <1>1, Inductive, PTL DEF Spec, DropOnlyWhenBusy

--------------------------------------------------------------------------------
(* Counting the requests in the pipeline *)

(* The places of q whose slot holds request r, given the methods m. *)
Places(q, m, r) == {i \in DOMAIN q : m[q[i]].method = r}

LEMMA PlacesFinite ==
  ASSUME NEW S, NEW q \in Seq(S), NEW m, NEW r
  PROVE  IsFiniteSet(Places(q, m, r)) /\ Cardinality(Places(q, m, r)) \in Nat
<1>1. IsFiniteSet(1 .. Len(q)) /\ DOMAIN q = 1 .. Len(q)
  BY LenProperties, FS_Interval
<1>2. Places(q, m, r) \in SUBSET (1 .. Len(q))
  BY <1>1 DEF Places
<1> QED BY <1>1, <1>2, FS_Subset, FS_CardinalityType

LEMMA PlacesAppend ==
  ASSUME NEW S, NEW q \in Seq(S), NEW e \in S, NEW m, NEW r
  PROVE  Cardinality(Places(Append(q, e), m, r)) =
           Cardinality(Places(q, m, r)) + (IF m[e].method = r THEN 1 ELSE 0)
<1>1. /\ DOMAIN q = 1 .. Len(q) /\ DOMAIN Append(q, e) = 1 .. Len(q) + 1
      /\ Len(q) \in Nat
      /\ \A i \in 1 .. Len(q) : Append(q, e)[i] = q[i]
      /\ Append(q, e)[Len(q) + 1] = e
  BY AppendProperties, LenProperties
<1>2. IsFiniteSet(Places(q, m, r)) /\ Cardinality(Places(q, m, r)) \in Nat
  BY PlacesFinite
<1>3. CASE m[e].method = r
  <2>1. Places(Append(q, e), m, r) = Places(q, m, r) \cup {Len(q) + 1}
    BY <1>1, <1>3 DEF Places
  <2>2. Len(q) + 1 \notin Places(q, m, r)
    BY <1>1 DEF Places
  <2> QED BY <1>2, <1>3, <2>1, <2>2, FS_AddElement
<1>4. CASE m[e].method # r
  <2>1. Places(Append(q, e), m, r) = Places(q, m, r)
    BY <1>1, <1>4 DEF Places
  <2> QED BY <1>2, <1>4, <2>1
<1> QED BY <1>3, <1>4

LEMMA PlacesTail ==
  ASSUME NEW S, NEW q \in Seq(S), q # <<>>, NEW m, NEW r
  PROVE  Cardinality(Places(q, m, r)) =
           Cardinality(Places(Tail(q), m, r)) + (IF m[Head(q)].method = r THEN 1 ELSE 0)
<1>1. /\ DOMAIN q = 1 .. Len(q) /\ DOMAIN Tail(q) = 1 .. Len(q) - 1
      /\ Len(q) \in Nat \ {0} /\ Head(q) = q[1] /\ Tail(q) \in Seq(S)
      /\ \A i \in 1 .. Len(q) - 1 : Tail(q)[i] = q[i + 1]
  BY HeadTailProperties, LenProperties, EmptySeq
<1>2. /\ IsFiniteSet(Places(q, m, r)) /\ Cardinality(Places(q, m, r)) \in Nat
      /\ IsFiniteSet(Places(Tail(q), m, r)) /\ Cardinality(Places(Tail(q), m, r)) \in Nat
  BY <1>1, PlacesFinite
<1> DEFINE A == Places(Tail(q), m, r)
           B == Places(q, m, r) \ {1}
           shift == [i \in A |-> i + 1]
<1>3. shift \in Bijection(A, B)
  <2>1. ASSUME NEW i \in A
        PROVE  i \in Nat /\ i + 1 \in B
    BY <1>1 DEF Places
  <2>2. ASSUME NEW k \in B
        PROVE  k - 1 \in A /\ (k - 1) + 1 = k
    <3>1. k \in 1 .. Len(q) /\ k # 1 /\ m[q[k]].method = r
      BY <1>1 DEF Places
    <3>2. k - 1 \in 1 .. Len(q) - 1 /\ (k - 1) + 1 = k
      BY <1>1, <3>1
    <3> QED BY <1>1, <3>1, <3>2 DEF Places
  <2>3. shift \in Injection(A, B)
    BY <2>1 DEF Injection, IsInjective
  <2>4. shift \in Surjection(A, B)
    BY <2>1, <2>2 DEF Surjection
  <2> QED BY <2>3, <2>4 DEF Bijection
<1>4. Cardinality(A) = Cardinality(B)
  BY <1>2, <1>3, FS_Bijection DEF ExistsBijection
<1>5. Cardinality(B) = IF 1 \in Places(q, m, r) THEN Cardinality(Places(q, m, r)) - 1
                                                ELSE Cardinality(Places(q, m, r))
  BY <1>2, FS_RemoveElement
<1>6. 1 \in Places(q, m, r) <=> m[Head(q)].method = r
  BY <1>1 DEF Places
<1> QED BY <1>2, <1>4, <1>5, <1>6

LEMMA PipelineCount ==
  ASSUME TypeOK, NEW r \in Requests
  PROVE  /\ InPipeline(r) = Cardinality(Places(ready_slots, slots, r))
             + (IF task_pc = "handle" /\ slots[slot].method = r THEN 1 ELSE 0)
         /\ InPipeline(r) \in Nat
<1>1. InPipeline(r) = Cardinality(Places(ready_slots, slots, r))
        + (IF task_pc = "handle" /\ slots[slot].method = r THEN 1 ELSE 0)
  BY DEF InPipeline, Places
<1>2. Cardinality(Places(ready_slots, slots, r)) \in Nat
  BY PlacesFinite DEF TypeOK
<1> QED BY <1>1, <1>2

(* Writing to a slot outside the pipeline changes no count. *)
LEMMA PipelineKept ==
  ASSUME IInv, NEW r \in Requests, UNCHANGED <<ready_slots, slot, task_pc>>,
         \A s \in Range(ready_slots) \cup Handling : slots'[s] = slots[s]
  PROVE  InPipeline(r)' = InPipeline(r)
<1>1. \A i \in DOMAIN ready_slots : slots'[ready_slots[i]] = slots[ready_slots[i]]
  BY DEF Range
<1>2. task_pc = "handle" => slots'[slot] = slots[slot]
  BY DEF IInv, ControlOK, Handling
<1> QED BY <1>1, <1>2 DEF InPipeline

(* Every accepted request is settled exactly once or still on its way. *)
THEOREM RequestsAreSettledOnce == Spec => []SettledOnce
<1>1. Init => SettledOnce
  <2> SUFFICES ASSUME Init, NEW r \in Requests
               PROVE  tally[r].accepted = tally[r].answered + tally[r].unsent + InPipeline(r)
    BY DEF SettledOnce
  <2>1. DOMAIN ready_slots = {} /\ task_pc = "wait"
    BY DEF Init
  <2>2. InPipeline(r) = 0
    BY <2>1, FS_EmptySet DEF InPipeline
  <2> QED BY <2>2 DEF Init, NoTally
<1>2. IInv /\ SettledOnce /\ [Next]_vars => SettledOnce'
  <2> SUFFICES ASSUME IInv, SettledOnce, [Next]_vars, NEW r \in Requests
               PROVE  (tally[r].accepted = tally[r].answered + tally[r].unsent + InPipeline(r))'
    BY DEF SettledOnce
  <2> DEFINE Settled == tally[r].accepted = tally[r].answered + tally[r].unsent + InPipeline(r)
  <2>a. /\ Settled /\ IInv /\ TypeOK /\ ControlOK /\ SlotsConserved /\ ContentOK
        /\ tally[r] \in Tally
    BY DEF SettledOnce, IInv, TypeOK
  <2>b. InPipeline(r) \in Nat
    BY <2>a, PipelineCount
  <2>c. tally[r].accepted \in Nat /\ tally[r].answered \in Nat /\ tally[r].unsent \in Nat
    BY <2>a DEF Tally
  <2>d. TypeOK'
    BY <2>a, TypeStep
  <2>e. InPipeline(r)' = Cardinality(Places(ready_slots', slots', r))
          + (IF task_pc' = "handle" /\ slots'[slot'].method = r THEN 1 ELSE 0)
    BY DEF InPipeline, Places
  <2>f. Cardinality(Places(ready_slots', slots', r)) \in Nat
    BY <2>d, PlacesFinite DEF TypeOK
  <2>1. ASSUME UNCHANGED <<slots, ready_slots, slot, task_pc, tally>> PROVE Settled'
    BY <2>a, <2>1 DEF InPipeline
  <2>2. ASSUME DropRequest PROVE Settled'
    <3>1. InPipeline(r)' = InPipeline(r)
      BY <2>2 DEF DropRequest, InPipeline, taskVars
    <3>2. /\ tally'[r].accepted = tally[r].accepted
          /\ tally'[r].answered = tally[r].answered /\ tally'[r].unsent = tally[r].unsent
      BY <2>2, <2>a DEF DropRequest, Count, TypeOK, Tally
    <3> QED BY <2>a, <3>1, <3>2
  <2>3. ASSUME StartRequest PROVE Settled'
    BY <2>3, <2>a, StartWritesOutside, PipelineKept DEF StartRequest, taskVars, history
  <2>4. ASSUME NEW len \in EventLengths(rx.req, rx.off), NextFragment(len) PROVE Settled'
    BY <2>4, <2>a, FragmentWritesOutside, PipelineKept DEF NextFragment, taskVars, history
  <2>5. ASSUME Submit PROVE Settled'
    <3> DEFINE q == slots[rx_slot].method
    <3>1. /\ rx_slot \in Slots /\ rx_slot # NoSlot /\ rx_slot \notin Range(ready_slots)
          /\ IsInjective(ready_slots) /\ ready_slots \in Seq(Slots) /\ q \in Requests
      BY <2>5, <2>a, SlotsAssumption
      DEF Submit, TypeOK, ControlOK, SlotsConserved, ContentOK, Complete, Filling
    <3>2. ready_slots' = Append(ready_slots, rx_slot)
      BY <2>5, <3>1, SendFits DEF Submit
    <3>3. Cardinality(Places(ready_slots', slots, r)) =
            Cardinality(Places(ready_slots, slots, r)) + (IF q = r THEN 1 ELSE 0)
      BY <3>1, <3>2, PlacesAppend
    <3>4. Cardinality(Places(ready_slots, slots, r)) \in Nat
      BY <3>1, PlacesFinite
    <3>5. InPipeline(r)' = InPipeline(r) + (IF q = r THEN 1 ELSE 0)
      <4>1. UNCHANGED <<slots, slot, task_pc>>
        BY <2>5 DEF Submit, taskVars
      <4> QED BY <2>a, <2>e, <3>3, <3>4, <4>1, PipelineCount
    <3>6. /\ tally'[r].accepted = tally[r].accepted + (IF q = r THEN 1 ELSE 0)
          /\ tally'[r].answered = tally[r].answered /\ tally'[r].unsent = tally[r].unsent
      BY <2>5, <2>a, <2>c, <3>1 DEF Submit, Count, TypeOK, Tally
    <3> QED BY <2>a, <2>b, <2>c, <3>5, <3>6
  <2>6. ASSUME Wake PROVE Settled'
    BY <2>6, <2>a DEF Wake, InPipeline, history
  <2>7. ASSUME TakeReady PROVE Settled'
    <3>1. CASE ready_slots = <<>>
      BY <2>7, <2>a, <3>1 DEF TakeReady, InPipeline, history
    <3>2. CASE ready_slots # <<>>
      <4>1. /\ ready_slots' = Tail(ready_slots) /\ slot' = Head(ready_slots)
            /\ task_pc = "drain" /\ task_pc' = "handle" /\ UNCHANGED <<slots, tally>>
        BY <2>7, <3>2 DEF TakeReady, history
      <4>2. Cardinality(Places(ready_slots, slots, r)) =
              Cardinality(Places(ready_slots', slots, r))
                + (IF slots[slot'].method = r THEN 1 ELSE 0)
        BY <2>a, <3>2, <4>1, PlacesTail DEF TypeOK
      <4>3. Cardinality(Places(ready_slots', slots', r)) \in Nat
        BY <2>f
      <4>4. InPipeline(r) = Cardinality(Places(ready_slots, slots, r)) + 0
        BY <2>a, <4>1, PipelineCount
      <4>5. InPipeline(r)' = Cardinality(Places(ready_slots', slots', r))
              + (IF slots[slot'].method = r THEN 1 ELSE 0)
        BY <2>e, <4>1
      <4>6. InPipeline(r)' = InPipeline(r)
        BY <4>1, <4>2, <4>3, <4>4, <4>5
      <4> QED BY <2>a, <4>1, <4>6
    <3> QED BY <3>1, <3>2
  <2>8. ASSUME Handle PROVE Settled'
    <3> DEFINE q == slots[slot].method
    <3>1. slot \in Slots /\ q \in Requests
      BY <2>8, <2>a DEF Handle, TypeOK, ControlOK, ContentOK, Complete, Handling
    <3>2. /\ task_pc = "handle" /\ task_pc' = "giveback"
          /\ UNCHANGED <<slots, ready_slots, slot>>
      BY <2>8 DEF Handle
    <3>3. Cardinality(Places(ready_slots, slots, r)) \in Nat
      BY <2>a, PlacesFinite DEF TypeOK
    <3>4. InPipeline(r) = InPipeline(r)' + (IF q = r THEN 1 ELSE 0)
      BY <2>a, <2>e, <3>2, <3>3, PipelineCount
    <3>5. PICK field \in {"answered", "unsent"} : Count(q, field)
      BY <2>8 DEF Handle, Respond
    <3>6. /\ tally'[r].accepted = tally[r].accepted
          /\ tally'[r].answered + tally'[r].unsent =
               tally[r].answered + tally[r].unsent + (IF q = r THEN 1 ELSE 0)
      <4>1. /\ tally \in [Requests -> Tally] /\ tally' = [tally EXCEPT ![q][field] = @ + 1]
        BY <2>a, <3>5 DEF Count, TypeOK
      <4>2. CASE field = "answered"
        BY <2>c, <3>1, <4>1, <4>2 DEF Tally
      <4>3. CASE field = "unsent"
        BY <2>c, <3>1, <4>1, <4>3 DEF Tally
      <4> QED BY <3>5, <4>2, <4>3
    <3>7. InPipeline(r)' \in Nat
      BY <2>e, <2>f
    <3> QED BY <2>a, <2>b, <2>c, <3>4, <3>6, <3>7
  <2>9. ASSUME GiveBack PROVE Settled'
    BY <2>9, <2>a DEF GiveBack, InPipeline, history
  <2> QED
    BY <2>1, <2>2, <2>3, <2>4, <2>5, <2>6, <2>7, <2>8, <2>9
    DEF Next, MqttTask, RequestTask, FirstFragment, OtherMessage, Notify, Connected,
        Disconnected, StopClient, Stop, vars, history, taskVars, mqttVars
<1> QED BY <1>1, <1>2, Inductive, PTL DEF Spec

--------------------------------------------------------------------------------
(* The detailed specification implements the abstract one *)

(* Putting a slot in front of a queue. *)
LEMMA ConsSeq ==
  ASSUME NEW S, NEW h \in S, NEW q \in Seq(S)
  PROVE  /\ <<h>> \o q \in Seq(S) /\ <<h>> \o q # <<>>
         /\ Len(<<h>> \o q) = Len(q) + 1
         /\ (<<h>> \o q)[1] = h
         /\ \A i \in 1 .. Len(q) : (<<h>> \o q)[i + 1] = q[i]
         /\ Head(<<h>> \o q) = h /\ Tail(<<h>> \o q) = q
         /\ \A e \in S : Append(<<h>> \o q, e) = <<h>> \o Append(q, e)
<1> DEFINE c == <<h>> \o q
<1>1. <<h>> \in Seq(S) /\ Len(<<h>>) = 1 /\ <<h>>[1] = h /\ Len(q) \in Nat
  BY LenProperties
<1>2. /\ c \in Seq(S) /\ Len(c) = 1 + Len(q)
      /\ \A i \in 1 .. 1 + Len(q) : c[i] = IF i <= 1 THEN <<h>>[i] ELSE q[i - 1]
  BY <1>1, ConcatProperties
<1> HIDE DEF c
<1>3. c[1] = h
  BY <1>1, <1>2
<1>4. ASSUME NEW i \in 1 .. Len(q) PROVE c[i + 1] = q[i]
  <2>1. i + 1 \in 1 .. 1 + Len(q) /\ ~(i + 1 <= 1) /\ (i + 1) - 1 = i
    BY <1>1
  <2> QED BY <1>2, <2>1
<1>5. c # <<>> /\ Head(c) = h
  BY <1>1, <1>2, <1>3, EmptySeq
<1>6. Tail(c) = q
  <2>1. /\ Tail(c) \in Seq(S) /\ Len(Tail(c)) = Len(q)
        /\ \A i \in 1 .. Len(q) : Tail(c)[i] = c[i + 1]
    BY <1>1, <1>2, <1>5, HeadTailProperties
  <2> QED BY <1>4, <2>1, SeqEqual
<1>7. ASSUME NEW e \in S PROVE Append(c, e) = <<h>> \o Append(q, e)
  <2>1. Append(c, e) = c \o <<e>> /\ Append(q, e) = q \o <<e>>
    BY <1>2, AppendIsConcat
  <2>2. <<e>> \in Seq(S)
    OBVIOUS
  <2> QED BY <1>1, <2>1, <2>2, ConcatAssociative DEF c
<1> QED BY <1>1, <1>2, <1>3, <1>4, <1>5, <1>6, <1>7 DEF c

(* The line is a queue of distinct slots, all of them in the pipeline. *)
LEMMA LineProperties ==
  ASSUME IInv
  PROVE  /\ Line \in Seq(Slots) /\ IsInjective(Line)
         /\ Range(Line) \subseteq Range(ready_slots) \cup Handling
<1>1. /\ ready_slots \in Seq(Slots) /\ IsInjective(ready_slots)
      /\ Handling \cap Range(ready_slots) = {}
  BY DEF IInv, TypeOK, SlotsConserved
<1>2. CASE task_pc # "handle"
  BY <1>1, <1>2 DEF Line
<1>3. CASE task_pc = "handle"
  <2>1. slot \in Slots /\ Handling = {slot} /\ slot \notin Range(ready_slots)
    BY <1>1, <1>3 DEF IInv, TypeOK, ControlOK, Handling
  <2>2. /\ Line \in Seq(Slots) /\ Len(Line) = Len(ready_slots) + 1 /\ Line[1] = slot
        /\ \A i \in 1 .. Len(ready_slots) : Line[i + 1] = ready_slots[i]
    BY <1>1, <1>3, <2>1, ConsSeq DEF Line
  <2>3. /\ DOMAIN Line = 1 .. Len(ready_slots) + 1 /\ Len(ready_slots) \in Nat
        /\ DOMAIN ready_slots = 1 .. Len(ready_slots)
    BY <1>1, <2>2, LenProperties
  <2>4. ASSUME NEW i \in 2 .. Len(ready_slots) + 1
        PROVE  i - 1 \in 1 .. Len(ready_slots) /\ Line[i] = ready_slots[i - 1]
    <3>1. i - 1 \in 1 .. Len(ready_slots) /\ (i - 1) + 1 = i
      BY <2>3
    <3> QED BY <2>2, <3>1
  <2>5. \A i \in 2 .. Len(ready_slots) + 1 : Line[i] \in Range(ready_slots)
    BY <2>3, <2>4 DEF Range
  <2>6. Range(Line) \subseteq Range(ready_slots) \cup Handling
    BY <2>1, <2>2, <2>3, <2>5 DEF Range
  <2>7. IsInjective(Line)
    <3> SUFFICES ASSUME NEW i \in 1 .. Len(ready_slots) + 1,
                        NEW j \in 1 .. Len(ready_slots) + 1, Line[i] = Line[j]
                 PROVE  i = j
      BY <2>3 DEF IsInjective
    <3>1. CASE i = 1 \/ j = 1
      BY <2>1, <2>2, <2>3, <2>5, <3>1
    <3>2. CASE i # 1 /\ j # 1
      <4>1. i - 1 = j - 1
        BY <1>1, <2>3, <2>4, <3>2 DEF IsInjective
      <4> QED BY <4>1
    <3> QED BY <3>1, <3>2
  <2> QED BY <2>2, <2>6, <2>7
<1> QED BY <1>2, <1>3

(* The methods along a queue follow the queue. *)
Methods(q, m) == [i \in 1 .. Len(q) |-> m[q[i]].method]

LEMMA MethodsSeq ==
  ASSUME NEW q \in Seq(Slots), NEW m \in [Slots -> Slot]
  PROVE  /\ Methods(q, m) \in Seq(Request) /\ Len(Methods(q, m)) = Len(q)
         /\ \A i \in 1 .. Len(q) : Methods(q, m)[i] = m[q[i]].method
<1>1. Len(q) \in Nat /\ \A i \in 1 .. Len(q) : q[i] \in Slots
  BY LenProperties, ElementOfSeq
<1>2. \A s \in Slots : m[s].method \in Request
  BY DEF Slot
<1> QED BY <1>1, <1>2 DEF Methods

LEMMA MethodsAppend ==
  ASSUME NEW q \in Seq(Slots), NEW m \in [Slots -> Slot], NEW e \in Slots
  PROVE  Methods(Append(q, e), m) = Append(Methods(q, m), m[e].method)
<1> DEFINE l == Methods(Append(q, e), m)
           r == Append(Methods(q, m), m[e].method)
<1>1. /\ Append(q, e) \in Seq(Slots) /\ Len(Append(q, e)) = Len(q) + 1 /\ Len(q) \in Nat
      /\ \A i \in 1 .. Len(q) : Append(q, e)[i] = q[i]
      /\ Append(q, e)[Len(q) + 1] = e
  BY AppendProperties, LenProperties
<1>2. /\ l \in Seq(Request) /\ Len(l) = Len(q) + 1
      /\ \A i \in 1 .. Len(q) + 1 : l[i] = m[Append(q, e)[i]].method
  BY <1>1, MethodsSeq
<1>3. /\ Methods(q, m) \in Seq(Request) /\ Len(Methods(q, m)) = Len(q)
      /\ \A i \in 1 .. Len(q) : Methods(q, m)[i] = m[q[i]].method
  BY MethodsSeq
<1>4. m[e].method \in Request
  BY DEF Slot
<1>5. /\ r \in Seq(Request) /\ Len(r) = Len(q) + 1
      /\ \A i \in 1 .. Len(q) : r[i] = Methods(q, m)[i]
      /\ r[Len(q) + 1] = m[e].method
  BY <1>3, <1>4, AppendProperties
<1> HIDE DEF l, r
<1>6. ASSUME NEW i \in 1 .. Len(q) + 1 PROVE l[i] = r[i]
  <2>1. CASE i \in 1 .. Len(q)
    BY <1>1, <1>2, <1>3, <1>5, <2>1
  <2>2. CASE i = Len(q) + 1
    BY <1>1, <1>2, <1>5, <2>2
  <2> QED BY <1>1, <2>1, <2>2
<1>7. l = r
  BY <1>2, <1>5, <1>6, SeqEqual
<1> QED BY <1>7 DEF l, r

LEMMA MethodsTail ==
  ASSUME NEW q \in Seq(Slots), q # <<>>, NEW m \in [Slots -> Slot]
  PROVE  /\ Methods(q, m) # <<>> /\ Head(Methods(q, m)) = m[Head(q)].method
         /\ Tail(Methods(q, m)) = Methods(Tail(q), m)
<1> DEFINE l == Tail(Methods(q, m))
           r == Methods(Tail(q), m)
<1>1. /\ Len(q) \in Nat \ {0} /\ Head(q) = q[1]
      /\ Tail(q) \in Seq(Slots) /\ Len(Tail(q)) = Len(q) - 1
      /\ \A i \in 1 .. Len(q) - 1 : Tail(q)[i] = q[i + 1]
  BY HeadTailProperties, EmptySeq, LenProperties
<1>2. /\ Methods(q, m) \in Seq(Request) /\ Len(Methods(q, m)) = Len(q)
      /\ \A i \in 1 .. Len(q) : Methods(q, m)[i] = m[q[i]].method
  BY MethodsSeq
<1>3. Methods(q, m) # <<>> /\ Head(Methods(q, m)) = m[Head(q)].method
  BY <1>1, <1>2, EmptySeq
<1>4. /\ l \in Seq(Request) /\ Len(l) = Len(q) - 1
      /\ \A i \in 1 .. Len(q) - 1 : l[i] = Methods(q, m)[i + 1]
  BY <1>2, <1>3, HeadTailProperties
<1>5. /\ r \in Seq(Request) /\ Len(r) = Len(q) - 1
      /\ \A i \in 1 .. Len(q) - 1 : r[i] = m[Tail(q)[i]].method
  BY <1>1, MethodsSeq
<1> HIDE DEF l, r
<1>6. ASSUME NEW i \in 1 .. Len(q) - 1 PROVE l[i] = r[i]
  <2>1. i + 1 \in 1 .. Len(q)
    BY <1>1
  <2> QED BY <1>1, <1>2, <1>4, <1>5, <2>1
<1>7. l = r
  BY <1>4, <1>5, <1>6, SeqEqual
<1> QED BY <1>3, <1>7 DEF l, r

(* The steps that are not visible to the platform. *)
LEMMA PendingKept ==
  ASSUME IInv, Line' = Line,
         \A s \in Range(ready_slots) \cup Handling : slots'[s] = slots[s]
  PROVE  Pending' = Pending
<1>1. \A i \in 1 .. Len(Line) : Line[i] \in Range(Line)
  BY LineProperties, LenProperties DEF Range
<1>2. \A i \in 1 .. Len(Line) : slots'[Line[i]] = slots[Line[i]]
  BY <1>1, LineProperties
<1> QED BY <1>2 DEF Pending

LEMMA SubmitAccepts ==
  ASSUME IInv, Submit
  PROVE  \E r \in Requests : Service!Accept(r)
<1>1. /\ rx_slot \in Slots /\ rx_slot # NoSlot /\ slots \in [Slots -> Slot]
      /\ rx_slot \notin Range(ready_slots) \cup Handling
      /\ IsInjective(ready_slots) /\ ready_slots \in Seq(Slots)
      /\ slots[rx_slot].method \in Requests
  BY SlotsAssumption
  DEF Submit, IInv, TypeOK, ControlOK, SlotsConserved, ContentOK, Complete, Filling
<1>2. Line \in Seq(Slots) /\ IsInjective(Line) /\ rx_slot \notin Range(Line)
  BY <1>1, LineProperties
<1>3. ready_slots' = Append(ready_slots, rx_slot) /\ UNCHANGED <<slots, slot, task_pc, sent>>
  BY <1>1, SendFits DEF Submit, taskVars
<1>4. Line' = Append(Line, rx_slot)
  <2>1. CASE task_pc = "handle"
    <3>1. slot \in Slots
      BY <2>1 DEF IInv, TypeOK, ControlOK
    <3> QED BY <1>1, <1>3, <2>1, <3>1, ConsSeq DEF Line
  <2>2. CASE task_pc # "handle"
    BY <1>3, <2>2 DEF Line
  <2> QED BY <2>1, <2>2
<1>5. Len(Pending) < Cardinality(Slots)
  <2>1. Pending = Methods(Line, slots)
    BY DEF Pending, Methods
  <2> QED BY <1>1, <1>2, <2>1, MethodsSeq, NotFull
<1>6. Pending' = Append(Pending, slots[rx_slot].method)
  <2>1. Pending' = Methods(Line', slots) /\ Pending = Methods(Line, slots)
    BY <1>3 DEF Pending, Methods
  <2> QED BY <1>1, <1>2, <1>4, <2>1, MethodsAppend
<1>7. Replies' = Replies
  BY <1>3 DEF Replies
<1> QED BY <1>1, <1>5, <1>6, <1>7 DEF Service!Accept

LEMMA HandleSettles ==
  ASSUME IInv, Handle
  PROVE  Service!Settle
<1> DEFINE s == slots[slot]
<1>1. /\ slot \in Slots /\ s \in Slot /\ Complete(s) /\ s.method \in Requests
      /\ slots \in [Slots -> Slot] /\ ready_slots \in Seq(Slots)
      /\ task_pc = "handle" /\ task_pc' = "giveback"
      /\ UNCHANGED <<slots, ready_slots, slot>>
  BY DEF Handle, IInv, TypeOK, ControlOK, ContentOK, Handling, Complete
<1>2. Line = <<slot>> \o ready_slots /\ Line' = ready_slots
  BY <1>1 DEF Line
<1>3. /\ Line \in Seq(Slots) /\ Line # <<>> /\ Head(Line) = slot
      /\ Tail(Line) = Line'
  BY <1>1, <1>2, ConsSeq
<1>4. Pending = Methods(Line, slots) /\ Pending' = Methods(Line', slots)
  BY <1>1 DEF Pending, Methods
<1>5. Pending # <<>> /\ Pending' = Tail(Pending) /\ Head(Pending) = s.method
  BY <1>1, <1>3, <1>4, MethodsTail
<1>6. PICK ok \in Outcomes(s) : Respond(s, ok)
  BY DEF Handle
<1> DEFINE a == Answer(s, ok)
<1>7. ok \in BOOLEAN /\ a.method = s.method /\ a.ok = ok
  BY DEF Outcomes, Answer
<1>8. Service!Reply(s.method, ok)
  <2>1. ReplyMatches(s.method, a)
    BY <1>1, CompleteAnswers
  <2> SUFFICES ASSUME ok PROVE s.method \in Valid
    BY DEF Service!Reply
  <2>2. /\ Msg[s.method].known /\ Msg[s.method].size <= PayloadMax
        /\ Msg[s.method].size > 0 => Msg[s.method].object
    BY <1>7, <2>1 DEF ReplyMatches
  <2>3. Msg[s.method].size = 0 \/ Msg[s.method].size > 0
    BY <1>1, MsgShape
  <2> QED BY <1>1, <2>2, <2>3 DEF Valid
<1> HIDE DEF s, a
<1>9. CASE sent' = sent \cup {a}
  <2>1. Replies' = Replies \cup {[request |-> s.method, ok |-> ok]}
    BY <1>7, <1>9 DEF Replies
  <2> QED BY <1>5, <1>7, <1>8, <2>1 DEF Service!Settle
<1>10. CASE sent' = sent
  <2>1. Replies' = Replies
    BY <1>10 DEF Replies
  <2> QED BY <1>5, <2>1 DEF Service!Settle
<1> QED BY <1>6, <1>9, <1>10 DEF Respond, a

(* Every behaviour of the tasks, the queues and the slots is one of the    *)
(* service: bounded, in order, each request settled at most once with an   *)
(* outcome it may have.                                                    *)
THEOREM ImplementsService == Spec => Service!Init /\ [][Service!Next]_(Service!vars)
<1>1. Init => Service!Init
  <2> SUFFICES ASSUME Init PROVE Pending = <<>> /\ Replies = {}
    BY DEF Service!Init
  <2>1. Line = <<>> /\ sent = {}
    BY DEF Init, Line
  <2> QED BY <2>1 DEF Pending, Replies
<1>2. IInv /\ [Next]_vars => [Service!Next]_(Service!vars)
  <2> SUFFICES ASSUME IInv, [Next]_vars
               PROVE  Service!Next \/ UNCHANGED <<Pending, Replies>>
    BY DEF Service!vars
  <2>a. TypeOK /\ ControlOK /\ SlotsConserved
    BY DEF IInv
  <2>1. ASSUME UNCHANGED <<slots, ready_slots, slot, task_pc, sent>>
        PROVE  UNCHANGED <<Pending, Replies>>
    BY <2>1 DEF Pending, Replies, Line
  <2>2. ASSUME StartRequest PROVE UNCHANGED <<Pending, Replies>>
    <3>1. Line' = Line /\ Replies' = Replies
      BY <2>2 DEF StartRequest, Line, Replies, taskVars, history
    <3> QED BY <2>2, <3>1, StartWritesOutside, PendingKept
  <2>3. ASSUME NEW len \in EventLengths(rx.req, rx.off), NextFragment(len)
        PROVE  UNCHANGED <<Pending, Replies>>
    <3>1. Line' = Line /\ Replies' = Replies
      BY <2>3 DEF NextFragment, Line, Replies, taskVars, history
    <3> QED BY <2>3, <3>1, FragmentWritesOutside, PendingKept
  <2>4. ASSUME Submit PROVE Service!Next
    BY <2>4, SubmitAccepts DEF Service!Next
  <2>5. ASSUME Handle PROVE Service!Next
    BY <2>5, HandleSettles DEF Service!Next
  <2>6. ASSUME Wake \/ GiveBack PROVE UNCHANGED <<Pending, Replies>>
    BY <2>6 DEF Wake, GiveBack, Pending, Replies, Line, history
  <2>7. ASSUME TakeReady PROVE UNCHANGED <<Pending, Replies>>
    <3>1. UNCHANGED <<slots, sent>> /\ Replies' = Replies
      BY <2>7 DEF TakeReady, Replies, history
    <3>2. Line' = Line
      <4>1. CASE ready_slots = <<>>
        BY <2>7, <4>1 DEF TakeReady, Line
      <4>2. CASE ready_slots # <<>>
        <5>1. /\ Line = ready_slots /\ Line' = <<Head(ready_slots)>> \o Tail(ready_slots)
          BY <2>7, <4>2 DEF TakeReady, Line
        <5>2. /\ Head(ready_slots) \in Slots /\ Tail(ready_slots) \in Seq(Slots)
              /\ Len(Tail(ready_slots)) = Len(ready_slots) - 1 /\ ready_slots \in Seq(Slots)
              /\ Len(ready_slots) \in Nat \ {0} /\ Head(ready_slots) = ready_slots[1]
              /\ \A i \in 1 .. Len(ready_slots) - 1 : Tail(ready_slots)[i] = ready_slots[i + 1]
          BY <2>a, <4>2, HeadTailProperties, EmptySeq, LenProperties DEF TypeOK
        <5>3. /\ Line' \in Seq(Slots) /\ Len(Line') = Len(ready_slots)
              /\ Line'[1] = ready_slots[1]
              /\ \A i \in 1 .. Len(ready_slots) - 1 : Line'[i + 1] = ready_slots[i + 1]
          BY <5>1, <5>2, ConsSeq
        <5>4. ASSUME NEW i \in 1 .. Len(ready_slots) PROVE Line'[i] = ready_slots[i]
          <6>1. CASE i = 1
            BY <5>3, <6>1
          <6>2. CASE i # 1
            <7>1. i - 1 \in 1 .. Len(ready_slots) - 1 /\ (i - 1) + 1 = i
              BY <5>2, <6>2
            <7> QED BY <5>3, <7>1
          <6> QED BY <6>1, <6>2
        <5>5. Line' = ready_slots
          BY <5>2, <5>3, <5>4, SeqEqual
        <5> QED BY <5>1, <5>5
      <4> QED BY <4>1, <4>2
    <3> QED BY <3>1, <3>2 DEF Pending
  <2> QED
    BY <2>1, <2>2, <2>3, <2>4, <2>5, <2>6, <2>7
    DEF Next, MqttTask, RequestTask, FirstFragment, DropRequest, OtherMessage, Notify,
        Connected, Disconnected, StopClient, Stop, vars, history, taskVars, mqttVars
<1> QED BY <1>1, <1>2, Inductive, PTL DEF Spec

================================================================================
