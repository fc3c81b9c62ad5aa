------------------------------ MODULE RpcRequests ------------------------------
(***************************************************************************)
(* How a request of the platform travels through the device: the esp-mqtt  *)
(* task receives it in fragments straight into a slot of the pool          *)
(* (sc_mqtt::handle_data), submits the slot, and the request task runs the *)
(* method, publishes the answer and returns the slot (sc_rpc::handle_ready,*)
(* handle, respond).  The two tasks share the slots, two FreeRTOS queues   *)
(* of slot indices and one event bit; every access to a queue or to the    *)
(* bit is a step of its own, everything a task does to a slot it owns is   *)
(* folded into the step that gives or takes the slot.                      *)
(*                                                                         *)
(* A request stands for its own bytes: a field of a slot holds the request *)
(* it was copied from, and NoRequest where the code leaves it empty.       *)
(***************************************************************************)
EXTENDS Naturals, Sequences, FiniteSets, Functions

CONSTANTS
  Slots,          \* the CONFIG_SOULCLOUD_RPC_QUEUE_LEN request slots
  Requests,       \* the requests the platform may send
  Msg,            \* what each of them looks like on the wire
  PayloadMax,     \* CONFIG_SOULCLOUD_RPC_PAYLOAD_MAX
  MaxDeliveries,  \* bound: requests the broker delivers, repeated ones included
  MaxFaults,      \* bound: connection losses, stops and failed publishes
  NoSlot,
  NoRequest

(* size: payload bytes; corr: usable Correlation Data; topic: its Response *)
(* Topic is under d/<id>/up/, under another prefix, or absent; known: the  *)
(* method is registered; object: the payload is a JSON object.             *)
RequestShape == [size: Nat, corr: BOOLEAN, topic: {"up", "foreign", "none"},
                 known: BOOLEAN, object: BOOLEAN]

ASSUME SlotsAssumption ==
  IsFiniteSet(Slots) /\ Slots # {} /\ NoSlot \notin Slots
ASSUME RequestsAssumption ==
  NoRequest \notin Requests /\ Msg \in [Requests -> RequestShape]
ASSUME BoundsAssumption ==
  PayloadMax \in Nat /\ MaxDeliveries \in Nat /\ MaxFaults \in Nat

VARIABLES
  slots,        \* the contents of the slots
  free_slots,   \* queue: slots nobody uses
  ready_slots,  \* queue: submitted slots, in arrival order
  request_bit,  \* BIT_REQUEST of the client's event group
  rx_slot,      \* esp-mqtt task: the slot it is filling, or NoSlot
  rx,           \* the message being received and its current data event
  mqtt_pc,      \* esp-mqtt task: where it is in the data event
  link,         \* the esp-mqtt connection exists
  is_connected, \* sc_mqtt::is_connected
  task_pc,      \* request task: where it is in its loop
  slot,         \* request task: the slot it handles, or NoSlot
  sent,         \* the answers esp-mqtt took for the broker
  tally,        \* per request: how often dropped, accepted, and settled how
  deliveries,   \* deliveries begun so far
  faults        \* faults so far

mqttVars == <<rx_slot, rx, mqtt_pc>>
taskVars == <<task_pc, slot>>
connVars == <<link, is_connected>>
history  == <<sent, tally, deliveries, faults>>
vars == <<slots, free_slots, ready_slots, request_bit, mqttVars, connVars,
          taskVars, history>>

Request == Requests \cup {NoRequest}

Slot == [method: Request, correlation: Request, response_topic: Request,
         too_large: BOOLEAN, payload_len: 0 .. PayloadMax,
         payload: [1 .. PayloadMax -> Request]]

EmptySlot == [method |-> NoRequest, correlation |-> NoRequest,
              response_topic |-> NoRequest, too_large |-> FALSE,
              payload_len |-> 0, payload |-> [i \in 1 .. PayloadMax |-> NoRequest]]

NoMessage == [req |-> NoRequest, off |-> 0, len |-> 0]
NoTally == [dropped |-> 0, accepted |-> 0, answered |-> 0, unsent |-> 0]

(* xQueueSend with no timeout: a full queue refuses the item. *)
QueueSend(queue, item) ==
  IF Len(queue) < Cardinality(Slots) THEN Append(queue, item) ELSE queue

Count(r, field) == tally' = [tally EXCEPT ![r][field] = @ + 1]

--------------------------------------------------------------------------------
(* The esp-mqtt task *)

(* Mutant: correlation is not reset. *)
OpenedKeepsCorrelation(s, r) ==
  [method |-> r,
   correlation |-> IF Msg[r].corr THEN r ELSE s.correlation,
   response_topic |-> IF Msg[r].topic = "none" THEN NoRequest ELSE r,
   too_large |-> Msg[r].size > PayloadMax,
   payload_len |-> 0,
   payload |-> s.payload]

(* sc_rpc::take_free_slot() and start_request(): the slot forgets its last *)
(* request, except for stale bytes in payload, and takes the fields of r.  *)
Opened(s, r) ==
  [method |-> r,
   correlation |-> IF Msg[r].corr THEN r ELSE NoRequest,
   response_topic |-> IF Msg[r].topic = "none" THEN NoRequest ELSE r,
   too_large |-> Msg[r].size > PayloadMax,
   payload_len |-> 0,
   payload |-> s.payload]

(* Mutant: the length advances although the bytes do not fit. *)
CopiedUnchecked(s, r, off, len) ==
  [s EXCEPT !.payload = [i \in 1 .. PayloadMax |->
                           IF off < i /\ i <= off + len THEN r ELSE @[i]],
            !.payload_len = off + len]

(* One data event of r copied into the slot. *)
Copied(s, r, off, len) ==
  IF ~s.too_large /\ off + len <= PayloadMax
  THEN [s EXCEPT !.payload = [i \in 1 .. PayloadMax |->
                                IF off < i /\ i <= off + len THEN r ELSE @[i]],
                 !.payload_len = off + len]
  ELSE s

(* esp-mqtt cuts a message wherever its buffer ends. *)
EventLengths(r, off) == IF off < Msg[r].size THEN 1 .. (Msg[r].size - off) ELSE {0}

LastEvent(r, off, len) == off + len >= Msg[r].size

ReceivedUpTo(r, off) ==
  IF off >= Msg[r].size THEN NoMessage ELSE [req |-> r, off |-> off, len |-> 0]

(* Mutant: the slot is forgotten. *)
GiveBackRxForgets == UNCHANGED free_slots /\ rx_slot' = NoSlot

(* give_back(rx_slot), if the task holds one. *)
GiveBackRx ==
  /\ free_slots' = IF rx_slot = NoSlot THEN free_slots ELSE QueueSend(free_slots, rx_slot)
  /\ rx_slot' = NoSlot

(* The first data event of a request: a half received one is given up. *)
FirstFragment(r, len) ==
  /\ link /\ mqtt_pc = "idle" /\ rx = NoMessage
  /\ deliveries < MaxDeliveries
  /\ GiveBackRx
  /\ rx' = [req |-> r, off |-> 0, len |-> len]
  /\ mqtt_pc' = "start"
  /\ deliveries' = deliveries + 1
  /\ UNCHANGED <<slots, ready_slots, request_bit, connVars, taskVars, sent, tally,
                 faults>>

(* No free slot: the request is dropped, whatever follows of it is ignored. *)
DropRequest ==
  /\ mqtt_pc = "start" /\ free_slots = <<>>
  /\ rx' = ReceivedUpTo(rx.req, rx.len)
  /\ mqtt_pc' = "idle"
  /\ Count(rx.req, "dropped")
  /\ UNCHANGED <<slots, free_slots, ready_slots, request_bit, rx_slot, connVars,
                 taskVars, sent, deliveries, faults>>

StartRequest ==
  /\ mqtt_pc = "start" /\ free_slots # <<>>
  /\ rx_slot' = Head(free_slots)
  /\ free_slots' = Tail(free_slots)
  /\ slots' = [slots EXCEPT ![Head(free_slots)] =
                 Copied(Opened(@, rx.req), rx.req, 0, rx.len)]
  /\ rx' = ReceivedUpTo(rx.req, rx.len)
  /\ mqtt_pc' = IF LastEvent(rx.req, 0, rx.len) THEN "submit" ELSE "idle"
  /\ UNCHANGED <<ready_slots, request_bit, connVars, taskVars, history>>

NextFragment(len) ==
  /\ link /\ mqtt_pc = "idle" /\ rx # NoMessage
  /\ rx' = ReceivedUpTo(rx.req, rx.off + len)
  /\ IF rx_slot = NoSlot
     THEN UNCHANGED <<slots, mqtt_pc>>
     ELSE /\ slots' = [slots EXCEPT ![rx_slot] = Copied(@, rx.req, rx.off, len)]
          /\ mqtt_pc' = IF LastEvent(rx.req, rx.off, len) THEN "submit" ELSE "idle"
  /\ UNCHANGED <<free_slots, ready_slots, request_bit, rx_slot, connVars, taskVars,
                 history>>

(* The first data event of a message that is no request. *)
OtherMessage ==
  /\ link /\ mqtt_pc = "idle" /\ rx = NoMessage /\ rx_slot # NoSlot
  /\ GiveBackRx
  /\ UNCHANGED <<slots, ready_slots, request_bit, rx, mqtt_pc, connVars, taskVars,
                 history>>

(* sc_rpc::submit(): the queue first, then the bit. *)
Submit ==
  /\ mqtt_pc = "submit"
  /\ ready_slots' = QueueSend(ready_slots, rx_slot)
  /\ mqtt_pc' = "notify"
  /\ Count(slots[rx_slot].method, "accepted")
  /\ UNCHANGED <<slots, free_slots, request_bit, rx_slot, rx, connVars, taskVars,
                 sent, deliveries, faults>>

(* Mutant: rx_slot keeps pointing to the submitted slot. *)
NotifyKeepsSlot ==
  /\ mqtt_pc = "notify"
  /\ request_bit' = TRUE
  /\ mqtt_pc' = "idle"
  /\ UNCHANGED <<slots, free_slots, ready_slots, rx_slot, rx, connVars, taskVars, history>>

Notify ==
  /\ mqtt_pc = "notify"
  /\ request_bit' = TRUE
  /\ rx_slot' = NoSlot
  /\ mqtt_pc' = "idle"
  /\ UNCHANGED <<slots, free_slots, ready_slots, rx, connVars, taskVars, history>>

--------------------------------------------------------------------------------
(* The connection.  Publishes go through while is_connected is TRUE. *)

(* MQTT_EVENT_CONNECTED; when the subscription fails the client asks for a *)
(* disconnect, whose event follows as Disconnected.                        *)
Connected ==
  /\ ~link /\ mqtt_pc = "idle"
  /\ link' = TRUE
  /\ is_connected' \in BOOLEAN
  /\ UNCHANGED <<slots, free_slots, ready_slots, request_bit, mqttVars, taskVars,
                 history>>

Fault == faults < MaxFaults /\ faults' = faults + 1

(* MQTT_EVENT_DISCONNECTED, what was received of a message is lost. *)
Disconnected ==
  /\ link /\ mqtt_pc = "idle"
  /\ Fault
  /\ link' = FALSE /\ is_connected' = FALSE
  /\ GiveBackRx
  /\ rx' = NoMessage
  /\ UNCHANGED <<slots, ready_slots, request_bit, mqtt_pc, taskVars, sent, tally,
                 deliveries>>

(* sc_mqtt::stop() by the application: first the flag, at any moment, ... *)
Stop ==
  /\ link /\ is_connected
  /\ Fault
  /\ is_connected' = FALSE
  /\ UNCHANGED <<slots, free_slots, ready_slots, request_bit, mqttVars, link, taskVars,
                 sent, tally, deliveries>>

(* ... then the client, between two events and without an event. *)
StopClient ==
  /\ link /\ ~is_connected /\ mqtt_pc = "idle"
  /\ link' = FALSE
  /\ rx' = NoMessage
  /\ UNCHANGED <<slots, free_slots, ready_slots, request_bit, rx_slot, mqtt_pc,
                 is_connected, taskVars, history>>

--------------------------------------------------------------------------------
(* The request task *)

(* xEventGroupWaitBits() returns, clearing the bit: for a request, or for  *)
(* another bit or the heartbeat timeout.  handle_ready() follows always.   *)
Wake ==
  /\ task_pc = "wait"
  /\ request_bit' = FALSE
  /\ task_pc' = "drain"
  /\ UNCHANGED <<slots, free_slots, ready_slots, mqttVars, connVars, slot, history>>

(* Mutant: the slot is read without leaving the queue. *)
TakeReadyPeeks ==
  /\ task_pc = "drain"
  /\ IF ready_slots = <<>>
     THEN task_pc' = "wait" /\ UNCHANGED slot
     ELSE slot' = Head(ready_slots) /\ task_pc' = "handle"
  /\ UNCHANGED <<slots, free_slots, ready_slots, request_bit, mqttVars, connVars, history>>

TakeReady ==
  /\ task_pc = "drain"
  /\ IF ready_slots = <<>>
     THEN task_pc' = "wait" /\ UNCHANGED <<ready_slots, slot>>
     ELSE /\ slot' = Head(ready_slots)
          /\ ready_slots' = Tail(ready_slots)
          /\ task_pc' = "handle"
  /\ UNCHANGED <<slots, free_slots, request_bit, mqttVars, connVars, history>>

Params(s) == SubSeq(s.payload, 1, s.payload_len)

(* The bytes of a whole payload that is an object; none mean "{}". *)
Parses(s) ==
  \/ s.payload_len = 0
  \/ \E q \in Requests : Msg[q].object /\ Params(s) = [i \in 1 .. Msg[q].size |-> q]

(* A handler may fail, or its result may not fit. *)
Outcomes(s) ==
  IF ~s.too_large /\ Msg[s.method].known /\ Parses(s) THEN BOOLEAN ELSE {FALSE}

(* The answer and, if it is a success, what the handler worked on.  topic  *)
(* is NoRequest for d/<id>/up/res: no Response Topic, or a refused one.    *)
Answer(s, ok) ==
  [method |-> s.method,
   correlation |-> s.correlation,
   topic |-> IF s.response_topic # NoRequest /\ Msg[s.response_topic].topic = "up"
             THEN s.response_topic ELSE NoRequest,
   ok |-> ok,
   params |-> IF ok THEN Params(s) ELSE <<>>]

(* sc_rpc::respond(): publishing fails while offline, and may fail for a   *)
(* full outbox or a lock held too long.                                    *)
Respond(s, ok) ==
  \/ /\ is_connected
     /\ sent' = sent \cup {Answer(s, ok)}
     /\ Count(s.method, "answered")
     /\ UNCHANGED faults
  \/ /\ IF is_connected THEN Fault ELSE UNCHANGED faults
     /\ Count(s.method, "unsent")
     /\ UNCHANGED sent

Handle ==
  /\ task_pc = "handle"
  /\ \E ok \in Outcomes(slots[slot]) : Respond(slots[slot], ok)
  /\ task_pc' = "giveback"
  /\ UNCHANGED <<slots, free_slots, ready_slots, request_bit, mqttVars, connVars, slot,
                 deliveries>>

(* Mutant: one request per wake-up. *)
GiveBackThenWait ==
  /\ task_pc = "giveback"
  /\ free_slots' = QueueSend(free_slots, slot)
  /\ slot' = NoSlot
  /\ task_pc' = "wait"
  /\ UNCHANGED <<slots, ready_slots, request_bit, mqttVars, connVars, history>>

GiveBack ==
  /\ task_pc = "giveback"
  /\ free_slots' = QueueSend(free_slots, slot)
  /\ slot' = NoSlot
  /\ task_pc' = "drain"
  /\ UNCHANGED <<slots, ready_slots, request_bit, mqttVars, connVars, history>>

--------------------------------------------------------------------------------
(* init() fills free_slots with every slot. *)
Init ==
  /\ slots = [s \in Slots |-> EmptySlot]
  /\ free_slots \in {f \in [1 .. Cardinality(Slots) -> Slots] : IsInjective(f)}
  /\ ready_slots = <<>>
  /\ request_bit = FALSE
  /\ rx_slot = NoSlot /\ rx = NoMessage /\ mqtt_pc = "idle"
  /\ link = FALSE /\ is_connected = FALSE
  /\ task_pc = "wait" /\ slot = NoSlot
  /\ sent = {} /\ tally = [r \in Requests |-> NoTally]
  /\ deliveries = 0 /\ faults = 0

MqttTask ==
  \/ \E r \in Requests : \E len \in EventLengths(r, 0) : FirstFragment(r, len)
  \/ rx # NoMessage /\ \E len \in EventLengths(rx.req, rx.off) : NextFragment(len)
  \/ DropRequest \/ StartRequest \/ OtherMessage \/ Submit \/ Notify
  \/ Connected \/ Disconnected \/ StopClient

RequestTask == Wake \/ TakeReady \/ Handle \/ GiveBack

Next == MqttTask \/ RequestTask \/ Stop

(* A task that has something to do is scheduled: the esp-mqtt task ends    *)
(* the event it is in, the request task wakes for its bit and goes through *)
(* its loop.  Nothing is assumed of the broker, the network or the user.   *)
Fairness ==
  /\ WF_vars(DropRequest \/ StartRequest \/ Submit \/ Notify)
  /\ WF_vars((request_bit /\ Wake) \/ TakeReady \/ Handle \/ GiveBack)

Spec == Init /\ [][Next]_vars /\ Fairness

--------------------------------------------------------------------------------
(* Properties *)

Reply == [method: Requests, correlation: Request, topic: Request, ok: BOOLEAN,
          params: Seq(Request)]

Tally == [dropped: Nat, accepted: Nat, answered: Nat, unsent: Nat]

(* The type of every variable. *)
TypeOK ==
  /\ slots \in [Slots -> Slot]
  /\ free_slots \in Seq(Slots) /\ ready_slots \in Seq(Slots)
  /\ request_bit \in BOOLEAN
  /\ rx_slot \in Slots \cup {NoSlot}
  /\ rx \in [req: Request, off: Nat, len: Nat]
  /\ mqtt_pc \in {"idle", "start", "submit", "notify"}
  /\ link \in BOOLEAN /\ is_connected \in BOOLEAN
  /\ task_pc \in {"wait", "drain", "handle", "giveback"}
  /\ slot \in Slots \cup {NoSlot}
  /\ sent \subseteq Reply
  /\ tally \in [Requests -> Tally]
  /\ deliveries \in Nat /\ faults \in Nat

(* The slot the esp-mqtt task may still write to: between Submit and       *)
(* Notify the submitted slot already belongs to the request task.          *)
Filling == IF mqtt_pc = "notify" THEN {} ELSE {rx_slot} \ {NoSlot}
Handling == {slot} \ {NoSlot}

(* Every slot has exactly one owner: one of the queues, once, or one of    *)
(* the tasks.  No slot leaks over connection losses, stops and drops, none *)
(* is handled while the next request is copied into it, and the queue      *)
(* sends whose result the code ignores never fail.                         *)
SlotsConserved ==
  /\ IsInjective(free_slots) /\ IsInjective(ready_slots)
  /\ Slots = Range(free_slots) \cup Range(ready_slots) \cup Filling \cup Handling
  /\ Range(free_slots) \cap Range(ready_slots) = {}
  /\ Filling \cap Handling = {}
  /\ (Filling \cup Handling) \cap (Range(free_slots) \cup Range(ready_slots)) = {}

(* The request task never sleeps on a submitted request: its bit is set,   *)
(* or the esp-mqtt task is about to set it.                                *)
NoLostWakeup == task_pc = "wait" /\ ready_slots # <<>> => request_bit \/ mqtt_pc = "notify"

(* The fields start_request() fills in for r. *)
FieldsOf(s, r) ==
  /\ s.method = r
  /\ s.correlation = IF Msg[r].corr THEN r ELSE NoRequest
  /\ s.response_topic = IF Msg[r].topic = "none" THEN NoRequest ELSE r
  /\ s.too_large <=> Msg[r].size > PayloadMax

(* The slot holds the first n bytes of r, unless they cannot fit. *)
Holds(s, r, n) ==
  /\ FieldsOf(s, r)
  /\ ~s.too_large => s.payload_len = n /\ \A i \in 1 .. n : s.payload[i] = r

Complete(s) == s.method \in Requests /\ Holds(s, s.method, Msg[s.method].size)

(* How the program counters go with the slots and the message received. *)
ControlOK ==
  /\ mqtt_pc = "start" => /\ rx_slot = NoSlot /\ rx.req \in Requests
                          /\ rx.len \in EventLengths(rx.req, 0)
  /\ mqtt_pc = "submit" => rx_slot \in Slots
  /\ mqtt_pc \in {"submit", "notify"} => rx = NoMessage
  /\ mqtt_pc = "idle" /\ rx # NoMessage => rx.req \in Requests /\ rx.off < Msg[rx.req].size
  /\ slot # NoSlot <=> task_pc \in {"handle", "giveback"}

(* A slot in the pipeline holds a whole request, the slot being filled     *)
(* what was received so far.                                               *)
ContentOK ==
  /\ \A s \in Range(ready_slots) \cup Handling : Complete(slots[s])
  /\ mqtt_pc = "submit" => Complete(slots[rx_slot])
  /\ mqtt_pc = "idle" /\ rx # NoMessage /\ rx_slot # NoSlot =>
       Holds(slots[rx_slot], rx.req, rx.off)

(* Submitted requests nobody has settled yet. *)
InPipeline(r) ==
  Cardinality({i \in DOMAIN ready_slots : slots[ready_slots[i]].method = r})
    + (IF task_pc = "handle" /\ slots[slot].method = r THEN 1 ELSE 0)

(* Every accepted request is run and settled exactly once, whatever        *)
(* happens to the connection meanwhile: none is lost between the queues,   *)
(* none is run twice unless the broker delivered it twice.                 *)
SettledOnce ==
  \A r \in Requests :
    tally[r].accepted = tally[r].answered + tally[r].unsent + InPipeline(r)

(* The reply the platform may get for r: its own Correlation Data, on its  *)
(* own Response Topic unless that is refused, and a success only for the   *)
(* whole of its own payload, in whatever slot, fragments and after         *)
(* whichever earlier occupant of the slot it arrived.                      *)
ReplyMatches(r, a) ==
  /\ a.correlation = IF Msg[r].corr THEN r ELSE NoRequest
  /\ a.topic = IF Msg[r].topic = "up" THEN r ELSE NoRequest
  /\ a.ok => /\ Msg[r].known /\ Msg[r].size <= PayloadMax
             /\ Msg[r].size > 0 => Msg[r].object
             /\ a.params = [i \in 1 .. Msg[r].size |-> r]

(* No answer mixes two requests, or answers what was received in part. *)
AnswersMatch == \A a \in sent : ReplyMatches(a.method, a)

(* A request is dropped only when every slot is waiting to be handled or   *)
(* being handled (sc_rpc.hpp: "A request that finds no free slot").        *)
DropOnlyWhenBusy ==
  [][\A r \in Requests : tally'[r].dropped # tally[r].dropped =>
       Slots = Range(ready_slots) \cup Handling]_vars

(* What the platform sees of this: the methods of the accepted requests,   *)
(* the one being handled first, and the outcomes published.                *)
Line == IF task_pc = "handle" THEN <<slot>> \o ready_slots ELSE ready_slots
Pending == [i \in 1 .. Len(Line) |-> slots[Line[i]].method]
Replies == {[request |-> a.method, ok |-> a.ok] : a \in sent}

Valid == {r \in Requests : /\ Msg[r].known /\ Msg[r].size <= PayloadMax
                           /\ Msg[r].size = 0 \/ Msg[r].object}

Service == INSTANCE RequestService WITH
  Capacity <- Cardinality(Slots), pending <- Pending, replies <- Replies

(* The promise kept to the platform: accepted requests are settled in      *)
(* arrival order, each with an outcome it may have, and none waits for     *)
(* ever.                                                                   *)
ServiceSpec == Service!Spec

================================================================================
