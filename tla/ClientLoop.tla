------------------------------- MODULE ClientLoop -------------------------------
(***************************************************************************)
(* The life of the connection as the request task sees it.  The esp-mqtt   *)
(* task keeps sc_mqtt::is_connected and sets an event bit for every        *)
(* connect and disconnect, sc_client::run_task() takes all its bits at     *)
(* once and reports the birth, does the work of the first connection,      *)
(* calls the application's connection callback and sends the heartbeat;    *)
(* the application may stop and start the client meanwhile.  Requests are  *)
(* in RpcRequests, the calls of the first connection in RpcCall: here they *)
(* only keep the task busy.                                                *)
(***************************************************************************)
EXTENDS Integers, FiniteSets

CONSTANTS
  TickMod,    \* the tick counter wraps here (2^32)
  Heartbeat,  \* CONFIG_SOULCLOUD_HEARTBEAT_INTERVAL_SEC, in ticks
  MaxBusy,    \* bound: ticks the request task is away from its wait
  MaxLosses,  \* bound: connections lost
  MaxStops    \* bound: times the application stops the client

ASSUME TicksAssumption ==
  /\ Heartbeat \in Nat \ {0} /\ MaxBusy \in Nat \ {0}
  /\ TickMod \in Nat /\ 2 * Heartbeat < TickMod /\ 4 * MaxBusy <= TickMod
ASSUME LossesAssumption == MaxLosses \in Nat /\ MaxStops \in Nat

VARIABLES
  link,             \* the broker has accepted the connection
  is_connected,     \* sc_mqtt::is_connected
  mqtt_pc,          \* esp-mqtt task: where it is in event_handler()
  client,           \* esp-mqtt client: "running", "stopping" inside stop(), "stopped"
  bits,             \* the event group, BIT_REQUEST and BIT_CALL_DONE left out
  task_pc,          \* request task: where it is in run_task()
  woke,             \* request task: the bits it has taken
  first_connection,
  image,            \* esp_ota state of the running image
  told,             \* what connection_cb was last called with
  now, next_report, left,   \* ticks: counter, deadline, rest of the sleep
  busy, since,      \* true ticks: awake so far; since next_report was set
  born,             \* the birth report of this connection
  reached,          \* ever subscribed
  losses, stops

mqttVars == <<link, is_connected, mqtt_pc, client>>
timeVars == <<now, next_report, left, busy, since>>
firstVars == <<first_connection, image>>
bounds == <<losses, stops>>
vars == <<mqttVars, bits, task_pc, woke, firstVars, told, timeVars, born, reached, bounds>>

Bits == {"connected", "disconnected", "report"}

(* static_cast<int32_t>() of a difference of two tick counts. *)
Signed(d) == LET m == d % TickMod IN IF 2 * m >= TickMod THEN m - TickMod ELSE m

--------------------------------------------------------------------------------
(* The esp-mqtt task: sc_mqtt::event_handler() *)

(* Mutant: a failed subscription goes unnoticed. *)
SubscribeUnchecked ==
  /\ client # "stopped" /\ ~link /\ mqtt_pc = "idle"
  /\ link' = TRUE
  /\ mqtt_pc' = "connected"
  /\ reached' \in {reached, TRUE}
  /\ UNCHANGED <<is_connected, client, bits, task_pc, woke, firstVars, told, timeVars,
                 born, bounds>>

(* MQTT_EVENT_CONNECTED.  Without the subscription the client disconnects  *)
(* again: Disconnected follows.                                            *)
Subscribe ==
  /\ client # "stopped" /\ ~link /\ mqtt_pc = "idle"
  /\ link' = TRUE
  /\ \/ mqtt_pc' = "connected" /\ reached' = TRUE
     \/ UNCHANGED <<mqtt_pc, reached>>
  /\ UNCHANGED <<is_connected, client, bits, task_pc, woke, firstVars, told, timeVars,
                 born, bounds>>

Connected ==
  /\ mqtt_pc = "connected"
  /\ is_connected' = TRUE
  /\ born' = "due"
  /\ mqtt_pc' = "tell_up"
  /\ UNCHANGED <<link, client, bits, task_pc, woke, firstVars, told, timeVars, reached,
                 bounds>>

(* Mutant: the flag is read after it was cleared. *)
DisconnectedForgets ==
  /\ link /\ mqtt_pc = "idle" /\ losses < MaxLosses
  /\ losses' = losses + 1
  /\ link' = FALSE /\ is_connected' = FALSE
  /\ UNCHANGED <<mqtt_pc, client, bits, task_pc, woke, firstVars, told, timeVars, born,
                 reached, stops>>

(* MQTT_EVENT_DISCONNECTED: told to the client only after a CONNECTED. *)
Disconnected ==
  /\ link /\ mqtt_pc = "idle" /\ losses < MaxLosses
  /\ losses' = losses + 1
  /\ link' = FALSE /\ is_connected' = FALSE
  /\ mqtt_pc' = IF is_connected THEN "tell_down" ELSE "idle"
  /\ UNCHANGED <<client, bits, task_pc, woke, firstVars, told, timeVars, born, reached,
                 stops>>

(* sc_mqtt::connection_cb, set by sc_client::init(): one bit per event. *)
Tell ==
  /\ \/ mqtt_pc = "tell_up" /\ bits' = bits \cup {"connected"}
     \/ mqtt_pc = "tell_down" /\ bits' = bits \cup {"disconnected"}
  /\ mqtt_pc' = "idle"
  /\ UNCHANGED <<link, is_connected, client, task_pc, woke, firstVars, told, timeVars, born,
                 reached, bounds>>

--------------------------------------------------------------------------------
(* The application, on a task of its own *)

Start ==
  /\ client = "stopped"
  /\ client' = "running"
  /\ UNCHANGED <<link, is_connected, mqtt_pc, bits, task_pc, woke, firstVars, told, timeVars,
                 born, reached, bounds>>

(* sc_mqtt::stop(): the flag, ... *)
Stop ==
  /\ client = "running" /\ stops < MaxStops
  /\ stops' = stops + 1
  /\ is_connected' = FALSE
  /\ client' = "stopping"
  /\ UNCHANGED <<link, mqtt_pc, bits, task_pc, woke, firstVars, told, timeVars, born, reached,
                 losses>>

(* ... then the client, which waits for its task to leave the handler.     *)
StopClient ==
  /\ client = "stopping" /\ mqtt_pc = "idle"
  /\ client' = "stopped"
  /\ link' = FALSE
  /\ UNCHANGED <<is_connected, mqtt_pc, bits, task_pc, woke, firstVars, told, timeVars, born,
                 reached, bounds>>

(* sc_client::request_status_report() *)
RequestReport ==
  /\ bits' = bits \cup {"report"}
  /\ UNCHANGED <<mqttVars, task_pc, woke, firstVars, told, timeVars, born, reached, bounds>>

--------------------------------------------------------------------------------
(* The request task: sc_client::run_task() *)

Deadline ==
  /\ next_report' = (now + Heartbeat) % TickMod
  /\ since' = 0

(* Mutant: the rest of the sleep is not clamped to 0. *)
SleepUnclamped ==
  /\ task_pc = "loop"
  /\ left' = Signed(next_report - now)
  /\ task_pc' = "wait"
  /\ UNCHANGED <<mqttVars, bits, woke, firstVars, told, now, next_report, busy, since, born,
                 reached, bounds>>

Sleep ==
  /\ task_pc = "loop"
  /\ left' = IF Signed(next_report - now) > 0 THEN Signed(next_report - now) ELSE 0
  /\ task_pc' = "wait"
  /\ UNCHANGED <<mqttVars, bits, woke, firstVars, told, now, next_report, busy, since, born,
                 reached, bounds>>

(* For a bit, the heartbeat, or a request; xEventGroupWaitBits() takes     *)
(* every bit that is set.                                                  *)
Wake ==
  /\ task_pc = "wait"
  /\ woke' = bits
  /\ bits' = {}
  /\ busy' = 0 /\ left' = 0
  /\ task_pc' = IF "connected" \in bits THEN "birth" ELSE "down"
  /\ UNCHANGED <<mqttVars, firstVars, told, now, next_report, since, born, reached, bounds>>

(* Mutant: only the first connection is reported. *)
BirthFirstOnly ==
  /\ task_pc = "birth"
  /\ \/ /\ first_connection /\ is_connected
        /\ born' \in {"sent", "lost"}
     \/ ~(first_connection /\ is_connected) /\ UNCHANGED born
  /\ task_pc' = IF first_connection THEN "confirm" ELSE "up"
  /\ UNCHANGED <<mqttVars, bits, woke, firstVars, told, timeVars, reached, bounds>>

(* status->report(true); not repeated when it fails. *)
Birth ==
  /\ task_pc = "birth"
  /\ IF is_connected THEN born' \in {"sent", "lost"} ELSE UNCHANGED born
  /\ task_pc' = IF first_connection THEN "confirm" ELSE "up"
  /\ UNCHANGED <<mqttVars, bits, woke, firstVars, told, timeVars, reached, bounds>>

(* confirm_running_image(), then the test of sync_time().  It reads the    *)
(* wall clock this once, which SNTP or the application may have set.       *)
Confirm ==
  /\ task_pc = "confirm"
  /\ first_connection' = FALSE
  /\ image' = "valid"
  /\ task_pc' \in {"ask_time", "up"}
  /\ UNCHANGED <<mqttVars, bits, woke, told, timeVars, born, reached, bounds>>

(* The answer of the platform to "time", which sets the clock, or none.    *)
SyncTime ==
  /\ task_pc = "ask_time"
  /\ task_pc' = "up"
  /\ UNCHANGED <<mqttVars, bits, woke, firstVars, told, timeVars, born, reached, bounds>>

(* on_connected() ends, after check_for_update(), with the callback.       *)
TellUp ==
  /\ task_pc = "up"
  /\ told' = "up"
  /\ Deadline
  /\ task_pc' = "down"
  /\ UNCHANGED <<mqttVars, bits, woke, firstVars, now, left, busy, born, reached, bounds>>

TellDown ==
  /\ task_pc = "down"
  /\ told' = IF "disconnected" \in woke THEN "down" ELSE told
  /\ task_pc' = "report"
  /\ UNCHANGED <<mqttVars, bits, woke, firstVars, timeVars, born, reached, bounds>>

(* Mutant: the tick counts are compared, not their difference. *)
ReportByOrder ==
  /\ task_pc = "report"
  /\ IF "report" \in woke \/ next_report <= now THEN Deadline ELSE UNCHANGED <<next_report, since>>
  /\ woke' = {}
  /\ task_pc' = "loop"
  /\ UNCHANGED <<mqttVars, bits, firstVars, told, now, left, busy, born, reached, bounds>>

(* After handle_ready(): the heartbeat is due, or a report was asked for.  *)
Report ==
  /\ task_pc = "report"
  /\ IF "report" \in woke \/ Signed(next_report - now) <= 0
     THEN Deadline ELSE UNCHANGED <<next_report, since>>
  /\ woke' = {}
  /\ task_pc' = "loop"
  /\ UNCHANGED <<mqttVars, bits, firstVars, told, now, left, busy, born, reached, bounds>>

(* Time passes; a sleep ends when it is over, and work takes MaxBusy.      *)
Tick ==
  /\ \/ task_pc = "wait" /\ left > 0 /\ left' = left - 1 /\ UNCHANGED busy
     \/ task_pc # "wait" /\ busy < MaxBusy /\ busy' = busy + 1 /\ UNCHANGED left
  /\ now' = (now + 1) % TickMod
  /\ since' = since + 1
  /\ UNCHANGED <<mqttVars, bits, task_pc, woke, firstVars, told, next_report, born, reached,
                 bounds>>

--------------------------------------------------------------------------------
Init ==
  /\ link = FALSE /\ is_connected = FALSE /\ mqtt_pc = "idle" /\ client = "stopped"
  /\ bits = {} /\ task_pc = "loop" /\ woke = {}
  /\ first_connection = TRUE /\ image = "pending"
  /\ told = "none"
  /\ now = 0 /\ next_report = Heartbeat % TickMod /\ left = 0 /\ busy = 0 /\ since = 0
  /\ born = "none" /\ reached = FALSE
  /\ losses = 0 /\ stops = 0

MqttHandler == Connected \/ Tell
MqttTask == Subscribe \/ Disconnected \/ MqttHandler
Application == Start \/ Stop \/ StopClient \/ RequestReport
LoopBody == Sleep \/ Birth \/ Confirm \/ SyncTime \/ TellUp \/ TellDown \/ Report
RequestTask == Wake \/ LoopBody

Next == MqttTask \/ Application \/ RequestTask \/ Tick

(* Both tasks go on with what they have begun, and a set bit wakes the     *)
(* request task.  Time, the network and the application owe nothing.       *)
Fairness ==
  /\ WF_vars(MqttHandler)
  /\ WF_vars(LoopBody \/ (bits # {} /\ Wake))

Spec == Init /\ [][Next]_vars /\ Fairness

--------------------------------------------------------------------------------
(* Properties *)

(* The type of every variable. *)
TypeOK ==
  /\ link \in BOOLEAN /\ is_connected \in BOOLEAN
  /\ mqtt_pc \in {"idle", "connected", "tell_up", "tell_down"}
  /\ client \in {"running", "stopping", "stopped"}
  /\ bits \subseteq Bits /\ woke \subseteq Bits
  /\ task_pc \in {"loop", "wait", "birth", "confirm", "ask_time", "up", "down", "report"}
  /\ first_connection \in BOOLEAN /\ image \in {"pending", "valid"}
  /\ told \in {"none", "up", "down"}
  /\ now \in 0 .. TickMod - 1 /\ next_report \in 0 .. TickMod - 1
  /\ left \in 0 .. Heartbeat /\ busy \in 0 .. MaxBusy /\ since \in Nat
  /\ born \in {"none", "due", "sent", "lost"}
  /\ reached \in BOOLEAN
  /\ losses \in 0 .. MaxLosses /\ stops \in 0 .. MaxStops

(* The heartbeat is late by no more than two rounds of the loop take, over *)
(* any number of wraps of the tick counter.                                *)
HeartbeatOnTime ==
  /\ since < Heartbeat + 2 * MaxBusy
  /\ Signed(next_report - now) = Heartbeat - since

(* A new image is confirmed only once it has reached the platform: it      *)
(* connected and subscribed ("new firmware reached the platform").         *)
ConfirmedReached == image = "valid" => reached

(* Application told "up": a connection that goes down is told in the end,  *)
(* unless it is back by then, or the application itself has called stop(). *)
ToldDown ==
  (told = "up" /\ ~is_connected) ~> (told = "down" \/ is_connected \/ stops > 0)

(* Every connection is reported by a birth, as soon as the task gets to    *)
(* it: none is forgotten when connects and disconnects share one bit each. *)
BirthAttempted == (born = "due" /\ is_connected) ~> (born # "due" \/ ~is_connected)

================================================================================
