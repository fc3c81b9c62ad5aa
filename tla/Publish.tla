------------------------------- MODULE Publish -------------------------------
(***************************************************************************)
(* Publishing (src/src/sc_mqtt.cpp) from several tasks next to the         *)
(* esp-mqtt task: publish_lock around a publish and its MQTT 5 properties, *)
(* esp-mqtt's own API lock, which its task also holds while it runs the    *)
(* event handler, and the call_lock of sc_rpc, which that handler and the  *)
(* task in call() take.  What the messages say is left out.                *)
(***************************************************************************)
EXTENDS Integers, FiniteSets

CONSTANTS Publishers,  \* tasks that publish
          Caller,      \* the one of them that is in sc_rpc::call()
          MaxPublishes \* bound: publishes of a task

Nobody == "nobody"
MqttTask == "mqtt_task"

ASSUME PublishAssumption ==
    Caller \in Publishers /\ Publishers \cap {Nobody, MqttTask} = {} /\ MaxPublishes \in Nat

VARIABLES pc,           \* where each publisher is
          count,        \* publishes it has begun
          is_connected,
          publish_lock, \* the task that has it, or Nobody
          call_lock,    \* Caller, MqttTask or Nobody
          api_lock,     \* esp-mqtt's lock: MqttTask or Nobody
          event,        \* what the esp-mqtt task is handling
          pending,      \* publisher and number of the properties set in esp-mqtt, or NoProps
          wire          \* the message handed over last: its publisher, number, properties

vars == <<pc, count, is_connected, publish_lock, call_lock, api_lock, event, pending, wire>>

NoProps == <<"no properties", 0>>
Props == {NoProps} \cup Publishers \X (1..MaxPublishes)
Message(p) == <<p, count[p]>>

TypeOK ==
    /\ pc \in [Publishers -> {"idle", "register", "check", "take", "set", "send", "give", "unregister"}]
    /\ count \in [Publishers -> 0..MaxPublishes]
    /\ is_connected \in BOOLEAN
    /\ publish_lock \in Publishers \cup {Nobody}
    /\ call_lock \in {Caller, MqttTask, Nobody}
    /\ api_lock \in {MqttTask, Nobody}
    /\ event \in {"none", "connected", "disconnected", "response", "delivering"}
    /\ pending \in Props /\ wire \in Props \X Props

Init ==
    /\ pc = [p \in Publishers |-> "idle"] /\ count = [p \in Publishers |-> 0]
    /\ is_connected = FALSE
    /\ publish_lock = Nobody /\ call_lock = Nobody /\ api_lock = Nobody
    /\ event = "none" /\ pending = NoProps /\ wire = <<NoProps, NoProps>>
-----------------------------------------------------------------------------
Goto(p, step) == pc' = [pc EXCEPT ![p] = step]

\* A task has something to publish; call() registers its correlation data first.
Begin(p) ==
    /\ pc[p] = "idle" /\ count[p] < MaxPublishes
    /\ Goto(p, IF p = Caller THEN "register" ELSE "check")
    /\ count' = [count EXCEPT ![p] = @ + 1]
    /\ UNCHANGED <<is_connected, publish_lock, call_lock, api_lock, event, pending, wire>>

\* call() resets its answer buffer before it publishes, and ends the registration
\* afterwards, both in a critical section.
EnterCritical(p) ==
    /\ pc[p] \in {"register", "unregister"} /\ call_lock = Nobody
    /\ call_lock' = p
    /\ UNCHANGED <<pc, count, is_connected, publish_lock, api_lock, event, pending, wire>>

LeaveCritical(p) ==
    /\ call_lock = p
    /\ call_lock' = Nobody
    /\ Goto(p, IF pc[p] = "register" THEN "check" ELSE "idle")
    /\ UNCHANGED <<count, is_connected, publish_lock, api_lock, event, pending, wire>>

\* Where a task is after a publish.
Returned(p) == IF p = Caller THEN "unregister" ELSE "idle"

\* publish_topic(): nothing is published without a connection.
CheckConnected(p) ==
    /\ pc[p] = "check"
    /\ Goto(p, IF is_connected THEN "take" ELSE Returned(p))
    /\ UNCHANGED <<count, is_connected, publish_lock, call_lock, api_lock, event, pending, wire>>

(* Mutant: the lock is not waited for. *)
TakeAnyway(p) ==
    /\ pc[p] = "take"
    /\ publish_lock' = p /\ Goto(p, "set")
    /\ UNCHANGED <<count, is_connected, call_lock, api_lock, event, pending, wire>>

\* xSemaphoreTake(publish_lock), and its timeout.
Take(p) ==
    /\ pc[p] = "take"
    /\ IF publish_lock = Nobody THEN publish_lock' = p /\ Goto(p, "set")
       ELSE publish_lock' = publish_lock /\ Goto(p, Returned(p))
    /\ UNCHANGED <<count, is_connected, call_lock, api_lock, event, pending, wire>>

(* Mutant: a failure returns before the lock is given back. *)
SetOrReturn(p) ==
    /\ pc[p] = "set" /\ api_lock = Nobody
    /\ \/ pending' = Message(p) /\ Goto(p, "send")
       \/ pending' = pending /\ Goto(p, Returned(p))
    /\ UNCHANGED <<count, is_connected, publish_lock, call_lock, api_lock, event, wire>>

\* esp_mqtt5_client_set_publish_property() keeps pointers to the properties of this publish
\* until the next one, or fails.
SetProperties(p) ==
    /\ pc[p] = "set" /\ api_lock = Nobody
    /\ \/ pending' = Message(p) /\ Goto(p, "send")
       \/ pending' = pending /\ Goto(p, "give")
    /\ UNCHANGED <<count, is_connected, publish_lock, call_lock, api_lock, event, wire>>

\* esp_mqtt_client_publish(): the message takes the properties that are set and uses them
\* up; a failed publish may leave them.
Send(p) ==
    /\ pc[p] = "send" /\ api_lock = Nobody
    /\ \/ wire' = <<Message(p), pending>> /\ pending' = NoProps
       \/ wire' = wire /\ pending' \in {pending, NoProps}
    /\ Goto(p, "give")
    /\ UNCHANGED <<count, is_connected, publish_lock, call_lock, api_lock, event>>

\* xSemaphoreGive(publish_lock)
Give(p) ==
    /\ pc[p] = "give"
    /\ publish_lock' = Nobody
    /\ Goto(p, Returned(p))
    /\ UNCHANGED <<count, is_connected, call_lock, api_lock, event, pending, wire>>
-----------------------------------------------------------------------------
\* esp-mqtt's task calls the event handler with its lock held.
Event ==
    /\ api_lock = Nobody
    /\ api_lock' = MqttTask
    /\ event' \in {"connected", "disconnected", "response"}
    /\ UNCHANGED <<pc, count, is_connected, publish_lock, call_lock, pending, wire>>

\* deliver_response(): the answer is copied in a critical section.
Deliver ==
    /\ event = "response" /\ call_lock = Nobody
    /\ call_lock' = MqttTask /\ event' = "delivering"
    /\ UNCHANGED <<pc, count, is_connected, publish_lock, api_lock, pending, wire>>

\* event_handler() comes to its end.
HandleEvent ==
    /\ event \in {"connected", "disconnected", "delivering"}
    /\ is_connected' = (IF event = "delivering" THEN is_connected ELSE event = "connected")
    /\ call_lock' = (IF event = "delivering" THEN Nobody ELSE call_lock)
    /\ event' = "none" /\ api_lock' = Nobody
    /\ UNCHANGED <<pc, count, publish_lock, pending, wire>>

\* The next step of a publish that has begun.
Step(p) ==
    \/ EnterCritical(p) \/ LeaveCritical(p) \/ CheckConnected(p) \/ Take(p)
    \/ SetProperties(p) \/ Send(p) \/ Give(p)

Next ==
    \/ \E p \in Publishers : Begin(p) \/ Step(p)
    \/ Event \/ Deliver \/ HandleEvent

\* Tasks go on; a task that waits for a lock esp-mqtt takes again and again gets it in the
\* end, as FreeRTOS hands a mutex to a task that waits; the handler comes to its end.  No
\* task has to publish and nothing has to arrive.
Fairness == SF_vars(Deliver) /\ WF_vars(HandleEvent) /\ \A p \in Publishers : SF_vars(Step(p))

Spec == Init /\ [][Next]_vars /\ Fairness
-----------------------------------------------------------------------------
\* "a publish and its MQTT 5 properties stay together": no message goes out with
\* properties of another publish, which by then may point into memory its task has left,
\* even after publishes that failed between setting the properties and using them.
OwnProperties == wire[1] = wire[2]

\* Every publish returns, with none of the three locks left behind: no task waits for the
\* esp-mqtt task while that waits for it.
PublishReturns ==
    \A p \in Publishers :
        pc[p] # "idle" ~> (pc[p] = "idle" /\ publish_lock # p /\ call_lock # p)
=============================================================================
