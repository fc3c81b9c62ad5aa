-------------------------------- MODULE RpcCall --------------------------------
(***************************************************************************)
(* A call of the device to the platform: sc_rpc::call() on the request     *)
(* task, sc_rpc::deliver_response() on the esp-mqtt task.  They share the  *)
(* correlation of the one outstanding call, the answer buffer (both under  *)
(* call_lock) and one event bit (outside it).  The broker keeps the        *)
(* session of a device that reboots, and repeats what was not acknowledged.*)
(*                                                                         *)
(* A byte of an answer is the answer itself; a correlation "c<n>" is n,    *)
(* and 0 is the empty one.                                                 *)
(***************************************************************************)
EXTENDS Naturals, FiniteSets

CONSTANTS
  BufSize,        \* CALL_BUF_SIZE
  AnswerSizes,    \* the sizes an answer may have
  MaxCalls,       \* bound: calls per boot
  MaxBoots,       \* bound: boots of the device
  MaxDeliveries   \* bound: answers delivered, repeated ones included

ASSUME SizesAssumption == BufSize \in Nat \ {0} /\ AnswerSizes \subseteq Nat \ {0}
ASSUME CallBoundsAssumption ==
  MaxCalls \in Nat /\ MaxBoots \in Nat /\ MaxDeliveries \in Nat

VARIABLES
  boot,           \* the number of this boot
  call_counter,   \* calls made since boot
  correlation,    \* call_correlation, 0 while no call is waiting
  call_buf, call_len, call_overflow,
  call_bit,       \* BIT_CALL_DONE
  pc,             \* request task: where it is in call()
  ret, len,       \* request task: what it knows of the outcome
  rx,             \* the answer being received, and up to where
  mqtt_pc,        \* esp-mqtt task: "idle", or "notify" between lock and bit
  asked,          \* calls the platform has received
  answers,        \* the answers it has sent
  deliveries,
  results         \* what call() returned, for every call made

lockVars == <<correlation, call_buf, call_len, call_overflow>>
taskVars == <<call_counter, pc, ret, len>>
mqttVars == <<rx, mqtt_pc, deliveries>>
platform == <<asked, answers>>
vars == <<boot, lockVars, call_bit, taskVars, mqttVars, platform, results>>

Call == [boot: Nat, n: Nat]
Message == [call: Call, size: AnswerSizes]

(* A byte of the buffer that no answer has been written to since it was    *)
(* allocated; its value is whatever the heap held.                         *)
Garbage == [call |-> [boot |-> 0, n |-> 0], size |-> 0]
NoMessage == Garbage
Current == [boot |-> boot, n |-> call_counter]

--------------------------------------------------------------------------------
(* The request task, inside call() *)

(* The outcome, and the answers that the parsed text is made of.           *)
Return(status, from) ==
  /\ results' = results \cup {[call |-> Current, status |-> status, from |-> from]}
  /\ pc' = "idle"

(* Mutant: the length of the last answer stays until the next one arrives. *)
BeginKeepsLength ==
  /\ pc = "idle" /\ call_counter < MaxCalls
  /\ call_counter' = call_counter + 1
  /\ correlation' = call_counter + 1
  /\ call_overflow' = FALSE
  /\ pc' = "clear"
  /\ UNCHANGED <<boot, call_buf, call_len, call_bit, ret, len, mqttVars, platform, results>>

(* The next call: the counter, then the correlation and the empty buffer.  *)
Begin ==
  /\ pc = "idle" /\ call_counter < MaxCalls
  /\ call_counter' = call_counter + 1
  /\ correlation' = call_counter + 1
  /\ call_len' = 0 /\ call_overflow' = FALSE
  /\ pc' = "clear"
  /\ UNCHANGED <<boot, call_buf, call_bit, ret, len, mqttVars, platform, results>>

(* Mutant: the bit is cleared when the request is out, not before. *)
ClearBitLate ==
  /\ \/ pc = "clear" /\ pc' = "publish" /\ UNCHANGED call_bit
     \/ pc = "wait" /\ call_bit' = FALSE /\ UNCHANGED pc
  /\ UNCHANGED <<boot, lockVars, call_counter, ret, len, mqttVars, platform, results>>

ClearBit ==
  /\ pc = "clear"
  /\ call_bit' = FALSE
  /\ pc' = "publish"
  /\ UNCHANGED <<boot, lockVars, call_counter, ret, len, mqttVars, platform, results>>

(* A publish may fail: offline, lock timeout, full outbox. *)
Publish ==
  /\ pc = "publish"
  /\ \/ asked' = asked \cup {Current} /\ pc' = "wait" /\ UNCHANGED ret
     \/ ret' = "not_sent" /\ pc' = "end" /\ UNCHANGED asked
  /\ UNCHANGED <<boot, lockVars, call_bit, call_counter, len, mqttVars, answers, results>>

(* xEventGroupWaitBits(): the bit wins over the timeout and is cleared. *)
WaitBit ==
  /\ pc = "wait"
  /\ ret' = IF call_bit THEN "answered" ELSE "timeout"
  /\ call_bit' = FALSE
  /\ pc' = "end"
  /\ UNCHANGED <<boot, lockVars, call_counter, len, mqttVars, platform, results>>

(* Mutant: the call stops listening only when the next one begins. *)
EndKeepsCorrelation ==
  /\ pc = "end"
  /\ len' = call_len
  /\ IF ret = "answered" /\ ~call_overflow
     THEN pc' = "parse" /\ UNCHANGED results
     ELSE Return(IF ret = "answered" THEN "too_big" ELSE ret, {})
  /\ UNCHANGED <<boot, lockVars, call_bit, call_counter, ret, mqttVars, platform>>

(* From here on no answer is ours; the buffer may be parsed unlocked. *)
End ==
  /\ pc = "end"
  /\ correlation' = 0
  /\ len' = call_len
  /\ IF ret = "answered" /\ ~call_overflow
     THEN pc' = "parse" /\ UNCHANGED results
     ELSE Return(IF ret = "answered" THEN "too_big" ELSE ret, {})
  /\ UNCHANGED <<boot, call_buf, call_len, call_overflow, call_bit, call_counter, ret,
                 mqttVars, platform>>

(* sc_json_reader::parse() on what is in the buffer.  It is not cleared    *)
(* between calls, so the bytes in front of the last fragment may be those  *)
(* of earlier answers, and jsmn takes the first document it finds: it ends *)
(* at a NUL, and most of what follows a document is let through.  Hence    *)
(* - with the whole of one answer in front, that answer is the document;   *)
(* - a part of one answer alone is an object that is not closed: refused;  *)
(* - parts of several may happen to fit together;                          *)
(* - anything may be refused: for what follows the document, because it    *)
(*   needs too many tokens, or as it is no object.                         *)
(* "parsed" stands for ESP_OK and for ESP_FAIL, as the document says.      *)
Origins == {call_buf[i] : i \in 1 .. len}
Leads(m) == m.size <= len /\ \A i \in 1 .. m.size : call_buf[i] = m

Parse ==
  /\ pc = "parse"
  /\ \/ \E m \in answers : Leads(m) /\ Return("parsed", {m})
     \/ /\ Cardinality(Origins) > 1 /\ ~\E m \in answers : Leads(m)
        /\ Return("parsed", Origins)
     \/ Return("unparsed", {})
  /\ UNCHANGED <<boot, lockVars, call_bit, call_counter, ret, len, mqttVars, platform>>

--------------------------------------------------------------------------------
(* The esp-mqtt task *)

(* Mutant: the last byte of the buffer is used, too. *)
DeliverOffByOne(m, off, n) ==
  LET ours == correlation # 0 /\ correlation = m.call.n
      fits == off + n <= BufSize
      whole == off + n >= m.size
  IN /\ call_buf' = IF ours /\ fits
                    THEN [i \in DOMAIN call_buf |->
                            IF off < i /\ i <= off + n THEN m ELSE call_buf[i]]
                    ELSE call_buf
     /\ call_len' = IF ours /\ fits THEN off + n ELSE call_len
     /\ call_overflow' = (call_overflow \/ (ours /\ ~fits))
     /\ mqtt_pc' = IF ours /\ whole THEN "notify" ELSE "idle"
     /\ rx' = IF whole THEN [msg |-> NoMessage, off |-> 0] ELSE [msg |-> m, off |-> off + n]

(* deliver_response() inside call_lock, for the bytes off+1 .. off+n of m. *)
Deliver(m, off, n) ==
  LET ours == correlation # 0 /\ correlation = m.call.n
      fits == off + n < BufSize
      whole == off + n >= m.size
  IN /\ call_buf' = IF ours /\ fits
                    THEN [i \in DOMAIN call_buf |->
                            IF off < i /\ i <= off + n THEN m ELSE call_buf[i]]
                    ELSE call_buf
     /\ call_len' = IF ours /\ fits THEN off + n ELSE call_len
     /\ call_overflow' = (call_overflow \/ (ours /\ ~fits))
     /\ mqtt_pc' = IF ours /\ whole THEN "notify" ELSE "idle"
     /\ rx' = IF whole THEN [msg |-> NoMessage, off |-> 0] ELSE [msg |-> m, off |-> off + n]

FirstEvent(m, n) ==
  /\ mqtt_pc = "idle" /\ rx.msg = NoMessage /\ deliveries < MaxDeliveries
  /\ Deliver(m, 0, n)
  /\ deliveries' = deliveries + 1
  /\ UNCHANGED <<boot, correlation, call_bit, taskVars, platform, results>>

NextEvent(n) ==
  /\ mqtt_pc = "idle" /\ rx.msg # NoMessage
  /\ Deliver(rx.msg, rx.off, n)
  /\ UNCHANGED <<boot, correlation, call_bit, taskVars, deliveries, platform, results>>

(* deliver_response() after call_lock. *)
Notify ==
  /\ mqtt_pc = "notify"
  /\ call_bit' = TRUE
  /\ mqtt_pc' = "idle"
  /\ UNCHANGED <<boot, lockVars, taskVars, rx, deliveries, platform, results>>

(* The connection is lost in the middle of an answer. *)
RxLost ==
  /\ mqtt_pc = "idle" /\ rx.msg # NoMessage
  /\ rx' = [msg |-> NoMessage, off |-> 0]
  /\ UNCHANGED <<boot, lockVars, call_bit, taskVars, mqtt_pc, deliveries, platform,
                 results>>

--------------------------------------------------------------------------------
(* The platform answers a call at most once, sooner or later. *)
PlatformAnswers(c, size) ==
  /\ \A m \in answers : m.call # c
  /\ answers' = answers \cup {[call |-> c, size |-> size]}
  /\ UNCHANGED <<boot, lockVars, call_bit, taskVars, mqttVars, asked, results>>

(* The device's side of everything starts anew; the broker's does not. *)
Reboot ==
  /\ boot < MaxBoots
  /\ boot' = boot + 1
  /\ call_counter' = 0 /\ correlation' = 0
  /\ call_buf' = [i \in 1 .. BufSize |-> Garbage]
  /\ call_len' = 0 /\ call_overflow' = FALSE /\ call_bit' = FALSE
  /\ pc' = "idle" /\ ret' = "none" /\ len' = 0
  /\ rx' = [msg |-> NoMessage, off |-> 0] /\ mqtt_pc' = "idle"
  /\ UNCHANGED <<deliveries, platform, results>>

Init ==
  /\ boot = 1
  /\ call_counter = 0 /\ correlation = 0
  /\ call_buf = [i \in 1 .. BufSize |-> Garbage]
  /\ call_len = 0 /\ call_overflow = FALSE /\ call_bit = FALSE
  /\ pc = "idle" /\ ret = "none" /\ len = 0
  /\ rx = [msg |-> NoMessage, off |-> 0] /\ mqtt_pc = "idle" /\ deliveries = 0
  /\ asked = {} /\ answers = {} /\ results = {}

RequestTask == Begin \/ ClearBit \/ Publish \/ WaitBit \/ End \/ Parse

MqttTask ==
  \/ \E m \in answers : \E n \in 1 .. m.size : FirstEvent(m, n)
  \/ rx.msg # NoMessage /\ \E n \in 1 .. (rx.msg.size - rx.off) : NextEvent(n)
  \/ Notify \/ RxLost

Platform ==
  \E c \in asked, size \in AnswerSizes : PlatformAnswers(c, size)

Next == RequestTask \/ MqttTask \/ Platform \/ Reboot

Spec == Init /\ [][Next]_vars

--------------------------------------------------------------------------------
(* Properties *)

Status == {"parsed", "unparsed", "too_big", "timeout", "not_sent"}

(* The type of every variable. *)
TypeOK ==
  /\ boot \in Nat /\ call_counter \in Nat /\ correlation \in Nat
  /\ call_buf \in [1 .. BufSize -> Message \cup {Garbage}]
  /\ call_len \in 0 .. BufSize - 1 /\ call_overflow \in BOOLEAN /\ call_bit \in BOOLEAN
  /\ pc \in {"idle", "clear", "publish", "wait", "end", "parse"}
  /\ ret \in {"none", "answered", "timeout", "not_sent"} /\ len \in 0 .. BufSize - 1
  /\ rx \in [msg: Message \cup {NoMessage}, off: Nat]
  /\ mqtt_pc \in {"idle", "notify"} /\ deliveries \in Nat
  /\ asked \subseteq Call /\ answers \subseteq Message
  /\ results \subseteq [call: Call, status: Status,
                      from: SUBSET (Message \cup {Garbage})]

(* An answer to a call of an earlier boot that had the number of c. *)
OlderNamesake(c) == \E m \in answers : m.call.n = c.n /\ m.call.boot < c.boot

(* A call that succeeds, or is refused, hands out the whole of its own     *)
(* answer and nothing else - never a late answer to another call, a part   *)
(* of one, or leftovers in the buffer that is not cleared - unless the     *)
(* platform has answered a call of an earlier boot with the same number.   *)
AnswerIsWhole ==
  \A r \in results : r.status = "parsed" =>
    \/ \E m \in answers : r.from = {m} /\ m.call = r.call /\ m.size < BufSize
    \/ OlderNamesake(r.call)

(* The tokens call() returns point into call_buf: the esp-mqtt task leaves *)
(* it alone from the moment it is parsed until the next call begins.       *)
BufferStable ==
  [][(boot' = boot /\ pc \in {"parse", "idle"}) => call_buf' = call_buf]_vars

(* The whole of m, and nothing else, is in the first n bytes. *)
HoldsWhole(m, n) == n = m.size /\ \A i \in 1 .. n : call_buf[i] = m

(* The answer of the waiting call, once completely in the buffer, wakes it:*)
(* clearing the bit never undoes a wake-up of this call.                   *)
AnswerWakes ==
  pc = "wait" =>
    \A m \in answers : m.call = Current /\ HoldsWhole(m, call_len) =>
      call_bit \/ mqtt_pc = "notify"

(* sc_rpc.hpp: "ESP_ERR_TIMEOUT without an answer" - a call the platform   *)
(* never answered does not end in an answer nobody can parse.              *)
UnansweredTimesOut ==
  \A r \in results : r.status = "unparsed" => \E m \in answers : m.call = r.call

(* sc_rpc.hpp: "On ESP_OK, doc holds the parsed answer" - the answer to    *)
(* this call, not to one of an earlier boot.                               *)
OwnAnswer ==
  \A r \in results : r.status = "parsed" =>
    \A m \in r.from : m.call.n = r.call.n => m.call = r.call

================================================================================
