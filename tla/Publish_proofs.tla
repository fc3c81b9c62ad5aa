---------------------------- MODULE Publish_proofs ----------------------------
(***************************************************************************)
(* Proofs about module Publish, for any number of tasks and publishes: a   *)
(* task between the two ends of publish_topic() has publish_lock to        *)
(* itself, so the properties it has set are still those of its message     *)
(* when the message takes them.                                            *)
(***************************************************************************)
EXTENDS Publish, TLAPS

\* Who holds which lock follows from where the tasks are.
LocksHeld ==
    /\ \A p \in Publishers : pc[p] \in {"set", "send", "give"} => publish_lock = p
    /\ \A p \in Publishers : call_lock = p => pc[p] \in {"register", "unregister"}
    /\ \A p \in Publishers : pc[p] \in {"register", "unregister"} => p = Caller

\* A publish that has begun has a number.
Numbered == \A p \in Publishers : pc[p] # "idle" => count[p] >= 1

\* The task about to send finds its own properties.
PendingIsOwn == \A p \in Publishers : pc[p] = "send" => pending = Message(p)

Inv == TypeOK /\ LocksHeld /\ Numbered /\ PendingIsOwn /\ OwnProperties

LEMMA InitInv == Init => Inv
<1> SUFFICES ASSUME Init PROVE Inv
  OBVIOUS
<1>1. pending \in Props /\ wire \in Props \X Props
  <2>1. NoProps \in Props
    BY DEF Props
  <2>2. pending = NoProps /\ wire = <<NoProps, NoProps>>
    BY DEF Init
  <2> QED
    BY <2>1, <2>2
<1>2. TypeOK
  <2>1. pc \in [Publishers -> {"idle", "register", "check", "take", "set", "send", "give", "unregister"}]
    BY DEF Init
  <2>2. count \in [Publishers -> 0..MaxPublishes]
    BY PublishAssumption DEF Init
  <2> QED
    BY <1>1, <2>1, <2>2 DEF Init, TypeOK
<1>3. LocksHeld
  BY PublishAssumption DEF Init, LocksHeld, Nobody
<1> QED
  BY <1>2, <1>3 DEF Init, Inv, Numbered, PendingIsOwn, OwnProperties

LEMMA NextInv == Inv /\ [Next]_vars => Inv'
<1> SUFFICES ASSUME Inv, [Next]_vars PROVE Inv'
  OBVIOUS
<1> USE PublishAssumption DEF Inv, TypeOK, LocksHeld, Numbered, PendingIsOwn, OwnProperties, Message,
        Goto, Returned
<1>1. ASSUME NEW p \in Publishers, Begin(p) PROVE Inv'
  <2>1. count' \in [Publishers -> 0..MaxPublishes]
    BY <1>1 DEF Begin
  <2>2. pc' \in [Publishers -> {"idle", "register", "check", "take", "set", "send", "give", "unregister"}]
    BY <1>1 DEF Begin
  <2>3. LocksHeld'
    BY <1>1 DEF Begin
  <2>4. PendingIsOwn'
    BY <1>1 DEF Begin
  <2> QED
    BY <2>1, <2>2, <2>3, <2>4, <1>1 DEF Begin
<1>2. ASSUME NEW p \in Publishers, EnterCritical(p) PROVE Inv'
  BY <1>2 DEF EnterCritical, Nobody
<1>3. ASSUME NEW p \in Publishers, LeaveCritical(p) PROVE Inv'
  BY <1>3 DEF LeaveCritical, Nobody
<1>4. ASSUME NEW p \in Publishers, CheckConnected(p) PROVE Inv'
  BY <1>4 DEF CheckConnected
<1>5. ASSUME NEW p \in Publishers, Take(p) PROVE Inv'
  BY <1>5 DEF Take, Nobody
<1>6. ASSUME NEW p \in Publishers, SetProperties(p) PROVE Inv'
  <2>1. <<p, count[p]>> \in Props
    BY <1>6 DEF SetProperties, Props
  <2> QED
    BY <1>6, <2>1 DEF SetProperties
<1>7. ASSUME NEW p \in Publishers, Send(p) PROVE Inv'
  BY <1>7 DEF Send, Props
<1>8. ASSUME NEW p \in Publishers, Give(p) PROVE Inv'
  BY <1>8 DEF Give
<1>9. CASE Event
  BY <1>9 DEF Event
<1>10. CASE Deliver
  BY <1>10 DEF Deliver, MqttTask
<1>11. CASE HandleEvent
  BY <1>11 DEF HandleEvent, Nobody
<1>12. CASE UNCHANGED vars
  BY <1>12 DEF vars
<1> QED
  BY <1>1, <1>2, <1>3, <1>4, <1>5, <1>6, <1>7, <1>8, <1>9, <1>10, <1>11, <1>12 DEF Next, Step

THEOREM PublishInvariant == Spec => []Inv
  BY InitInv, NextInv, PTL DEF Spec

\* A publish and its MQTT 5 properties stay together.
THEOREM PropertiesStayTogether == Spec => []OwnProperties
  BY PublishInvariant, PTL DEF Inv

\* The state of the publish path is well-formed, in particular only call() and the
\* esp-mqtt task ever hold call_lock.
THEOREM PublishTypeCorrect == Spec => []TypeOK
  BY PublishInvariant, PTL DEF Inv
=============================================================================
