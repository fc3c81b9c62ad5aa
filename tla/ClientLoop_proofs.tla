--------------------------- MODULE ClientLoop_proofs ---------------------------
(***************************************************************************)
(* Proofs about module ClientLoop, for every width of the tick counter,    *)
(* every heartbeat and every busy time that TicksAssumption admits, and    *)
(* any number of losses and stops.                                         *)
(***************************************************************************)
EXTENDS ClientLoop, TLAPS

(* What is left to the deadline, before the counter wraps.                 *)
Ahead == Heartbeat - since

(* Deadline and counter are that far apart, up to one turn of the counter. *)
DeadlineKept == next_report - now \in {Ahead, Ahead + TickMod, Ahead - TickMod}

(* How late the deadline may be where the task is: a sleep ends with it, a *)
(* round of the loop takes MaxBusy, and two rounds may follow each other   *)
(* because the first one may leave the deadline just ahead.                *)
Punctual ==
  /\ task_pc = "wait" => since + left < Heartbeat + MaxBusy
  /\ task_pc = "loop" => since < Heartbeat + busy
  /\ task_pc \notin {"wait", "loop"} => since < Heartbeat + MaxBusy + busy

(* Everything that leads to a confirmation comes from a subscription.      *)
ReachedFirst ==
  mqtt_pc \in {"connected", "tell_up"} \/ "connected" \in bits \/ task_pc \in {"birth", "confirm"}
    => reached

Timely == DeadlineKept /\ Punctual /\ HeartbeatOnTime

IInv == TypeOK /\ Timely /\ ReachedFirst /\ ConfirmedReached

--------------------------------------------------------------------------------
(* The tick counter *)

(* What the remainder by the turn of the counter is, one turn around 0.    *)
LEMMA OneTurn ==
  ASSUME NEW T \in Nat \ {0}, NEW d \in Int
  PROVE  /\ d \in 0 .. T - 1 => d % T = d
         /\ d \in -T .. -1 => d % T = d + T
         /\ d \in T .. 2 * T - 1 => d % T = d - T
<1>1. d \in 0 .. T - 1 => d % T = d
  BY SMT
<1>2. d \in -T .. -1 => d % T = d + T
  BY SMT
<1>3. d \in T .. 2 * T - 1 => d % T = d - T
  BY SMT
<1> QED
  BY <1>1, <1>2, <1>3

(* The counter after at most one turn. *)
LEMMA TurnForward ==
  ASSUME NEW T \in Nat \ {0}, NEW n \in 0 .. T - 1, NEW k \in 0 .. T
  PROVE  (n + k) % T \in {n + k, n + k - T} /\ (n + k) % T \in 0 .. T - 1
<1> DEFINE d == n + k
<1>1. d \in Int /\ 0 <= d /\ d < 2 * T
  OBVIOUS
<1> HIDE DEF d
<1>2. CASE d < T
  <2>1. d \in 0 .. T - 1
    BY <1>1, <1>2
  <2>2. d % T = d
    BY <1>1, <2>1, OneTurn
  <2> QED
    BY <2>1, <2>2 DEF d
<1>3. CASE d >= T
  <2>1. d \in T .. 2 * T - 1
    BY <1>1, <1>3
  <2>2. d % T = d - T
    BY <1>1, <2>1, OneTurn
  <2>3. d - T \in 0 .. T - 1
    BY <1>1, <2>1
  <2> QED
    BY <2>2, <2>3 DEF d
<1> QED
  BY <1>1, <1>2, <1>3

(* A deadline that is late by less than half a turn is read as what it is. *)
LEMMA SignedAhead ==
  ASSUME TypeOK, DeadlineKept, since < Heartbeat + 2 * MaxBusy
  PROVE  Signed(next_report - now) = Ahead
<1> DEFINE d == next_report - now
<1>1. /\ TickMod \in Nat \ {0} /\ Heartbeat \in Nat /\ MaxBusy \in Nat
      /\ 2 * Heartbeat < TickMod /\ 4 * MaxBusy <= TickMod
  BY TicksAssumption
<1>2. d \in Int /\ -TickMod < d /\ d < TickMod
  BY <1>1 DEF TypeOK
<1>3. Ahead \in Int /\ Ahead <= Heartbeat /\ Ahead > -(2 * MaxBusy)
  BY <1>1 DEF TypeOK, Ahead
<1>4. d \in {Ahead, Ahead + TickMod, Ahead - TickMod}
  BY DEF DeadlineKept
<1> HIDE DEF d
<1>5. CASE Ahead >= 0
  <2>1. d = Ahead \/ d = Ahead - TickMod
    BY <1>1, <1>2, <1>3, <1>4, <1>5
  <2>2. d % TickMod = Ahead
    BY <1>1, <1>2, <1>3, <1>5, <2>1, OneTurn
  <2> QED
    BY <1>1, <1>3, <2>2 DEF Signed, d
<1>6. CASE Ahead < 0
  <2>1. d = Ahead \/ d = Ahead + TickMod
    BY <1>1, <1>2, <1>3, <1>4, <1>6
  <2>2. ASSUME d = Ahead PROVE d % TickMod = Ahead + TickMod
    <3>1. d \in -TickMod .. -1
      BY <1>1, <1>2, <1>6, <2>2
    <3> QED
      BY <1>1, <1>2, <2>2, <3>1, OneTurn
  <2>3. ASSUME d = Ahead + TickMod PROVE d % TickMod = Ahead + TickMod
    <3>1. d \in 0 .. TickMod - 1
      BY <1>1, <1>2, <1>3, <1>6, <2>3
    <3> QED
      BY <1>1, <1>2, <2>3, <3>1, OneTurn
  <2>4. d % TickMod = Ahead + TickMod
    BY <2>1, <2>2, <2>3
  <2> QED
    BY <1>1, <1>3, <1>6, <2>4 DEF Signed, d
<1> QED
  BY <1>3, <1>5, <1>6

(* What a new deadline is, wherever the counter stands. *)
LEMMA DeadlineSet ==
  ASSUME TypeOK, Deadline, now' = now
  PROVE  /\ next_report' \in 0 .. TickMod - 1 /\ since' = 0
         /\ DeadlineKept'
<1>1. TickMod \in Nat \ {0} /\ Heartbeat \in Nat /\ 2 * Heartbeat < TickMod
  BY TicksAssumption
<1>2. now \in Int /\ 0 <= now /\ now < TickMod
  BY <1>1 DEF TypeOK
<1>3. (now + Heartbeat) % TickMod \in {now + Heartbeat, now + Heartbeat - TickMod}
  BY <1>1, <1>2, TurnForward
<1>4. next_report' \in 0 .. TickMod - 1
  BY <1>1, <1>2, TurnForward DEF Deadline
<1>5. since' = 0 /\ Ahead' = Heartbeat
  BY <1>1 DEF Deadline, Ahead
<1> QED
  BY <1>1, <1>2, <1>3, <1>4, <1>5 DEF Deadline, DeadlineKept

(* Time that stands still, for a task that does not move. *)
LEMMA NoTime ==
  ASSUME Timely, UNCHANGED <<timeVars, task_pc>>
  PROVE  Timely'
BY DEF Timely, DeadlineKept, Punctual, HeartbeatOnTime, Ahead, Signed, timeVars

(* The same, for a task that moves on in its round. *)
LEMMA InRound ==
  ASSUME Timely, UNCHANGED timeVars,
         task_pc \notin {"wait", "loop"}, task_pc' \notin {"wait", "loop"}
  PROVE  Timely'
BY DEF Timely, DeadlineKept, Punctual, HeartbeatOnTime, Ahead, Signed, timeVars

(* HeartbeatOnTime follows from where the task may be. *)
LEMMA OnTime ==
  ASSUME TypeOK, DeadlineKept, Punctual
  PROVE  HeartbeatOnTime
<1>1. Heartbeat \in Nat /\ MaxBusy \in Nat \ {0}
  BY TicksAssumption
<1>2. since < Heartbeat + 2 * MaxBusy
  BY <1>1 DEF TypeOK, Punctual
<1> QED
  BY <1>2, SignedAhead DEF HeartbeatOnTime, Ahead

(* The same of the next state. *)
LEMMA OnTimeNext == TypeOK' /\ DeadlineKept' /\ Punctual' => HeartbeatOnTime'
<1>1. TypeOK /\ DeadlineKept /\ Punctual => HeartbeatOnTime
  BY OnTime
<1> QED
  BY <1>1, PTL

--------------------------------------------------------------------------------
LEMMA InitInv == Init => IInv
<1> SUFFICES ASSUME Init PROVE IInv
  OBVIOUS
<1>1. /\ TickMod \in Nat \ {0} /\ Heartbeat \in Nat \ {0} /\ MaxBusy \in Nat \ {0}
      /\ 2 * Heartbeat < TickMod
  BY TicksAssumption
<1>2. next_report = Heartbeat
  BY <1>1, OneTurn DEF Init
<1>3. TypeOK
  <2>1. /\ now \in 0 .. TickMod - 1 /\ next_report \in 0 .. TickMod - 1
        /\ left \in 0 .. Heartbeat /\ busy \in 0 .. MaxBusy /\ since \in Nat
    BY <1>1, <1>2 DEF Init
  <2>2. losses \in 0 .. MaxLosses /\ stops \in 0 .. MaxStops
    BY LossesAssumption DEF Init
  <2> QED
    BY <2>1, <2>2, Zenon DEF Init, TypeOK
<1>4. DeadlineKept /\ Punctual
  BY <1>1, <1>2 DEF Init, DeadlineKept, Punctual, Ahead
<1>5. ReachedFirst /\ ConfirmedReached
  BY DEF Init, ReachedFirst, ConfirmedReached
<1> QED
  BY <1>3, <1>4, <1>5, OnTime DEF IInv, Timely

(* The tasks that do not look at the time *)

LEMMA MqttTaskInv == IInv /\ MqttTask => IInv'
<1> SUFFICES ASSUME IInv, MqttTask PROVE IInv'
  OBVIOUS
<1>1. Timely'
  BY NoTime DEF IInv, MqttTask, MqttHandler, Subscribe, Disconnected, Connected, Tell
<1>2. CASE Subscribe
  <2>1. TypeOK'
    <3>1. link' \in BOOLEAN /\ reached' \in BOOLEAN
      BY <1>2, Zenon DEF IInv, TypeOK, Subscribe
    <3> QED
      BY <1>2, <3>1 DEF IInv, TypeOK, Subscribe, Bits, mqttVars, firstVars, timeVars, bounds
  <2>2. ReachedFirst' /\ ConfirmedReached'
    BY <1>2 DEF IInv, TypeOK, ReachedFirst, ConfirmedReached, Subscribe, mqttVars, firstVars
  <2> QED
    BY <1>1, <2>1, <2>2 DEF IInv
<1>3. CASE Disconnected
  <2>1. TypeOK'
    <3>1. link' \in BOOLEAN /\ is_connected' \in BOOLEAN
      BY <1>3, Zenon DEF IInv, TypeOK, Disconnected
    <3> QED
      BY <1>3, <3>1, LossesAssumption DEF IInv, TypeOK, Disconnected, Bits, mqttVars, firstVars, timeVars, bounds
  <2>2. ReachedFirst' /\ ConfirmedReached'
    BY <1>3, Zenon DEF IInv, TypeOK, ReachedFirst, ConfirmedReached, Disconnected, mqttVars, firstVars
  <2> QED
    BY <1>1, <2>1, <2>2 DEF IInv
<1>4. CASE Connected
  <2>1. TypeOK'
    <3>1. is_connected' \in BOOLEAN
      BY <1>4, Zenon DEF IInv, TypeOK, Connected
    <3> QED
      BY <1>4, <3>1 DEF IInv, TypeOK, Connected, Bits, mqttVars, firstVars, timeVars, bounds
  <2>2. ReachedFirst' /\ ConfirmedReached'
    BY <1>4, Zenon DEF IInv, TypeOK, ReachedFirst, ConfirmedReached, Connected, mqttVars, firstVars
  <2> QED
    BY <1>1, <2>1, <2>2 DEF IInv
<1>5. CASE Tell
  <2>1. TypeOK'
    <3>1. bits' \subseteq Bits /\ mqtt_pc' = "idle"
      BY <1>5, Zenon DEF IInv, TypeOK, Tell, Bits
    <3> QED
      BY <1>5, <3>1 DEF IInv, TypeOK, Tell, firstVars, timeVars, bounds
  <2>2. ReachedFirst' /\ ConfirmedReached'
    BY <1>5, Zenon DEF IInv, TypeOK, ReachedFirst, ConfirmedReached, Tell, mqttVars, firstVars
  <2> QED
    BY <1>1, <2>1, <2>2 DEF IInv
<1> QED
  BY <1>2, <1>3, <1>4, <1>5 DEF MqttTask, MqttHandler

LEMMA ApplicationInv == IInv /\ Application => IInv'
<1> SUFFICES ASSUME IInv, Application PROVE IInv'
  OBVIOUS
<1>1. Timely'
  BY NoTime DEF IInv, Application, Start, Stop, StopClient, RequestReport
<1>2. CASE Start
  <2>1. TypeOK'
    BY <1>2 DEF IInv, TypeOK, Start, Bits, mqttVars, firstVars, timeVars, bounds
  <2>2. ReachedFirst' /\ ConfirmedReached'
    BY <1>2, Zenon DEF IInv, TypeOK, ReachedFirst, ConfirmedReached, Start, mqttVars, firstVars
  <2> QED
    BY <1>1, <2>1, <2>2 DEF IInv
<1>3. CASE Stop
  <2>1. TypeOK'
    <3>1. is_connected' \in BOOLEAN
      BY <1>3, Zenon DEF IInv, TypeOK, Stop
    <3> QED
      BY <1>3, <3>1, LossesAssumption DEF IInv, TypeOK, Stop, Bits, mqttVars, firstVars, timeVars, bounds
  <2>2. ReachedFirst' /\ ConfirmedReached'
    BY <1>3, Zenon DEF IInv, TypeOK, ReachedFirst, ConfirmedReached, Stop, mqttVars, firstVars
  <2> QED
    BY <1>1, <2>1, <2>2 DEF IInv
<1>4. CASE StopClient
  <2>1. TypeOK'
    <3>1. link' \in BOOLEAN
      BY <1>4, Zenon DEF IInv, TypeOK, StopClient
    <3> QED
      BY <1>4, <3>1 DEF IInv, TypeOK, StopClient, Bits, mqttVars, firstVars, timeVars, bounds
  <2>2. ReachedFirst' /\ ConfirmedReached'
    BY <1>4, Zenon DEF IInv, TypeOK, ReachedFirst, ConfirmedReached, StopClient, mqttVars, firstVars
  <2> QED
    BY <1>1, <2>1, <2>2 DEF IInv
<1>5. CASE RequestReport
  <2>1. TypeOK'
    BY <1>5 DEF IInv, TypeOK, RequestReport, Bits, mqttVars, firstVars, timeVars, bounds
  <2>2. ReachedFirst' /\ ConfirmedReached'
    BY <1>5, Zenon DEF IInv, TypeOK, ReachedFirst, ConfirmedReached, RequestReport, mqttVars, firstVars
  <2> QED
    BY <1>1, <2>1, <2>2 DEF IInv
<1> QED
  BY <1>2, <1>3, <1>4, <1>5 DEF Application

--------------------------------------------------------------------------------
(* The request task *)

LEMMA SleepInv == IInv /\ Sleep => IInv'
<1> SUFFICES ASSUME IInv, Sleep PROVE IInv'
  OBVIOUS
<1>1. Heartbeat \in Nat /\ MaxBusy \in Nat \ {0} /\ since \in Nat /\ busy \in 0 .. MaxBusy
  BY TicksAssumption DEF IInv, TypeOK
<1>2. left' = IF Ahead > 0 THEN Ahead ELSE 0
  BY DEF IInv, Timely, HeartbeatOnTime, Ahead, Sleep
<1>3. left' \in 0 .. Heartbeat /\ since + left' < Heartbeat + MaxBusy
  BY <1>1, <1>2 DEF IInv, Timely, Punctual, Ahead, Sleep
<1>4. TypeOK'
  BY <1>3 DEF IInv, TypeOK, Sleep, mqttVars, firstVars, bounds
<1>5. Timely'
  BY <1>3 DEF IInv, Timely, DeadlineKept, Punctual, HeartbeatOnTime, Ahead, Signed, Sleep
<1>6. ReachedFirst' /\ ConfirmedReached'
  BY DEF IInv, ReachedFirst, ConfirmedReached, Sleep, mqttVars, firstVars
<1> QED
  BY <1>4, <1>5, <1>6 DEF IInv

LEMMA WakeInv == IInv /\ Wake => IInv'
<1> SUFFICES ASSUME IInv, Wake PROVE IInv'
  OBVIOUS
<1>1. Heartbeat \in Nat /\ MaxBusy \in Nat \ {0} /\ since \in Nat /\ left \in Nat
  BY TicksAssumption DEF IInv, TypeOK
<1>2. TypeOK'
  BY <1>1 DEF IInv, TypeOK, Wake, mqttVars, firstVars, bounds
<1>3. Timely'
  BY <1>1 DEF IInv, Timely, DeadlineKept, Punctual, HeartbeatOnTime, Ahead, Signed, Wake
<1>4. ReachedFirst' /\ ConfirmedReached'
  BY DEF IInv, ReachedFirst, ConfirmedReached, Wake, mqttVars, firstVars
<1> QED
  BY <1>2, <1>3, <1>4 DEF IInv

LEMMA FirstInv == IInv /\ (Birth \/ Confirm \/ SyncTime \/ TellDown) => IInv'
<1> SUFFICES ASSUME IInv, Birth \/ Confirm \/ SyncTime \/ TellDown PROVE IInv'
  OBVIOUS
<1>1. Timely'
  BY InRound DEF IInv, Birth, Confirm, SyncTime, TellDown
<1>2. CASE Birth
  <2>1. TypeOK'
    BY <1>2 DEF Birth, IInv, TypeOK, mqttVars, firstVars, timeVars, bounds
  <2>2. ReachedFirst' /\ ConfirmedReached'
    BY <1>2 DEF Birth, IInv, ReachedFirst, ConfirmedReached, mqttVars, firstVars
  <2> QED
    BY <1>1, <2>1, <2>2 DEF IInv
<1>3. CASE Confirm
  <2>1. TypeOK'
    <3>1. first_connection' \in BOOLEAN /\ image' \in {"pending", "valid"}
      BY <1>3, Zenon DEF Confirm
    <3> QED
      BY <1>3, <3>1 DEF Confirm, IInv, TypeOK, mqttVars, timeVars, bounds
  <2>2. ReachedFirst' /\ ConfirmedReached'
    BY <1>3 DEF Confirm, IInv, ReachedFirst, ConfirmedReached, mqttVars
  <2> QED
    BY <1>1, <2>1, <2>2 DEF IInv
<1>4. CASE SyncTime
  <2>1. TypeOK'
    BY <1>4 DEF SyncTime, IInv, TypeOK, mqttVars, firstVars, timeVars, bounds
  <2>2. ReachedFirst' /\ ConfirmedReached'
    BY <1>4 DEF SyncTime, IInv, ReachedFirst, ConfirmedReached, mqttVars, firstVars
  <2> QED
    BY <1>1, <2>1, <2>2 DEF IInv
<1>5. CASE TellDown
  <2>1. TypeOK'
    BY <1>5 DEF TellDown, IInv, TypeOK, mqttVars, firstVars, timeVars, bounds
  <2>2. ReachedFirst' /\ ConfirmedReached'
    BY <1>5 DEF TellDown, IInv, ReachedFirst, ConfirmedReached, mqttVars, firstVars
  <2> QED
    BY <1>1, <2>1, <2>2 DEF IInv
<1> QED
  BY <1>2, <1>3, <1>4, <1>5

LEMMA TellUpInv == IInv /\ TellUp => IInv'
<1> SUFFICES ASSUME IInv, TellUp PROVE IInv'
  OBVIOUS
<1>1. Heartbeat \in Nat /\ MaxBusy \in Nat \ {0} /\ busy \in Nat
  BY TicksAssumption DEF IInv, TypeOK
<1>2. next_report' \in 0 .. TickMod - 1 /\ since' = 0 /\ DeadlineKept'
  BY DeadlineSet DEF IInv, TellUp
<1>3. TypeOK'
  BY <1>2 DEF IInv, TypeOK, TellUp, mqttVars, firstVars, bounds
<1>4. Punctual'
  BY <1>1, <1>2 DEF Punctual, TellUp
<1>5. HeartbeatOnTime'
  BY <1>2, <1>3, <1>4, OnTimeNext
<1>6. ReachedFirst' /\ ConfirmedReached'
  BY DEF IInv, ReachedFirst, ConfirmedReached, TellUp, mqttVars, firstVars
<1> QED
  BY <1>2, <1>3, <1>4, <1>5, <1>6 DEF IInv, Timely

LEMMA ReportInv == IInv /\ Report => IInv'
<1> SUFFICES ASSUME IInv, Report PROVE IInv'
  OBVIOUS
<1>1. Heartbeat \in Nat \ {0} /\ MaxBusy \in Nat \ {0} /\ busy \in Nat /\ since \in Nat
  BY TicksAssumption DEF IInv, TypeOK
<1>2. /\ next_report' \in 0 .. TickMod - 1 /\ since' \in Nat
      /\ DeadlineKept' /\ since' < Heartbeat
  <2>1. CASE "report" \in woke \/ Signed(next_report - now) <= 0
    BY <1>1, <2>1, DeadlineSet DEF IInv, Report
  <2>2. CASE ~("report" \in woke \/ Signed(next_report - now) <= 0)
    <3>1. next_report' = next_report /\ since' = since /\ now' = now
      BY <2>2 DEF Report
    <3>2. Heartbeat - since > 0
      BY <1>1, <2>2 DEF IInv, Timely, HeartbeatOnTime
    <3> QED
      BY <1>1, <3>1, <3>2 DEF IInv, TypeOK, Timely, DeadlineKept, Ahead
  <2> QED
    BY <2>1, <2>2
<1>3. TypeOK'
  BY <1>2 DEF IInv, TypeOK, Report, mqttVars, firstVars, bounds
<1>4. Punctual'
  BY <1>1, <1>2 DEF Punctual, Report
<1>5. HeartbeatOnTime'
  BY <1>2, <1>3, <1>4, OnTimeNext
<1>6. ReachedFirst' /\ ConfirmedReached'
  BY DEF IInv, ReachedFirst, ConfirmedReached, Report, mqttVars, firstVars
<1> QED
  BY <1>2, <1>3, <1>4, <1>5, <1>6 DEF IInv, Timely

LEMMA TickInv == IInv /\ Tick => IInv'
<1> SUFFICES ASSUME IInv, Tick PROVE IInv'
  OBVIOUS
<1>1. /\ TickMod \in Nat \ {0} /\ Heartbeat \in Nat \ {0} /\ MaxBusy \in Nat \ {0}
      /\ 2 * Heartbeat < TickMod /\ 4 * MaxBusy <= TickMod
  BY TicksAssumption
<1>2. now \in Int /\ 0 <= now /\ now < TickMod
  BY <1>1 DEF IInv, TypeOK
<1>3. now' \in 0 .. TickMod - 1 /\ now' \in {now + 1, now + 1 - TickMod}
  <2>1. now \in 0 .. TickMod - 1 /\ 1 \in 0 .. TickMod
    BY <1>1, <1>2
  <2> QED
    BY <1>1, <2>1, TurnForward DEF Tick
<1>4. since \in Nat /\ since' = since + 1 /\ since < Heartbeat + 2 * MaxBusy
  BY DEF IInv, TypeOK, Timely, HeartbeatOnTime, Tick
<1>5. TypeOK'
  BY <1>1, <1>3, <1>4 DEF IInv, TypeOK, Tick, mqttVars, firstVars, bounds
<1>6. DeadlineKept'
  <2>1. /\ next_report' = next_report /\ next_report \in Int
        /\ 0 <= next_report /\ next_report < TickMod
    BY <1>1 DEF IInv, TypeOK, Tick
  <2>2. Ahead \in Int /\ Ahead' = Ahead - 1
    BY <1>1, <1>4 DEF Ahead
  <2>3. next_report - now \in {Ahead, Ahead + TickMod, Ahead - TickMod}
    BY DEF IInv, Timely, DeadlineKept
  <2>4. Ahead <= Heartbeat /\ Ahead > -(2 * MaxBusy)
    BY <1>1, <1>4 DEF Ahead
  <2>5. next_report - now' \in {Ahead - 1, Ahead - 1 + TickMod, Ahead - 1 - TickMod}
    <3> DEFINE a == Ahead
    <3>1. a \in Int /\ a <= Heartbeat /\ a > -(2 * MaxBusy)
      BY <2>2, <2>4
    <3>2. next_report - now \in {a, a + TickMod, a - TickMod}
      BY <2>3
    <3>3. now' \in Int /\ 0 <= now' /\ now' < TickMod
      BY <1>1, <1>3
    <3> HIDE DEF a
    <3>4. next_report - now' \in {a - 1, a - 1 + TickMod, a - 1 - TickMod}
      <4>1. CASE now' = now + 1
        BY <1>1, <1>2, <2>1, <3>1, <3>2, <4>1
      <4>2. CASE now' = now + 1 - TickMod
        <5>1. next_report - now # a + TickMod
          BY <1>1, <1>2, <2>1, <3>1, <3>3, <4>2
        <5> QED
          BY <1>1, <1>2, <2>1, <3>1, <3>2, <4>2, <5>1
      <4> QED
        BY <1>3, <4>1, <4>2
    <3> QED
      BY <3>4 DEF a
  <2> QED
    BY <2>1, <2>2, <2>5 DEF DeadlineKept
<1>7. Punctual'
  BY <1>1, <1>4 DEF IInv, TypeOK, Timely, Punctual, Tick
<1>8. HeartbeatOnTime'
  BY <1>5, <1>6, <1>7, OnTimeNext
<1>9. ReachedFirst' /\ ConfirmedReached'
  BY DEF IInv, ReachedFirst, ConfirmedReached, Tick, mqttVars, firstVars
<1> QED
  BY <1>5, <1>6, <1>7, <1>8, <1>9 DEF IInv, Timely

--------------------------------------------------------------------------------
(* The theorems *)

LEMMA NextInv == IInv /\ [Next]_vars => IInv'
<1> SUFFICES ASSUME IInv, [Next]_vars PROVE IInv'
  OBVIOUS
<1>1. CASE UNCHANGED vars
  <2>1. Timely'
    BY <1>1, NoTime DEF IInv, vars
  <2> QED
    BY <1>1, <2>1 DEF IInv, TypeOK, ReachedFirst, ConfirmedReached, vars, mqttVars, firstVars,
       timeVars, bounds
<1> QED
  BY <1>1, MqttTaskInv, ApplicationInv, SleepInv, WakeInv, FirstInv, TellUpInv, ReportInv, TickInv
     DEF Next, RequestTask, LoopBody

THEOREM Inductive == Spec => []IInv
<1>1. Init => IInv
  BY InitInv
<1>2. IInv /\ [Next]_vars => IInv'
  BY NextInv
<1> QED
  BY <1>1, <1>2, PTL DEF Spec

(* Every variable keeps its type: the tick counts stay below the wrap, the *)
(* rest of a sleep never exceeds a heartbeat.                              *)
THEOREM TypeCorrect == Spec => []TypeOK
<1>1. IInv => TypeOK
  BY DEF IInv
<1> QED
  BY <1>1, Inductive, PTL

(* run_task() sends the heartbeat late by less than two rounds, however    *)
(* often the tick counter wraps: the signed difference of the two counts   *)
(* is what is left to the deadline.                                        *)
THEOREM HeartbeatsAreOnTime == Spec => []HeartbeatOnTime
<1>1. IInv => HeartbeatOnTime
  BY DEF IInv, Timely
<1> QED
  BY <1>1, Inductive, PTL

(* confirm_running_image() is reached only behind a connection that has    *)
(* subscribed, whatever is lost, stopped or started meanwhile.             *)
THEOREM ConfirmedHasReached == Spec => []ConfirmedReached
<1>1. IInv => ConfirmedReached
  BY DEF IInv
<1> QED
  BY <1>1, Inductive, PTL
================================================================================
