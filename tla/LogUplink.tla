------------------------------ MODULE LogUplink ------------------------------
(***************************************************************************)
(* The log uplink (src/src/sc_log_uplink.cpp).  Logging tasks store on9log *)
(* packets ("bin") and ESP_LOG lines ("text") in two no-split ring         *)
(* buffers; the upload task drains both into one batch buffer and          *)
(* publishes it.  A packet is written in pieces, by the callbacks of an    *)
(* on9log sink, between sink_start() and sink_end().                       *)
(*                                                                         *)
(* A ring buffer keeps whole entries, one after the other; the room of an  *)
(* entry is taken when it is acquired and freed when the upload task       *)
(* returns it.  Lengths are counted in units that keep the proportions of  *)
(* the real ones: a header, a drop notice and a TIME_SYNC packet are one   *)
(* unit long.                                                              *)
(***************************************************************************)
EXTENDS Integers, Sequences, FiniteSets

CONSTANTS Tasks,      \* tasks that log; the upload task is not one of them
          NoTask,     \* nobody holds sink_lock
          RingSize,   \* CONFIG_SOULCLOUD_LOG_RINGBUF_SIZE, of each ring
          BatchSize,  \* CONFIG_SOULCLOUD_LOG_BATCH_SIZE
          LineMax,    \* CONFIG_SOULCLOUD_LOG_TEXT_LINE_MAX
          PacketLens, \* lengths of on9log packets, header included
          LineLens,   \* lengths vsnprintf() reports
          MaxPackets, MaxLines \* bounds: packets and lines logged while enabled

ASSUME LogUplinkAssumption ==
    /\ NoTask \notin Tasks /\ IsFiniteSet(Tasks)
    /\ RingSize \in Nat \ {0} /\ MaxPackets \in Nat /\ MaxLines \in Nat
    /\ LineMax \in Nat \ {0, 1} /\ BatchSize \in Nat /\ LineMax < BatchSize
    /\ PacketLens \subseteq Nat \ {0} /\ LineLens \subseteq Nat \ {0}

VARIABLES binEnabled, \* bin_enabled
          ring,       \* complete entries of bin_ring and text_ring, oldest first
          acquired,   \* per ring: where its free room starts, and
          freed,      \* up to where it was returned (both without the wrap)
          dropped,    \* [bin_dropped, text_dropped]
          sinkLock,   \* the task that holds sink_lock, or NoTask
          sinkItem,   \* the packet the sink is writing, or NoEntry
          pc, job,    \* per logging task: its place (the kind of a drop it has to
                      \* count, or in a packet, or idle), and the packet it writes
          up,         \* where the upload task is
          held,       \* entry received and not returned, or NoEntry
          batch,      \* len, and what the batch buffer holds: drops told and ids
          connected,  \* sc_mqtt::connected()
          logged,     \* entries logged while enabled, of each kind
          out,        \* per kind, what publish() took: ids, and drops told in notices
          lost        \* per kind, what failed publishes took with them: how many
                      \* entries, and drops told in notices

vars == <<binEnabled, ring, acquired, freed, dropped, sinkLock, sinkItem, pc, job, up, held,
          batch, connected, logged, out, lost>>

Kinds == {"bin", "text"}
SyncLen == 1
NoticeLen == 1

\* An entry of a ring: its length, where it ends in the ring, and the ids of the
\* entries its bytes were logged with, the first byte's being its own.
Entry(len, end, id) == [len |-> len, end |-> end, data |-> <<id>>]
NoEntry == [len |-> 0, end |-> 0, data |-> <<>>]
Id(entry) == entry.data[1]

NoBatch == [len |-> 0, told |-> 0, ids |-> <<>>]

UpPc(k, at) == <<k, at>>
Delay == <<"none", "delay">>

Init ==
    /\ binEnabled = TRUE
    /\ ring = [k \in Kinds |-> <<>>]
    /\ acquired = [k \in Kinds |-> 0] /\ freed = [k \in Kinds |-> 0]
    /\ dropped = [k \in Kinds |-> 0]
    /\ sinkLock = NoTask /\ sinkItem = NoEntry
    /\ pc = [t \in Tasks |-> "idle"]
    /\ job = [t \in Tasks |-> [id |-> 0, left |-> 0]]
    /\ up = Delay /\ held = NoEntry /\ batch = NoBatch
    /\ connected = FALSE
    /\ logged = [k \in Kinds |-> 0]
    /\ out = [k \in Kinds |-> [ids |-> <<>>, told |-> 0]]
    /\ lost = [k \in Kinds |-> [entries |-> 0, told |-> 0]]

results == <<out, lost>>
uploadVars == <<freed, up, held, batch, results>>

\* A ring is full of what was acquired and not returned, read or not.
Fits(k, len) == acquired[k] - freed[k] + len <= RingSize
Acquire(k, len) == acquired' = [acquired EXCEPT ![k] = @ + len]
-----------------------------------------------------------------------------
\* The on9log sink, on the logging task that holds sink_lock.

(* Mutant: the wait for the lock has a timeout, and its result is ignored. *)
TakesAnyway == TRUE

\* xSemaphoreTake(sink_lock, portMAX_DELAY)
LockIsFree == sinkLock = NoTask

\* sink_start(): the whole packet is acquired up front or dropped.  len = 0 is a
\* plain-text record, which is not stored.
SinkStart(t, len) ==
    /\ pc[t] = "idle" /\ LockIsFree
    /\ sinkLock' = t
    /\ IF len = 0 \/ ~binEnabled
       THEN /\ pc' = [pc EXCEPT ![t] = "payload"]
            /\ job' = [job EXCEPT ![t] = [id |-> 0, left |-> 0]]
            /\ sinkItem' = NoEntry
            /\ UNCHANGED <<acquired, logged>>
       ELSE /\ logged["bin"] < MaxPackets
            /\ logged' = [logged EXCEPT !["bin"] = @ + 1]
            /\ job' = [job EXCEPT ![t] = [id |-> logged'["bin"], left |-> len - 1]]
            /\ IF Fits("bin", len)
               THEN /\ Acquire("bin", len)
                    /\ sinkItem' = Entry(len, acquired'["bin"], logged'["bin"])
                    /\ pc' = [pc EXCEPT ![t] = "payload"]
               ELSE /\ sinkItem' = NoEntry
                    /\ pc' = [pc EXCEPT ![t] = "bin"]
                    /\ UNCHANGED acquired
    /\ UNCHANGED <<binEnabled, ring, dropped, connected, uploadVars>>

(* Mutant: the packet waits for room instead of being dropped. *)
SinkWaitsForRoom(t) ==
    /\ pc[t] = "bin" /\ Fits("bin", 1 + job[t].left)
    /\ Acquire("bin", 1 + job[t].left)
    /\ sinkItem' = Entry(1 + job[t].left, acquired'["bin"], job[t].id)
    /\ pc' = [pc EXCEPT ![t] = "payload"]
    /\ UNCHANGED <<binEnabled, ring, dropped, sinkLock, job, connected, logged, uploadVars>>

\* The failed acquire is counted, by fetch_add().
SinkCountDrop(t) ==
    /\ pc[t] = "bin"
    /\ dropped' = [dropped EXCEPT !["bin"] = @ + 1]
    /\ pc' = [pc EXCEPT ![t] = "payload"]
    /\ UNCHANGED <<binEnabled, ring, acquired, sinkLock, sinkItem, job, connected, logged, uploadVars>>

\* sink_payload(): one more piece of the packet, cut to the room that is left.
SinkPayload(t) ==
    /\ pc[t] = "payload" /\ job[t].left > 0
    /\ job' = [job EXCEPT ![t].left = @ - 1]
    /\ sinkItem' = IF sinkItem # NoEntry /\ Len(sinkItem.data) < sinkItem.len
                   THEN [sinkItem EXCEPT !.data = Append(@, job[t].id)]
                   ELSE sinkItem
    /\ UNCHANGED <<binEnabled, ring, acquired, dropped, sinkLock, pc, connected, logged, uploadVars>>

\* sink_end()
SinkEnd(t) ==
    /\ pc[t] = "payload" /\ job[t].left = 0
    /\ ring' = IF sinkItem # NoEntry
               THEN [ring EXCEPT !["bin"] = Append(@, sinkItem)] ELSE ring
    /\ sinkItem' = NoEntry
    /\ sinkLock' = NoTask
    /\ pc' = [pc EXCEPT ![t] = "idle"]
    /\ job' = [job EXCEPT ![t] = [id |-> 0, left |-> 0]]
    /\ UNCHANGED <<binEnabled, acquired, dropped, connected, logged, uploadVars>>
-----------------------------------------------------------------------------
\* text_vprintf(), on any task but the upload task.  While text_enabled is off it
\* stores nothing, which is to say that nothing below happens.

\* A line longer than the formatting buffer is cut to what fits before its NUL.
LineLen(len) == IF len < LineMax THEN len ELSE LineMax - 1

TextVprintf(t, len) ==
    /\ pc[t] = "idle" /\ logged["text"] < MaxLines
    /\ logged' = [logged EXCEPT !["text"] = @ + 1]
    /\ IF Fits("text", LineLen(len))
       THEN /\ Acquire("text", LineLen(len))
            /\ ring' = [ring EXCEPT !["text"] =
                            Append(@, Entry(LineLen(len), acquired'["text"], logged'["text"]))]
            /\ UNCHANGED pc
       ELSE /\ pc' = [pc EXCEPT ![t] = "text"]
            /\ UNCHANGED <<ring, acquired>>
    /\ UNCHANGED <<binEnabled, dropped, sinkLock, sinkItem, job, connected, uploadVars>>

TextCountDrop(t) ==
    /\ pc[t] = "text"
    /\ dropped' = [dropped EXCEPT !["text"] = @ + 1]
    /\ pc' = [pc EXCEPT ![t] = "idle"]
    /\ UNCHANGED <<binEnabled, ring, acquired, sinkLock, sinkItem, job, connected, logged, uploadVars>>
-----------------------------------------------------------------------------
\* The upload task.

(* Mutant: the TIME_SYNC packet is forgotten. *)
CapNoSync(k) == BatchSize

\* Room for entries in the batch buffer: a "bin" batch also takes a TIME_SYNC.
Cap(k) == IF k = "bin" THEN BatchSize - SyncLen ELSE BatchSize

\* publish_batch(): publish() fails without a connection, and may fail with one (its lock
\* times out, esp-mqtt has no memory).  The result is only logged: what was to be
\* published, the drop notice included, is gone.
Publish(k, told, ids) ==
    \/ /\ connected
       /\ out' = [out EXCEPT ![k] = [ids |-> @.ids \o ids, told |-> @.told + told]]
       /\ UNCHANGED lost
    \/ /\ lost' = [lost EXCEPT ![k] = [entries |-> @.entries + Len(ids), told |-> @.told + told]]
       /\ UNCHANGED out

logVars == <<binEnabled, acquired, sinkLock, sinkItem, pc, job, logged, connected>>

\* task_handler(): the delay is over; the connection is tested here only.
StartRound ==
    /\ up = Delay /\ connected
    /\ up' = UpPc("bin", "start")
    /\ UNCHANGED <<logVars, ring, freed, dropped, held, batch, results>>

\* exchange(0): the drop counter is reset and its value opens the batch.
TakeDrops(k) ==
    /\ up = UpPc(k, "start")
    /\ dropped' = [dropped EXCEPT ![k] = 0]
    /\ batch' = IF dropped[k] > 0 THEN [NoBatch EXCEPT !.len = NoticeLen, !.told = dropped[k]]
                ELSE NoBatch
    /\ up' = UpPc(k, "receive")
    /\ UNCHANGED <<logVars, ring, freed, held, results>>

Receive(k) ==
    /\ up = UpPc(k, "receive") /\ ring[k] # <<>>
    /\ held' = Head(ring[k])
    /\ ring' = [ring EXCEPT ![k] = Tail(@)]
    /\ up' = UpPc(k, "copy")
    /\ UNCHANGED <<logVars, freed, dropped, batch, results>>

(* Mutant: an oversize packet does not wait for what is in the batch. *)
FlushIfItHelps(k) == batch.len + held.len > Cap(k) /\ held.len <= Cap(k)

MustFlush(k) ==
    /\ batch.len + held.len > Cap(k)
    /\ k = "bin" => batch.len > 0

Flush(k) ==
    /\ up = UpPc(k, "copy") /\ MustFlush(k)
    /\ Publish(k, batch.told, batch.ids)
    /\ batch' = NoBatch
    /\ up' = UpPc(k, "store")
    /\ UNCHANGED <<logVars, ring, freed, dropped, held>>

\* After a flush, or without one.
Settled(k) ==
    \/ up = UpPc(k, "copy") /\ ~MustFlush(k)
    \/ up = UpPc(k, "store")

\* The entry goes into the batch, and its room in the ring is free again.
Copy(k) ==
    /\ Settled(k)
    /\ k = "bin" => held.len <= Cap(k)
    /\ batch' = [batch EXCEPT !.len = @ + held.len, !.ids = Append(@, Id(held))]
    /\ freed' = [freed EXCEPT ![k] = held.end]
    /\ held' = NoEntry
    /\ up' = UpPc(k, "receive")
    /\ UNCHANGED <<logVars, ring, dropped, results>>

\* A packet bigger than a batch is published straight from the ring.
PublishOversize ==
    /\ Settled("bin") /\ held.len > Cap("bin")
    /\ Publish("bin", 0, <<Id(held)>>)
    /\ freed' = [freed EXCEPT !["bin"] = held.end]
    /\ held' = NoEntry
    /\ up' = UpPc("bin", "receive")
    /\ UNCHANGED <<logVars, ring, dropped, batch>>

(* Mutant: the drop counter is reset when its report has been sent. *)
ResetDropsLate(k) ==
    /\ up = UpPc(k, "receive") /\ ring[k] = <<>>
    /\ IF batch.len > 0 THEN Publish(k, batch.told, batch.ids) ELSE UNCHANGED results
    /\ batch' = NoBatch
    /\ dropped' = [dropped EXCEPT ![k] = 0]
    /\ up' = IF k = "bin" THEN UpPc("text", "start") ELSE Delay
    /\ UNCHANGED <<logVars, ring, freed, held>>

(* Mutant: without packets the round is over. *)
FinishRoundEarly(k) ==
    /\ up = UpPc(k, "receive") /\ ring[k] = <<>>
    /\ IF batch.len > 0 THEN Publish(k, batch.told, batch.ids) ELSE UNCHANGED results
    /\ batch' = NoBatch
    /\ up' = IF k = "bin" /\ batch.len > 0 THEN UpPc("text", "start") ELSE Delay
    /\ UNCHANGED <<logVars, ring, freed, dropped, held>>

\* The ring is empty: the rest of the batch goes out.
FinishBatch(k) ==
    /\ up = UpPc(k, "receive") /\ ring[k] = <<>>
    /\ IF batch.len > 0 THEN Publish(k, batch.told, batch.ids) ELSE UNCHANGED results
    /\ batch' = NoBatch
    /\ up' = IF k = "bin" THEN UpPc("text", "start") ELSE Delay
    /\ UNCHANGED <<logVars, ring, freed, dropped, held>>

Upload ==
    \/ StartRound \/ PublishOversize
    \/ \E k \in Kinds : TakeDrops(k) \/ Receive(k) \/ Flush(k) \/ Copy(k) \/ FinishBatch(k)
-----------------------------------------------------------------------------
\* log.config, on the request task, and the connection.
SetBinEnabled ==
    /\ binEnabled' = ~binEnabled
    /\ UNCHANGED <<ring, acquired, dropped, sinkLock, sinkItem, pc, job, logged, connected, uploadVars>>

Connection ==
    /\ connected' = ~connected
    /\ UNCHANGED <<binEnabled, ring, acquired, dropped, sinkLock, sinkItem, pc, job, logged, uploadVars>>

Callbacks(t) == SinkCountDrop(t) \/ SinkPayload(t) \/ SinkEnd(t) \/ TextCountDrop(t)

Logging(t) ==
    \/ \E len \in PacketLens \cup {0} : SinkStart(t, len)
    \/ \E len \in LineLens : TextVprintf(t, len)
    \/ Callbacks(t)

Next ==
    \/ \E t \in Tasks : Logging(t)
    \/ Upload
    \/ SetBinEnabled
    \/ Connection

\* The logging tasks and the upload task run; nothing makes a task log, and the
\* connection comes and goes as it likes.
Fairness == WF_vars(Upload) /\ \A t \in Tasks : WF_vars(Callbacks(t))
Spec == Init /\ [][Next]_vars /\ Fairness
-----------------------------------------------------------------------------
(* What the uplink promises. *)

\* upload_bin() and upload_text() never write past the end of the batch buffer, the
\* closing TIME_SYNC included.
BatchFits ==
    up # Delay => batch.len + (IF up[1] = "bin" THEN SyncLen ELSE 0) <= BatchSize

\* Types, and the capacities: no ring and no batch holds more than its buffer, and the
\* upload task holds an entry exactly while it stores one.
Entries == [len : Nat, end : Nat, data : Seq(Nat)]
TypeOK ==
    /\ BatchFits
    /\ binEnabled \in BOOLEAN
    /\ ring \in [Kinds -> Seq(Entries)] /\ held \in Entries /\ sinkItem \in Entries
    /\ acquired \in [Kinds -> Nat] /\ freed \in [Kinds -> Nat]
    /\ \A k \in Kinds : acquired[k] - freed[k] \in 0..RingSize
    /\ dropped \in [Kinds -> Nat]
    /\ logged \in [Kinds -> Nat] /\ logged["bin"] <= MaxPackets /\ logged["text"] <= MaxLines
    /\ sinkLock \in Tasks \cup {NoTask}
    /\ pc \in [Tasks -> {"idle", "payload", "bin", "text"}]
    /\ job \in [Tasks -> [id : Nat, left : Nat]]
    /\ up \in {Delay} \cup (Kinds \X {"start", "receive", "copy", "store"})
    /\ batch \in [len : Nat, told : Nat, ids : Seq(Nat)]
    /\ connected \in BOOLEAN
    /\ out \in [Kinds -> [ids : Seq(Nat), told : Nat]]
    /\ lost \in [Kinds -> [entries : Nat, told : Nat]]
    /\ (up[2] \in {"copy", "store"}) <=> (held # NoEntry)

\* The ids of the entries of kind k that were stored and not lost, oldest first: published,
\* in the batch, in the hands of the upload task, in the ring, and being written by the sink.
IdOf(entry) == IF entry = NoEntry THEN <<>> ELSE <<Id(entry)>>
IdsOf(entries) == [i \in 1..Len(entries) |-> Id(entries[i])]
Taken(k) == IF up[1] = k THEN batch.ids \o IdOf(held) ELSE <<>>
Written(k) == IF k = "bin" THEN IdOf(sinkItem) ELSE <<>>
StoredIds(k) == out[k].ids \o Taken(k) \o IdsOf(ring[k]) \o Written(k)

\* What failed publishes took with them, the drops of kind k in a notice, published or in
\* the batch, and the tasks about to count one.
LostOf(k) == lost[k].entries + lost[k].told
Told(k) == out[k].told + (IF up[1] = k THEN batch.told ELSE 0)
Uncounted(k) == {t \in Tasks : pc[t] = k}

\* What failed publishes took with them is the only loss: whatever else was logged while
\* an uplink is enabled is published or on its way, or in a drop notice that is, or in a
\* drop counter that a later notice will carry, or its task is about to count it; and
\* nothing is counted twice.
Accounted ==
    \A k \in Kinds :
        logged[k] = Len(StoredIds(k)) + LostOf(k) + Told(k) + dropped[k]
                    + Cardinality(Uncounted(k))

\* Entries leave in the order they were logged, and none leaves twice, oversize
\* packets included, which pass the batch buffer by.
InOrder ==
    \A k \in Kinds : \A i, j \in DOMAIN StoredIds(k) :
        i < j => StoredIds(k)[i] < StoredIds(k)[j]

\* A packet that leaves the sink is complete and made of one task's bytes only,
\* although the callbacks of several logging tasks come between each other.
PacketIsWhole ==
    \A i \in DOMAIN ring["bin"] : LET e == ring["bin"][i] IN
        Len(e.data) = e.len /\ \A j \in DOMAIN e.data : e.data[j] = e.data[1]

\* "Logging never blocks on the network": whatever the upload task and the
\* connection do, a logging task leaves the uplink again, and with it sink_lock.
LoggingReturns == \A t \in Tasks : pc[t] # "idle" ~> pc[t] = "idle"

\* Once the connection lasts and logging pauses, what waits in a ring is taken out
\* and what was dropped is reported.
Backlog(k) == ring[k] # <<>> \/ dropped[k] > 0
BacklogIsTaken == <>[]connected => \A k \in Kinds : Backlog(k) ~> ~Backlog(k)
=============================================================================
