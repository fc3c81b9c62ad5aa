# Verification of the Soul Cloud device client

TLA+ models of `esp_soulcloud_client`, the C++ component (ESP-IDF, FreeRTOS) that
connects an ESP32 to the Soul Cloud platform over MQTT 5: it enrolls the device,
keeps it connected, runs the requests of the platform, calls the platform, updates
the firmware and uploads logs. This file says which part of the code is in which
module, what TLC checks, what TLAPS proves, and what neither does.

Run inside this directory: `tlc -workers 2 -config <cfg> <module>` for a check and
`tlapm <module>_proofs.tla` for the proofs. `PROJECT.json` maps every definition to
the lines it models.

## 1. The system

### Tasks

| task | owner | runs |
|---|---|---|
| esp-mqtt task | esp-mqtt library | `sc_mqtt::event_handler()`: connect, disconnect, data events |
| request task | `sc_client` | `run_task()`: births, heartbeats, `sc_rpc::handle_ready()`, method handlers, the application's callbacks |
| update task | `sc_ota`, during an update | `run()`: download, flash, hash, verify, restart |
| upload task | `sc_log_uplink` | `task_handler()`: batches of log records |
| any task | application | `sc_client::start()`, `stop()`, `request_status_report()`, logging |

They share FreeRTOS queues (slot indices), the log ring buffers, one event group (`BIT_CONNECTED`,
`BIT_DISCONNECTED`, `BIT_REQUEST`, `BIT_REPORT`, `BIT_CALL_DONE`), the atomic
`sc_mqtt::is_connected`, the answer buffer under `call_lock`, and the MQTT 5 publish
properties under `publish_lock`.

### Components

| component | state | operations | hard part | correct when |
|---|---|---|---|---|
| request slots (`sc_rpc`, platform to device) | pool of `sc_rpc_slot`, `free_slots`, `ready_slots`, `BIT_REQUEST`, `sc_mqtt::rx_slot` | `take_free_slot`, `submit`, `give_back`, `handle_ready`, `handle`, `respond`; `sc_mqtt::handle_data` | two tasks, no lock: ownership moves with the index; the connection is lost in the middle of a fragmented message | every slot has one owner, no wake-up is lost, every accepted request is settled once with an answer made of it alone |
| calls (`sc_rpc::call`) | `call_correlation`, `call_buf`, `call_len`, `call_overflow`, `BIT_CALL_DONE`, `call_counter` | `call`, `deliver_response` | an answer races the timeout; answers are repeated, late, cut or from an earlier boot; the buffer is parsed unlocked | a call ends with one whole answer of its own or without one, as long as no earlier boot has a call of its number |
| connection (`sc_mqtt`) | `is_connected`, subscriptions, `rx_slot`, publish properties | `start`, `stop`, `publish`, event handler | events of one task are taken later by another; `stop()` from a third | what the client and the application believe of the connection comes true |
| client (`sc_client`) | event bits, `first_connection`, heartbeat deadline, callbacks | `init`, `start`, `stop`, `run_task`, `on_connected`, `confirm_running_image`, `sync_time`, built-in methods | bits coalesce; the tick counter wraps; the first connection waits up to 10 s for the platform | heartbeats on time, every connection reported, an image confirmed only when it works |
| update (`sc_ota`) | `running`, `params`, `cancel_requested`, offset, hash, partition | `start`, `cancel`, `run`, `download`, `download_from` | the server cuts, refuses, corrupts or restarts a response; cancel and failures at any point | only the verified image boots; updates exclude each other and end |
| status (`sc_status`) | callback | `report` | the application writes in the middle of the message; a report may fail | it is sent when due, whole |
| log uplink (`sc_log_uplink`) | two ring buffers, `sink_lock`, `sink_item`, drop counters, batch | sinks, `text_vprintf`, `upload_bin`, `upload_text` | any task logs while the upload task drains; a batch whose publish fails takes the drop count with it | records are whole and in order, drops are counted |
| credentials (`sc_credentials`) | `identity`, three NVS keys | `load`, `save`, `erase`, `enroll` | a reset between two NVS writes; a failed write | what is loaded is one enrollment |
| shell (`sc_shell`) | command table, output buffer | `add`, `execute`, output | longest match, truncation | the right command runs, output stays inside its buffer |
| JSON (`sc_json`) | token array, writer position | `parse`, `find`, `skip`, getters; writer | a tree walked in a flat array, with malformed members | `find` returns the member's value or nothing |
| codec (`sc_codec`) | none | encoders, `decode_log_config`, ... | all-or-nothing decoding | nothing is applied of a message that is refused |

`jsmn` is vendored, but what it accepts decides what every lookup finds, so its parser is
modelled. The host test was read for the claims it makes of the JSON code.

### How they meet

`sc_mqtt::handle_data` writes the first and later fragments of a request into a slot
and hands the slot to `sc_rpc` (module `RpcRequests`), and the fragments of an answer
to `sc_rpc::deliver_response` (module `RpcCall`). `sc_mqtt` tells the client of
connects and disconnects through the event group (module `ClientLoop`), whose loop is
also what calls `handle_ready()`; a method handler may start or cancel an update
(module `Ota`), which runs on its own from there on. Every task that publishes, the
upload task of `LogUplink` among them, meets the others and the esp-mqtt task in
`publish_topic()` (module `Publish`). Before any of this `init()` asks `Credentials` for an
identity. The request task reads and writes all of it as JSON: modules `JsonDocs`, `Shell`.

## 2. Modules and how they correspond to the code

**`RequestService`** - the promise of the request path: a bounded line of accepted
requests, served in order, each settled exactly once, by a reply or (when the answer
cannot be published) without one. `RpcRequests` is shown to implement it.

**`RpcRequests`** - the request path as it is. Each access to a queue or the event bit
is a step; what a task does to a slot it owns is folded into the step that takes or
gives the slot away.
- esp-mqtt task: `FirstFragment` (give back a half received slot), then `StartRequest`
  or `DropRequest`; `NextFragment`; `Submit` (the queue) and `Notify` (the bit, and only
  then `rx_slot = -1`); `Connected`, `Disconnected`, `StopClient`; `OtherMessage`.
- request task: `Wake`, `TakeReady`, `Handle` (`handle()` with `respond()`), `GiveBack`.
- `Stop` is the application's flag, at any moment.
- A request stands for its own bytes: `payload` is an array of requests, so a payload
  mixed from two requests or a stale length is visible.
- `Handle` is one step although it runs a handler: the task owns the slot, so nobody
  can see how far it is, and it reads the shared `is_connected` once.
- `tally` counts what happened to each request and is read by properties only.

**`MCRpcRequests`** - its instance: a request of two fragments with a topic, one larger than a
slot on a foreign topic, one without payload, correlation and topic, and one of an unknown method
whose parameters are no object.

**`RpcRequests_proofs`** - theorems about `RpcRequests` (section 5).

**`RpcCall`** - `call()` cut where the code takes or releases `call_lock` or touches
the bit: `Begin` (lock), `ClearBit`, `Publish`, `WaitBit`, `End` (lock), `Parse`
(unlocked); `deliver_response()` as `FirstEvent`/`NextEvent` (lock) and `Notify` (the
bit, after the lock). The platform answers a call late or never, the broker repeats
and reorders answers and keeps the session of a device that reboots (`Reboot`).
The buffer is never cleared, and `parse()` reads the document at its beginning: it stops at a
NUL and accepts whatever follows the root. So `Parse` hands out a whole answer that stands in
front, whatever is behind it, be it a leftover of an earlier call; parts of several answers may
parse, part of a single one may not (an object that is not closed is refused), and any buffer
may be refused. The outcome of a call records the answers its text is made of.
**`RpcCall_proofs`** - theorems about it.

**`ClientLoop`** - the connection as it is told: `Subscribe`, `Connected` (the flag)
and `Tell` (the bit) are the steps of the connect event, `Disconnected` and `Tell` of the
disconnect event; `Stop` and `StopClient` the two halves of `sc_mqtt::stop()`, the
second of which waits for the event handler. `Sleep`, `Wake`, `Birth`, `Confirm`,
`SyncTime`, `TellUp`, `TellDown`, `Report` are `run_task()` and `on_connected()`.
Ticks are an explicit counter modulo `TickMod`, and the deadline arithmetic is the
code's signed difference. `since`, `born`, `reached` are history.
`check_for_update()` only starts an update and is left to `Ota`.
**`ClientLoop_proofs`** - theorems about it.

**`Ota`** - `Start` and `Cancel` on the request task; `Begin`, `Attempt`, `Connect`,
`Read`, `ReadEnds`, `Retry`, `Verify`, `Finish`, `Restart`, `End` on the update task.
Byte `i` of an image is the number `i`, a corrupted byte is 0: two images have one hash
only if they are equal. Progress reports are left out: they change nothing else.

**`MCOta`** - three updates: one as large as the partition, a smaller one, one that
does not fit. **`Ota_proofs`** - theorems about `Ota`.

**`LogUplink`** - the logging tasks store packets (`SinkStart`, `SinkPayload`, `SinkEnd`,
under `sink_lock`) and lines (`TextVprintf`); a failed acquire and the `fetch_add` that
counts it (`SinkCountDrop`, `TextCountDrop`) are two steps. The upload task is
`StartRound`, `TakeDrops` (the `exchange`), `Receive`, `Flush` (after which an entry is stored
without a second test: the place `"store"`), `Copy`, `PublishOversize`,
`FinishBatch`, first for packets, then for lines. The room of an entry is taken from its
acquisition to its return, as in a no-split ring buffer: `acquired` and `freed` are the two ends
of the used part, without the wrap. An entry carries the number it
was logged with in every unit of its length, so a mixed or incomplete packet is visible.
The batch buffer is its length, the number of drops its notice tells and the ids copied into it.
`Publish` has two outcomes, as the code only logs the second: the batch, or the oversize packet, is
taken by `publish()` (`out`), or it is lost with its drop notice (`lost`), which without a connection it
always is. What esp-mqtt has taken counts as published, though with QoS 0 it may still be lost.
**`LogUplink_proofs`** - theorems about it.

**`Credentials`** - power cycles: `LoadIdentity` with the decision of `init()`, `Redeem`,
`RedeemUnheard` or `EnrollFails` for `enroll()`, `SaveSet`, `SaveCommitted`, `SaveFails`,
`EraseAll`, `EraseCommitted`, `EraseFails`, and `PowerLoss` anywhere. What `nvs_set_str()`
was given becomes durable string by string (`Write`) and at the latest in `nvs_commit()`;
a closed handle forgets the rest. A string is the number of the enrollment that issued it.
**`Credentials_proofs`** - theorems about it.

**`Publish`** - `publish_topic()` lock by lock: `CheckConnected`, `Take` (or its timeout),
`SetProperties`, `Send`, `Give`, either call into esp-mqtt possibly failing and failed
sends possibly leaving their properties behind; around it, for the task in `call()`, the
critical sections of `call_lock`; beside it the esp-mqtt task, which runs `Event`,
`Deliver`, `HandleEvent` with its own lock held. **`Publish_proofs`** - theorems about it.

The JSON code, and the messages made of it. Except in `JsonString`, a text is a sequence
of symbols: the six marks, strings, primitives.
- **`Jsmn`** - `jsmn_parse()` symbol by symbol: token types, sizes and the super token,
  `NOMEM`, `INVAL` and `PART`.
- **`JsonReader`** - `parse`, `skip`, `find`. `skip()` is stated by the count it keeps, `find()`
  by the members it goes through: no recursion.
- **`JsonWriter`** - commas, nesting and overflow; `Width` is the length of a symbol as written.
- **`JsonString`** - `put_escaped()`, `jsmn_parse_string()` and `str_at()` over bytes, from
  bytes compared as unsigned to UTF-8.
- **`SoulCodec`** - the three encoders as the calls they make, the three decoders. A field
  has room for a string or not (`TooLong`).
- **`JsonGrammar`** - stands for no code: the grammar of JSON as a recogniser, to compare with.
- **`JsonDocs`** - the three at work: a peer's text grows piece by piece and may end anywhere;
  a message is written, with the calls of an application callback or a method handler in
  the middle and the error answer of `sc_rpc::handle()`; a string of bytes grows.
- **`Shell`** - the command table (and, of the same form, the method table of `sc_rpc`), the
  choice of a command (`Run`, then one `Look` per entry of the table), the output buffer.
  `latest` and `total` are history.
- **`Texts_proofs`** - theorems about `JsonString`, `JsonDocs` and `Shell`.
- **`MCTexts`** - instances of `JsonDocs` and `Shell` in one module, as both are sequential code
  of one task and share nothing: a behaviour is about one of them.

## 3. What the runs check

Passing runs (no deadlock check: with the bounds used up and nothing left to do, every
one of these systems rests - waiting for the platform is what the device does).

| run | shows |
|---|---|
| `rpc_requests` | `SlotsConserved`: one owner per slot over losses, stops, drops, so the ignored results of `xQueueSend` are never failures. `NoLostWakeup`: queue-then-bit against drain-then-sleep. `SettledOnce`, `AnswersMatch`: nothing lost, doubled or mixed although slots are reused and their payload is never wiped. `DropOnlyWhenBusy`: no slot leaks into a drop. `ServiceSpec`: the whole refines `RequestService`, including that every accepted request is settled in the end. |
| `rpc_call` | `AnswerIsWhole`, `AnswerWakes`, `BufferStable`: what a call hands out is the whole of its own answer and nothing else, no leftovers and no mixture, unless the platform has answered a call of an earlier boot with its number; an answer that is there wakes the call; the buffer is still while tokens point into it. |
| `client_loop` | `HeartbeatOnTime` over wraps of the counter; `ConfirmedReached`; liveness: `ToldDown` (a lost connection is told unless it is back) and `BirthAttempted` (each connection gets its birth although events share one bit). |
| `ota` | `BootVerified`, `ResumesInPlace`, `OneUpdate`, and liveness `UpdateEnds`. |
| `log_uplink` | `Accounted`: between any two steps every logged entry is on its way, published, counted as dropped (in a counter or in a notice), or went with a publish that failed: exactly one of these. `InOrder`, `PacketIsWhole`: order and contents survive interleaved callbacks, full rings, flushes, failed publishes and packets larger than a batch. Liveness: `LoggingReturns` ("logging never blocks on the network") and `BacklogIsTaken` (while the connection lasts, rings are emptied and drop counters taken; it says nothing of what is taken after a loss: see the observations below). |
| `credentials` | `RunningIsDurable`, `ErasedStaysErased`, `MixIsOrdered` and the action property `IdentityKept` over failures and power losses between any two writes. |
| `publish` | `OwnProperties`: "a publish and its MQTT 5 properties stay together", also after a publish that failed half way. Liveness `PublishReturns`: the three locks are never waited for in a circle or left behind. |
| `texts` | `LookupsAreExact`: `skip()` and `find()` against the tree and the grammar, malformed texts included. `WrittenIsRead`: what is sent is JSON that reads back as the calls that asked for it, but for an error answer longer than the result buffer (see `texts_error_cut`), and nothing is refused that fits. `TextComesBack`: escaping, delimiting and unescaping of any bytes. `DecodedAsAWhole`: each decoder takes a message as a whole or not at all. `LongestMatchRuns`, `OutputIsCutOnce`: the shell. |

Runs that find what the code does at odds with what the repository says of it:

| run | what the counterexample shows |
|---|---|
| `rpc_call_spurious_wake` | `deliver_response()` sets the bit after it left the lock: the bit of an answer to a call that has just timed out ends the next call at once, with a parse error instead of a wait. |
| `rpc_call_after_reboot` | `call_counter` restarts with the device, the broker's session does not: the answer to `c1` of the last boot is taken for the answer to `c1` of this one. |
| `texts_error_cut` | an error answer longer than the result buffer is sent as far as it was written, though sc_json.hpp:12-13 says that such a text must not be sent. |
| `credentials_torn` | a re-enrollment cut between two NVS writes leaves three strings of two enrollments, which the next `init()` loads as an identity. |

### Observations no run states

Met while modelling; each can be followed in the named module.
- `RpcRequests`: Kconfig (src/Kconfig:21-22) promises a "busy" answer; a request that finds no free
  slot is dropped in silence (`DropRequest`).
- `ClientLoop`: a disconnect and a connect taken in one wake-up are told as up, then down
  (sc_client.cpp:296-300), and the application stays at "down" on a live connection.
- `ClientLoop`: `stop()` clears `is_connected` before the client stops (sc_mqtt.cpp:64); a connect
  being handled sets it again (sc_mqtt.cpp:131), for good.
- `ClientLoop`: the image is confirmed even when the birth report was not sent
  (sc_client.cpp:319), which Kconfig:107-109 puts first; `ConfirmedReached` is what does hold.
- `ClientLoop`, which keeps the order of the steps and not the clock's value: the clock is tested
  before a call of up to 10 s; SNTP may set it meanwhile, and the answer overwrites it
  (sc_client.cpp:347-348).
- `RpcCall`: the same answer of the last boot that `rpc_call_after_reboot` is about, in part: its
  first fragment comes before the call and is ignored, its tail during it. The tail goes behind
  what `call_buf` still holds (sc_rpc.cpp:210-215), the two parse, and `c2` hands out the answer to `c1`. `AnswerIsWhole`
  names that cause and excludes every other.
- `LogUplink`: sc_log_uplink.hpp:26-27 says that dropped entries are reported at the start of the
  next batch. The counter is reset before that batch is published (sc_log_uplink.cpp:176), so a
  failed publish takes the report with it (`lost[k].told`).
- `LogUplink`: Kconfig:58 says that logs wait in the rings while offline. The connection is tested
  once per round (sc_log_uplink.cpp:147): when it is lost in the middle of one, the rings are
  emptied all the same and every publish fails (`lost[k].entries`).
- `Ota`: a cancel that arrives after the last byte is answered `ESP_OK`, and the image is
  installed all the same.
- `JsonReader`: jsmn accepts some malformed objects (`{"a" "b"}`, `{"a":}`, text after the
  root), which sc_json.hpp:92 says are refused. `find()` gives no wrong value for them.

### Bounds, and why they are enough

- `rpc_requests`: two slots (one being filled while one is handled, a drop when both are
  busy), four requests and three deliveries of any of them, repetitions included (a slot is
  reused, with a shorter payload after a longer one), payload size 2 (fragmentation at every
  byte, one request above the limit), two faults (a loss followed by a failed publish or a
  second loss).
- `rpc_call`: two calls on each of two boots, three deliveries: late answer, repeated
  answer, answer of the last boot, in any combination of two with the right one. Buffer
  size 3 with answers of 2 and 3: one fits, one is the first size that does not.
- `client_loop`: a counter of 8 ticks and a heartbeat of 1; the run goes round the
  counter without limit. `TicksAssumption` is what makes the signed difference
  unambiguous (on the device 2^32 ticks against an interval of seconds). One loss and one
  stop: up to three connections, so either bit can stand for two events. `MaxBusy` = 2
  lets a round of the loop take longer than the interval, so that the deadline is past
  when the task goes to sleep; on the device a round is bounded by the 10 s of a call plus
  the handlers, far below half the counter.
- `ota`: images of 3, 4 and 5 bytes over a buffer of 2 and a partition of 4: a last read
  shorter than the buffer, an exact fit, a misfit; three attempts (`MAX_ATTEMPTS` of the
  code is larger; only its being reached matters), and a second update after a first.
- `log_uplink`: rings and batch of 5 units, packets of 1 and 5 and lines of 4, cut to 3, where a
  header, a notice and a TIME_SYNC are 1: a packet that fills the ring, one that is refused, a
  batch with its TIME_SYNC, and a packet that exceeds the room of a batch, after one that is in
  it. Two tasks, two packets, two lines: both kinds can be stored, dropped and waiting to be
  counted at once. No symmetry, as liveness is checked.
- `credentials`: three enrollments, hence up to three generations of strings in NVS; two in
  `credentials_torn`.
- `publish`: two publishers, one of them in `call()`; three publishes each, so that one that
  failed is followed by one of the other task and by a further one of its own.
- `texts`: any text of up to seven symbols with room for four tokens; texts of up to five
  pieces after an opening that is well on its way into a tag table, an update or an
  enrollment; up to four calls of a callback around every encoder, into buffers from none over
  nearly and exactly enough to plenty, for answers from one byte too few for the error answer (all
  of `texts_error_cut`; on the device 256 bytes, Kconfig:29-32, with an error text of escaped characters); `MaxDepth` 3 for 31 (only its being
  exceeded matters); strings of six bytes over the escape characters, a control character, a
  hexadecimal digit and a byte above 127, so that a whole `\u00XX` fits; three commands of which
  two are prefixes of another, a fourth for a table of three, four registrations.

## 4. Fairness

- `RpcRequests`: weak fairness of the esp-mqtt task inside an event it has begun, and of
  the request task once its bit is set or while it is in its loop: FreeRTOS schedules a
  ready task, `Respond` has a publish timeout, and handlers return. Nothing is assumed of
  the broker, the connection or the application.
- `ClientLoop`: the same for the connect and disconnect handlers and for the request
  task. `Tick` has none: no liveness property waits for time. `ToldDown` excludes an
  application that called `stop()`, which is told nothing.
- `Ota`: weak fairness of the update task; connecting and reading have HTTP timeouts.
- `LogUplink`: weak fairness of the upload task and of the callbacks of a packet or line that
  has been begun. Nobody has to log, and the connection owes nothing: `BacklogIsTaken` is
  conditional on its lasting.
- `Publish`: strong fairness of the steps that wait for a lock (FreeRTOS hands a mutex to a
  waiting task, so a task does not lose it for ever to one that takes it again and again), weak
  fairness of the event handler. No task has to publish and no event has to come.
- `RpcCall`, `Credentials` and `MCTexts` have no liveness property and no fairness: `call()` waits with a
  timeout, the others are sequential.

## 5. What is proved

For every value of the constants that satisfies the named assumptions of the module
(`SlotsAssumption`, `RequestsAssumption`, `BoundsAssumption`; `UpdatesAssumption`,
`LimitsAssumption`; `SizesAssumption`, `CallBoundsAssumption`; `TicksAssumption`,
`LossesAssumption`; `LogUplinkAssumption`; `PublishAssumption`; `MaxIssuedAssumption`;
`BytesAssumption`, `JsmnAssumption`, `WriterAssumption`, `WordsAssumption`, `CapsAssumption`;
`ShellAssumption`); deliveries, faults, calls and starts are unbounded in
effect, as their bound is any natural number. Every safety invariant and every action property
of the passing runs of section 3 is proved except `LookupsAreExact` and `DecodedAsAWhole`. TLC
has checked each inductive invariant on the constants of the run, but for `Faithful` below, which
speaks of every state a message may go on from.

`RpcRequests_proofs`: `TypeCorrect`, `SlotsAreConserved`, `NoWakeupIsLost`,
`AnswersAreOwn`, `DropsAreJustified`, `RequestsAreSettledOnce`, `ImplementsService`.
The inductive invariant is `IInv == TypeOK /\ ControlOK /\ SlotsConserved /\ ContentOK`.
`SlotsConserved` alone is not inductive: that `StartRequest` may overwrite `rx_slot`,
and `TakeReady` `slot`, needs `ControlOK` (which program counters go with an empty
`rx_slot`, `slot` or message). `AnswersMatch` needs `ContentOK`: a slot in the pipeline holds a whole
request, the slot being filled exactly what was received - and that no other step writes
to it, which is `SlotsConserved` again. The lemma `NotFull` (a queue of distinct slots
without `e` is shorter than the pool) is what makes the ignored `xQueueSend` results
harmless. `SettledOnce` counts the line by cardinality, one lemma per change of the
line. `ImplementsService` maps initial states and each step to a step or a stutter:
`Submit` to `Accept`, `Handle` to `Settle`, everything else to a stutter.

`Ota_proofs`: `Inductive`, `TypeCorrect`, `OnlyVerifiedBoots`, `ResumeIsExact`,
`UpdatesExclude`. `IInv` adds to the properties `StreamOK` (flash and hash have seen the
same bytes; the next byte of the response continues the flash; after `Verify` the hash
is the image's) and `TaskOK` (`running` iff the task exists, a retry is left while it
downloads). `OnlyVerifiedBoots` rests on the flash being what was hashed, which is
why `Read` appends to both or ends the update.

`Publish_proofs`: `PropertiesStayTogether`, `PublishTypeCorrect`, for any number of tasks and
publishes, from `PublishAssumption`. `Inv` adds to the property that a task between the two
ends of `publish_topic()` is the owner of `publish_lock`, and that the one about to send finds
its own properties: a failed publish may leave some behind, but the next task sets its
own, under the lock, before it sends.

`Credentials_proofs`: `TypeCorrect`, `RunsOnWhatIsStored`, `MixturesAreOrdered`, `EraseIsFinal` and the
action property `EnrolledUntilErased`, for any number of enrollments, from
`MaxIssuedAssumption`. `IInv` adds what the handle and NVS hold between two writes:
`SaveInOrder` (NVS has the first strings of the enrollment, the handle the following ones, in
order), `EraseRemoves` (only removals are pending, and one for each key that is left),
`NoneIsNewer` (nothing stored is newer than what is being saved) and `EnrollIsDue`. A torn save
is then a newer prefix, and a committed one has no rest.

`RpcCall_proofs`: `TypeCorrect`, `AnswersAreWhole`, `AnswersWake` and the action property
`BufferIsStable`. `IInv` adds `Listening` (a correlation is set exactly while the call takes
answers), `Causal` (nobody has answered a call that was not published, so none of this boot
with a number to come), `LastByteIsOurs`, `AnsweredOnce` and `InStep`. The buffer is not cleared
between calls, and leftovers or mixtures in front of a tail do parse; what excludes them is
`InStep`: unless an earlier boot has a namesake of the call, whose answer may have begun before
the call, the answer on its way is the call's own and is received from its first byte on, each
fragment at the end of what is there, so the buffer up to `call_len` is made of it alone.
`BufferIsStable` needs of `Listening` that no correlation is set while the buffer is parsed.

`ClientLoop_proofs`: `TypeCorrect`, `HeartbeatsAreOnTime`, `ConfirmedHasReached`, for every
width of the counter and every heartbeat that `TicksAssumption` admits. `IInv` adds
`DeadlineKept` (deadline and counter are as far apart as what is left to the heartbeat, up to one
turn), `Punctual` (how late the deadline may be at each place of the task: it is two rounds
because the first one may leave the deadline just ahead) and `ReachedFirst` (everything that leads to
a confirmation comes from a subscription). The arithmetic of the signed difference is in the
lemmas `OneTurn`, `TurnForward`, `SignedAhead`.

`LogUplink_proofs`: `TypeCorrect` (no ring, batch or line overruns its buffer, the closing
TIME_SYNC included), `OnlyFailedPublishesLose`, `EntriesLeaveInOrder`, `PacketsAreWhole`, for any
sizes, tasks and number of entries, with a publish that may fail at any time. `IInv` adds `SinkHeld` (the holder of `sink_lock` is the task
between `sink_start()` and `sink_end()`, and what it has written is what it has sent),
`RingKept` (entries lie one behind the other in the used part, so returning one
never frees another's room; a line is shorter than a batch, which is why `Copy` need not test again),
`BatchKept` (`len = 0` tells that nothing is in the batch: `Flush` and `FinishBatch` rely on it,
and a drop notice alone is not forgotten) and `IdsOrdered` (ids grow and none is
newer than what was logged). The upload task only moves ids and drops from one place to
the next (`CountsKept`, with the sequence lemmas `Concats`, `IdsOfTail`) or publishes the front of
what it holds (`Leaves`), which a failed publish cuts out of the middle of the ordered ids
(`CutMiddle`) and adds to `lost`; a logging task adds one
of either (`LogsOne`, `KeepsBalance`, `CountStays`, `CountGrows`, `CountFalls`).

`Texts_proofs`, strings: `StringsComeBack`, for the specification `JsonSpec`: a string of any
bytes and any length, escaped by `put_escaped()`, delimited by `jsmn_parse_string()` and
unescaped by `str_at()`, is itself again. The three are recursive functions over texts, and the
library's induction theorems cannot be instantiated here, so induction is done over a set of
numbers: `LeastNatural` (a set of naturals has a least member), `Strongly` and `Upward` follow
from it, and each lemma applies them to the set of positions at which it holds. `QuoteStep` and
`DecodeStep` unroll the functions once; `QuoteFound` shows that the first quote jsmn takes for
one is the closing one, `EscapedIsDecoded` that decoding undoes escaping wherever it starts
(`EscapePlaces` and `ControlIsOneByte` say what each escape is), `AcceptedIsDecoded` that what jsmn
accepts `str_at()` decodes.

`Texts_proofs`, messages: `SentIsRead`, which is `JsonSpec => []WrittenIsRead`, for buffers of any
size, any number of calls by callbacks and handlers nested as they like, and any widths of
strings and primitives. `WordsAssumption` says that the words of the messages are strings, that
everything has a width and a mark is one byte; `CapsAssumption` that sizes
are natural numbers and nesting is possible at all. The one text that is sent although it did not
fit is the error answer, and only if it is as long as the buffer: `Faithful` says so, `FullIs` and
`ErrorIsShallow` why.
A text is taken as a record of its nodes, the containers that are open, and what came last.
`Extends` lists the five steps by which it grows: comma, key, colon, value, closing mark. For one
step, `ExtendsFits` counts the bytes (`Size`, a sum over the nodes: `SizeGrows`, `SizeCloses`),
`DocExtends` follows the reference grammar, `ParserExtends` jsmn with its super token; `ReadsMore`
puts them together, and `PutFits` says that `put()` makes the step or overflows. The writer's calls
are then one to four steps each, and `hasItems` holds the bits of exactly the open containers that
have a child (`BeginsValue`, `LeafCalled`, `ContainerCalled`, `EndCalled`); after an overflow nothing
matters (`FullCalled`). `CallFits` is all this for one call that a correct caller may make.
The invariant is `Faithful`: the writer is the `Image` of what has been asked for, and while the
message is being written its remaining calls are a `Leg` from here to the end: they may be made
one after the other whatever the callback has written meanwhile, because the `k` containers of the encoder are
open objects (`Base`, kept by `BaseKept`). That the calls of each message form such a leg is read
off them call by call (`StatusRoute`, `OtaEventRoute`, `EnrollRoute`, `AnswerRoute`). Folds are
unrolled by one element with `FoldingGrows`; sums are brought in order by `SummingIs`, as the library
adds in an order it does not name.

`Texts_proofs`, shell: `LongestNameWins`, `OutputIsCut`, for the specification `ShellSpec`.
`IInv` adds a type invariant, `TableKept` (each name has one place, with its last handler) and `BestSoFar`: what the
loop has chosen is the longest match among the entries it has seen. `WritersAgree` shows that
`write()` and `printf()`, which count differently, cut at the same place.

Only model-checked: everything about liveness (the liveness half of `ServiceSpec`, `ToldDown`,
`BirthAttempted`, `UpdateEnds`, `LoggingReturns`, `BacklogIsTaken`, `PublishReturns`), which is out of
the prover's reach, and two invariants of `JsonDocs`, about texts that somebody else wrote. They
cover malformed texts too, for which there is no tree that the tokens follow: `LookupsAreExact`
would need the sums of `skip()` over whatever jsmn accepts, `DecodedAsAWhole` rests on it.

## 6. Not modelled, and why

- `sc_client::init()` and `sc_mqtt::init()` build everything before any task exists; of the
  former, the decision to enroll is in `Credentials`. The built-in methods `info` and `reboot` and
  the built-in shell commands read the system, print or start a timer.
- Formatting and wording: contents of log lines, numbers, HTTP headers, TLS. A primitive is
  one symbol of `Jsmn`; that `get_int()` and `get_uint()` refuse other numbers is the set `Sizes`.
- `str_at()` on a string that does not fit leaves a terminated prefix; callers ignore it.
- The effect of a tag level is `esp_log_level_set()`, outside the repository. (It drops the
  levels of single tags when it is given `"*"`; `log.config` sets the tags first.)
- The upload task's own log lines are kept out of the rings by the code, and out of the model.
- The host test of the JSON code is a test.

## 7. Plan

1. `LookupsAreExact` for all constants: the tokens of any text jsmn accepts, in preorder, with the
   number of tokens below each, so that `skip()` adds up to the end of a subtree; then
   `DecodedAsAWhole`, whose decoders only look up.
2. An abstract specification of the log uplink (two lossy queues that count what they lose),
   implemented by `LogUplink`, where `OnlyFailedPublishesLose` and `EntriesLeaveInOrder` are the step lemmas.
