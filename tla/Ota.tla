---------------------------------- MODULE Ota ----------------------------------
(***************************************************************************)
(* A firmware update: sc_ota::start() and cancel() on the request task,    *)
(* run(), download() and download_from() on a task of their own that lives *)
(* as long as the update.  The download resumes after a broken connection  *)
(* with a Range request; the image becomes the boot image only when the    *)
(* hash of the stream is the one the platform sent.                        *)
(*                                                                         *)
(* Byte i of an image is i when the server sends what the hash was made    *)
(* from, and 0 when it sends something else there.                         *)
(***************************************************************************)
EXTENDS Naturals, Sequences

CONSTANTS
  Updates,        \* task IDs
  Size,           \* the size each update announces
  PartitionSize,  \* of the next OTA partition
  HttpBuffer,     \* CONFIG_SOULCLOUD_OTA_HTTP_BUFFER
  MaxAttempts,    \* MAX_ATTEMPTS
  MaxStarts,      \* bound: updates begun
  NoUpdate

ASSUME UpdatesAssumption ==
  NoUpdate \notin Updates /\ Size \in [Updates -> Nat \ {0}]
ASSUME LimitsAssumption ==
  /\ PartitionSize \in Nat /\ HttpBuffer \in Nat \ {0}
  /\ MaxAttempts \in Nat \ {0} /\ MaxStarts \in Nat

VARIABLES
  running, params,    \* sc_ota's own; params is NoUpdate before the first
  cancel_requested,
  pc,                 \* OTA task: "none" when it does not exist
  offset, attempts,   \* download()
  stream, total_read, \* download_from(): next byte of the response; bytes read
  flash, hashed,      \* the bytes written and the bytes hashed, in order
  boot,               \* the update whose image boots next, with its bytes
  starts

downloadVars == <<offset, attempts, stream, total_read, flash, hashed>>
vars == <<running, params, cancel_requested, pc, downloadVars, boot, starts>>

Update == Updates \cup {NoUpdate}
Image(u) == [i \in 1 .. Size[u] |-> i]
OldImage == [update |-> NoUpdate, bytes |-> <<>>]
Lesser(a, b) == IF a < b THEN a ELSE b

--------------------------------------------------------------------------------
(* The request task *)

(* start() for a new update.  When the task cannot be created everything   *)
(* but running stays as if it had been.                                    *)
Start(u) ==
  /\ ~running /\ pc # "rebooted"
  /\ starts < MaxStarts
  /\ starts' = starts + 1
  /\ params' = u
  /\ cancel_requested' = FALSE
  /\ \/ running' = TRUE /\ pc' = "begin"
     \/ UNCHANGED <<running, pc>>
  /\ UNCHANGED <<downloadVars, boot>>

(* cancel() with the ID of the running update; any other changes nothing,  *)
(* as does start() while an update runs.                                   *)
Cancel ==
  /\ running /\ pc # "rebooted"
  /\ cancel_requested' = TRUE
  /\ UNCHANGED <<running, params, pc, downloadVars, boot, starts>>

--------------------------------------------------------------------------------
(* The OTA task: run() *)

(* The partition check, esp_ota_begin(), which erases, and psa_hash_setup(),*)
(* each of which may fail.                                                 *)
Begin ==
  /\ pc = "begin"
  /\ \/ /\ Size[params] <= PartitionSize
        /\ flash' = <<>> /\ hashed' = <<>>
        /\ offset' = 0 /\ attempts' = 0
        /\ pc' = "attempt"
     \/ pc' = "end" /\ UNCHANGED <<flash, hashed, offset, attempts>>
  /\ UNCHANGED <<running, params, cancel_requested, stream, total_read, boot, starts>>

(* The loop of download(). *)
Attempt ==
  /\ pc = "attempt"
  /\ pc' = IF offset >= Size[params] THEN "verify"
           ELSE IF cancel_requested THEN "end" ELSE "connect"
  /\ UNCHANGED <<running, params, cancel_requested, downloadVars, boot, starts>>

(* Mutant: any success status will do. *)
AnySuccess(status) == status \in {200, 206}

StatusOk(status) == status = IF offset = 0 THEN 200 ELSE 206

(* The request for the bytes from offset on, and the status of its answer; *)
(* 0 stands for no connection, 400 for every error the server reports.     *)
Connect ==
  /\ pc = "connect"
  /\ total_read' = 0
  /\ \E status \in {0, 200, 206, 400} :
       /\ status = 206 => offset > 0
       /\ pc' = IF StatusOk(status) THEN "read" ELSE IF status = 400 THEN "end" ELSE "failed"
       /\ stream' = IF status = 206 THEN offset + 1 ELSE 1
  /\ UNCHANGED <<running, params, cancel_requested, offset, attempts, flash, hashed, boot,
                 starts>>

Wanted == Lesser(HttpBuffer, Size[params] - offset - total_read)

(* One read and what follows of it: flash, then hash.  When the flash      *)
(* write fails so does the update.                                         *)
Read ==
  /\ pc = "read" /\ Wanted > 0 /\ ~cancel_requested
  /\ \E n \in 1 .. Wanted, right \in BOOLEAN :
       LET bytes == [i \in 1 .. n |-> IF right THEN stream + i - 1 ELSE 0] IN
       \/ /\ flash' = flash \o bytes /\ hashed' = hashed \o bytes
          /\ total_read' = total_read + n
          /\ stream' = stream + n
          /\ UNCHANGED pc
       \/ /\ pc' = "end"
          /\ UNCHANGED <<flash, hashed, total_read, stream>>
  /\ UNCHANGED <<running, params, cancel_requested, offset, attempts, boot, starts>>

(* The response is read, or cut off, or the update was cancelled.          *)
ReadEnds ==
  /\ pc = "read"
  /\ offset' = offset + total_read
  /\ attempts' = IF total_read > 0 THEN 0 ELSE attempts
  /\ pc' = IF total_read > 0 THEN "attempt" ELSE "failed"
  /\ UNCHANGED <<running, params, cancel_requested, stream, total_read, flash, hashed, boot,
                 starts>>

(* Mutant: the attempts are not counted. *)
RetryForever ==
  /\ pc = "failed"
  /\ pc' = "attempt"
  /\ UNCHANGED <<running, params, cancel_requested, downloadVars, boot, starts>>

(* Mutant: one attempt too many. *)
RetryOnceMore ==
  /\ pc = "failed"
  /\ attempts' = attempts + 1
  /\ pc' = IF attempts' > MaxAttempts THEN "end" ELSE "attempt"
  /\ UNCHANGED <<running, params, cancel_requested, offset, stream, total_read, flash, hashed,
                 boot, starts>>

(* Nothing was read: try again, but not for ever. *)
Retry ==
  /\ pc = "failed"
  /\ attempts' = attempts + 1
  /\ pc' = IF attempts' >= MaxAttempts THEN "end" ELSE "attempt"
  /\ UNCHANGED <<running, params, cancel_requested, offset, stream, total_read, flash, hashed,
                 boot, starts>>

(* Mutant: a mismatch is reported, but the update goes on. *)
VerifyLength ==
  /\ pc = "verify"
  /\ pc' = IF Len(hashed) = Size[params] THEN "finish" ELSE "end"
  /\ UNCHANGED <<running, params, cancel_requested, downloadVars, boot, starts>>

Verify ==
  /\ pc = "verify"
  /\ pc' = IF hashed = Image(params) THEN "finish" ELSE "end"
  /\ UNCHANGED <<running, params, cancel_requested, downloadVars, boot, starts>>

(* esp_ota_end() and esp_ota_set_boot_partition(), which may fail. *)
Finish ==
  /\ pc = "finish"
  /\ \/ boot' = [update |-> params, bytes |-> flash] /\ pc' = "restart"
     \/ pc' = "end" /\ UNCHANGED boot
  /\ UNCHANGED <<running, params, cancel_requested, downloadVars, starts>>

Restart ==
  /\ pc = "restart"
  /\ pc' = "rebooted"
  /\ UNCHANGED <<running, params, cancel_requested, downloadVars, boot, starts>>

(* Mutant: a failed update makes room for the next before it is aborted. *)
AbortAfterRelease ==
  \/ /\ pc = "end" /\ running
     /\ running' = FALSE
     /\ UNCHANGED <<params, cancel_requested, pc, downloadVars, boot, starts>>
  \/ /\ pc = "end" /\ ~running
     /\ pc' = "none"
     /\ UNCHANGED <<running, params, cancel_requested, downloadVars, boot, starts>>

(* task_handler() after run() has failed, aborted and reported. *)
End ==
  /\ pc = "end"
  /\ running' = FALSE
  /\ pc' = "none"
  /\ UNCHANGED <<params, cancel_requested, downloadVars, boot, starts>>

--------------------------------------------------------------------------------
Init ==
  /\ running = FALSE /\ params = NoUpdate /\ cancel_requested = FALSE
  /\ pc = "none"
  /\ offset = 0 /\ attempts = 0 /\ stream = 1 /\ total_read = 0
  /\ flash = <<>> /\ hashed = <<>>
  /\ boot = OldImage
  /\ starts = 0

Download == Attempt \/ Connect \/ Read \/ ReadEnds \/ Retry
OtaTask == Begin \/ Download \/ Verify \/ Finish \/ Restart \/ End
RequestTask == Cancel \/ \E u \in Updates : Start(u)

Next == OtaTask \/ RequestTask

(* The OTA task runs, and none of its calls blocks for ever: connecting    *)
(* and reading time out.                                                   *)
Spec == Init /\ [][Next]_vars /\ WF_vars(OtaTask)

--------------------------------------------------------------------------------
(* Properties *)

Byte == Nat

(* The type of every variable. *)
TypeOK ==
  /\ running \in BOOLEAN /\ params \in Update /\ cancel_requested \in BOOLEAN
  /\ pc \in {"none", "begin", "attempt", "connect", "read", "failed", "verify", "finish",
             "restart", "end", "rebooted"}
  /\ offset \in Nat /\ attempts \in 0 .. MaxAttempts
  /\ stream \in Nat /\ total_read \in Nat
  /\ flash \in Seq(Byte) /\ hashed \in Seq(Byte)
  /\ boot \in [update: Update, bytes: Seq(Byte)]
  /\ starts \in 0 .. MaxStarts

(* The device never boots anything but the whole image the platform        *)
(* announced, byte for byte, however often the download was cut and        *)
(* whatever the server sent instead.                                       *)
BootVerified == boot = OldImage \/ boot.bytes = Image(boot.update)

(* What is on flash is what the server would have sent in one piece: no    *)
(* resume repeats, skips or shifts a byte, and offset says how far it goes.*)
ResumesInPlace ==
  /\ \A i \in DOMAIN flash : flash[i] \in {0, i}
  /\ pc \in {"attempt", "connect", "failed", "verify"} => Len(flash) = offset
  /\ pc = "read" => Len(flash) = offset + total_read

(* One update at a time: the parameters stay as long as a task works on    *)
(* them, and the task exists while running is set.                         *)
OneUpdate == [][pc # "none" => params' = params /\ (pc' # "none" => running)]_vars

(* Every update comes to an end, whatever network and server do, and with  *)
(* it the refusal of others.                                               *)
UpdateEnds == running ~> (~running \/ pc = "rebooted")

================================================================================
