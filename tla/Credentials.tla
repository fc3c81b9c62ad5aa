----------------------------- MODULE Credentials -----------------------------
(***************************************************************************)
(* The identity of the device (src/src/sc_credentials.cpp) over power      *)
(* cycles: sc_client::init() loads it from NVS or redeems a pairing token  *)
(* for a new one, erase_credentials() forgets it.                          *)
(*                                                                         *)
(* The three strings of an identity come from one answer of the platform;  *)
(* a string is represented by the number of the enrollment that issued it, *)
(* 0 standing for none.  NVS writes strings one by one, in the order they  *)
(* were set and at the latest in nvs_commit(); every call may fail, and    *)
(* the power may go between any two writes.                                *)
(***************************************************************************)
EXTENDS Integers, Sequences

CONSTANT MaxIssued \* bound: enrollments the platform grants

ASSUME MaxIssuedAssumption == MaxIssued \in Nat

VARIABLES nvs,       \* per key, what is durable
          pending,   \* writes the open NVS handle still holds: <<key, value>>
          identity,  \* sc_credentials::identity
          pc, step,  \* where init() or erase() is; the next call of save()
          caller,    \* where erase() returns to
          resp,      \* the enrollment being saved
          token,     \* cfg.pairing_token: "none", "fresh" or "spent"
          reEnroll,  \* cfg.re_enroll
          issued,    \* enrollments granted by the platform
          erased     \* erase_credentials() has succeeded, and save() not begun since

vars == <<nvs, pending, identity, pc, step, caller, resp, token, reEnroll, issued, erased>>

\* KEY_DEVICE_ID, KEY_PASSWORD and KEY_MQTT_URL, in the order save() writes them.
KeyOrder == <<"dev_id", "password", "mqtt_url">>
Keys == {KeyOrder[i] : i \in 1..3}

All(n) == [k \in Keys |-> n]
Enrolled == \A k \in Keys : nvs[k] # 0

Init ==
    /\ nvs = All(0) /\ pending = <<>> /\ identity = All(0)
    /\ pc = "boot" /\ step = 1 /\ caller = "boot" /\ resp = 0
    /\ token \in {"none", "fresh"} /\ reEnroll \in BOOLEAN
    /\ issued = 0 /\ erased = FALSE

config == <<token, reEnroll>>
-----------------------------------------------------------------------------
\* The firmware is started with another configuration.
Configure ==
    /\ pc = "boot"
    /\ token' \in {"none", "fresh"} /\ reEnroll' \in BOOLEAN
    /\ UNCHANGED <<nvs, pending, identity, pc, step, caller, resp, issued, erased>>

(* Mutant: whatever is wrong with the stored credentials, enroll. *)
MayEnrollOnError(result) == (result # "ok" \/ reEnroll) /\ token # "none"

MayEnroll(result) == (result = "not_found" \/ reEnroll) /\ token # "none"

\* sc_client::init() up to enroll(): sc_credentials::load() finds all three strings, or
\* misses one, or cannot read.  It starts from a new, empty sc_credentials.
LoadIdentity ==
    /\ pc \in {"boot", "failed"}
    /\ \E result \in {"ok", "not_found", "error"} :
        /\ result = "ok" => Enrolled
        /\ result = "not_found" => ~Enrolled
        /\ identity' = IF result = "ok" THEN nvs ELSE All(0)
        /\ pc' = CASE MayEnroll(result) -> "enroll"
                   [] ~MayEnroll(result) /\ result = "ok" -> "running"
                   [] OTHER -> "failed"
    /\ UNCHANGED <<nvs, pending, step, caller, resp, config, issued, erased>>

\* enroll(): the platform redeems a fresh token and its answer arrives, ...
Redeem ==
    /\ pc = "enroll" /\ token = "fresh" /\ issued < MaxIssued
    /\ issued' = issued + 1 /\ token' = "spent"
    /\ resp' = issued' /\ step' = 1 /\ pc' = "save"
    /\ UNCHANGED <<nvs, pending, identity, caller, reEnroll, erased>>

\* ... or it redeems the token but the answer is lost or cannot be decoded, ...
RedeemUnheard ==
    /\ pc = "enroll" /\ token = "fresh" /\ issued < MaxIssued
    /\ issued' = issued + 1 /\ token' = "spent"
    /\ pc' = "failed"
    /\ UNCHANGED <<nvs, pending, identity, step, caller, resp, reEnroll, erased>>

\* ... or it answers 401 because the token is spent, or it is not reached, or memory is
\* short: nothing happens.
EnrollFails ==
    /\ pc = "enroll"
    /\ pc' = "failed"
    /\ UNCHANGED <<nvs, pending, identity, step, caller, resp, config, issued, erased>>
-----------------------------------------------------------------------------
(* Mutant: the identity is written last string first. *)
SaveSetBackwards ==
    /\ pc = "save" /\ step \in 1..3
    /\ pending' = Append(pending, <<KeyOrder[4 - step], resp>>)
    /\ step' = step + 1 /\ erased' = FALSE
    /\ UNCHANGED <<nvs, identity, pc, caller, resp, config, issued>>

\* save(): nvs_set_str() of the next string.
SaveSet ==
    /\ pc = "save" /\ step \in 1..3
    /\ pending' = Append(pending, <<KeyOrder[step], resp>>)
    /\ step' = step + 1 /\ erased' = FALSE
    /\ UNCHANGED <<nvs, identity, pc, caller, resp, config, issued>>

(* Mutant: the strings are set, but not committed. *)
SaveNotCommitted ==
    /\ pc = "save" /\ step = 4
    /\ pending' = <<>>
    /\ identity' = All(resp) /\ pc' = "running" /\ step' = 1 /\ resp' = 0
    /\ UNCHANGED <<nvs, caller, config, issued, erased>>

\* nvs_commit() has written everything; enroll() uses the new identity.
SaveCommitted ==
    /\ pc = "save" /\ step = 4 /\ pending = <<>>
    /\ identity' = All(resp) /\ pc' = "running" /\ step' = 1 /\ resp' = 0
    /\ UNCHANGED <<nvs, pending, caller, config, issued, erased>>

(* Mutant: the handle is closed on success only. *)
SaveFailsOpen ==
    /\ pc = "save"
    /\ pc' = "failed" /\ step' = 1 /\ resp' = 0
    /\ UNCHANGED <<nvs, pending, identity, caller, config, issued, erased>>

\* nvs_open() or any of the chained calls fails; the rest of the chain is skipped, and
\* closing the handle drops what it has not written.
SaveFails ==
    /\ pc = "save"
    /\ pending' = <<>> /\ pc' = "failed" /\ step' = 1 /\ resp' = 0
    /\ UNCHANGED <<nvs, identity, caller, config, issued, erased>>

\* NVS writes the oldest pending string, or removes its key.
Write ==
    /\ pending # <<>>
    /\ nvs' = [nvs EXCEPT ![Head(pending)[1]] = Head(pending)[2]]
    /\ pending' = Tail(pending)
    /\ UNCHANGED <<identity, pc, step, caller, resp, config, issued, erased>>
-----------------------------------------------------------------------------
\* erase_credentials(), called before, after or instead of a successful init():
\* nvs_erase_all() removes the keys in an order of its own.
EraseAll ==
    /\ pc \in {"boot", "failed", "running"}
    /\ \E a, b, c \in Keys :
        /\ a # b /\ b # c /\ a # c
        /\ pending' = <<<<a, 0>>, <<b, 0>>, <<c, 0>>>>
    /\ caller' = pc /\ pc' = "erase"
    /\ UNCHANGED <<nvs, identity, step, resp, config, issued, erased>>

(* Mutant: the keys are removed without nvs_commit(). *)
EraseNotCommitted ==
    /\ pc = "erase"
    /\ pending' = <<>> /\ identity' = All(0) /\ pc' = caller /\ erased' = TRUE
    /\ UNCHANGED <<nvs, step, caller, resp, config, issued>>

EraseCommitted ==
    /\ pc = "erase" /\ pending = <<>>
    /\ identity' = All(0) /\ pc' = caller /\ erased' = TRUE
    /\ UNCHANGED <<nvs, pending, step, caller, resp, config, issued>>

\* nvs_erase_all() or nvs_commit() fails: the identity in memory is forgotten all the same.
EraseFails ==
    /\ pc = "erase"
    /\ pending' = <<>> /\ identity' = All(0) /\ pc' = caller
    /\ UNCHANGED <<nvs, step, caller, resp, config, issued, erased>>

\* The power goes, or the device restarts.
PowerLoss ==
    /\ pending' = <<>> /\ identity' = All(0)
    /\ pc' = "boot" /\ step' = 1 /\ caller' = "boot" /\ resp' = 0
    /\ UNCHANGED <<nvs, config, issued, erased>>

Next ==
    \/ Configure \/ LoadIdentity
    \/ Redeem \/ RedeemUnheard \/ EnrollFails
    \/ SaveSet \/ SaveCommitted \/ SaveFails \/ Write
    \/ EraseAll \/ EraseCommitted \/ EraseFails
    \/ PowerLoss

Spec == Init /\ [][Next]_vars
-----------------------------------------------------------------------------
(* What holds of the identity. *)

TypeOK ==
    /\ nvs \in [Keys -> 0..MaxIssued] /\ identity \in [Keys -> 0..MaxIssued]
    /\ pc \in {"boot", "enroll", "save", "erase", "running", "failed"}
    /\ caller \in {"boot", "running", "failed"}
    /\ step \in 1..4 /\ resp \in 0..MaxIssued /\ issued \in 0..MaxIssued
    /\ token \in {"none", "fresh", "spent"} /\ reEnroll \in BOOLEAN /\ erased \in BOOLEAN
    /\ pending \in Seq(Keys \X (0..MaxIssued))
    /\ pending # <<>> => pc \in {"save", "erase"}

\* A client that init() has reported ready uses exactly what the next boot will load:
\* it never runs with an identity that a restart would lose.
RunningIsDurable == pc = "running" => identity \in {nvs, All(0)}

\* Whatever was interrupted, the strings in NVS never run ahead of the device ID: a
\* mixture pairs a newer device ID with older strings, never an old ID with a new
\* password (the new password is saved only where its ID is already stored).
MixIsOrdered ==
    \A i, j \in 1..3 :
        (i < j /\ nvs[KeyOrder[i]] # 0 /\ nvs[KeyOrder[j]] # 0)
            => nvs[KeyOrder[i]] >= nvs[KeyOrder[j]]

\* "Forget the credentials; the device must be enrolled again": once erase_credentials()
\* has reported success, no restart brings an identity back.
ErasedStaysErased == erased => nvs = All(0) /\ identity = All(0)

\* An enrolled device keeps an identity until the application erases it: a failed or
\* interrupted re-enrollment leaves three strings for the next boot, and a token is
\* spent only when re_enroll says so or a string is missing - not on an NVS read error.
IdentityKept ==
    [][/\ Enrolled => Enrolled' \/ pc = "erase"
       /\ issued' # issued => reEnroll \/ ~Enrolled]_vars

\* sc_credentials.hpp: "every enrollment replaces all three", so what a client runs with
\* should come from one enrollment.
IdentityIsWhole == pc = "running" => \E n \in 0..MaxIssued : identity = All(n)
=============================================================================
