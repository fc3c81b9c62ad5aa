------------------------------ MODULE SoulCodec ------------------------------
(***************************************************************************)
(* sc_codec (src/src/sc_codec.cpp): the messages of the protocol, written  *)
(* with module JsonWriter and read with module JsonReader.  A value is     *)
(* known by the symbol it is written with; an optional string that is not  *)
(* there is NoText.                                                        *)
(***************************************************************************)
EXTENDS JsonReader, JsonWriter

CONSTANTS TooLong, \* strings no field of a message has room for
          Hashes,  \* strings of 64 bytes
          Sizes    \* whole numbers from 1 to UINT32_MAX

ASSUME CodecAssumption ==
    TooLong \subseteq Strings /\ Hashes \subseteq Strings /\ Sizes \subseteq Primitives

NoText == ""
LevelNames == {"none", "error", "warn", "info", "debug", "verbose"}
When(condition, calls) == IF condition THEN calls ELSE <<>>
-----------------------------------------------------------------------------
\* The calls of encode_status() before and after those of the application's callback.
StatusHead(msg) ==
    <<Begins(Unnamed, "{")>>
    \o When(msg.birth, <<Adds("birth", "true")>>)
    \o <<Adds("uptimeMs", "1"), Adds("bootId", "1"), Adds("resetReason", "1"),
         Begins("fw", "{"), Adds("version", "text")>>
    \o When(msg.elf, <<Adds("elfSha256", "text")>>)
    \o <<Adds("project", "text"), Adds("sdk", "text"), Ends("}"), Adds("chip", "text"),
         Begins("heap", "{"), Adds("free", "1"), Adds("minFree", "1"), Ends("}")>>
StatusTail == <<Ends("}")>>

\* encode_ota_event()
OtaEventCalls(evt) ==
    <<Begins(Unnamed, "{"), Adds("taskId", "text"), Adds("state", "text")>>
    \o When(evt.progress, <<Adds("progress", "1")>>)
    \o When(evt.error, <<Adds("error", "text")>>) \o <<Ends("}")>>

\* encode_enroll_request()
EnrollCalls(req) ==
    <<Begins(Unnamed, "{"), Adds("token", "text"), Adds("hardwareId", "text"),
      Adds("platform", "text"), Adds("chip", "text"), Adds("fwVersion", "text")>>
    \o When(req.name, <<Adds("name", "text")>>) \o <<Ends("}")>>
-----------------------------------------------------------------------------
\* sc_json_reader::str_at(): a string with room for it, or NoText.
StrAt(p, tok) ==
    IF tok \in DOMAIN p.tokens /\ p.tokens[tok].type = "string" /\ p.tokens[tok].text \notin TooLong
    THEN p.tokens[tok].text ELSE NoText

\* get_str(), get_bool(), get_int()
GetStr(p, object, key) == StrAt(p, Find(p, object, key))
GetPrimitive(p, object, key, accepted) ==
    LET tok == Find(p, object, key)
    IN  IF /\ tok \in DOMAIN p.tokens /\ p.tokens[tok].type = "primitive"
           /\ p.tokens[tok].text \in accepted
        THEN p.tokens[tok].text ELSE NoText

\* decode_enroll_response(); NoResponse stands for an error.
NoResponse == [ok |-> FALSE]
DecodeEnroll(p) ==
    LET mqtt == Find(p, 1, "mqtt")
        read == [ok |-> TRUE, deviceId |-> GetStr(p, 1, "deviceId"),
                 password |-> GetStr(p, mqtt, "password"), url |-> GetStr(p, mqtt, "url")]
    IN  IF NoText \in {read.deviceId, read.password, read.url} THEN NoResponse ELSE read

\* decode_ota_params()
DecodeOta(p) ==
    LET read == [ok |-> TRUE, url |-> GetStr(p, 1, "url"), sha256 |-> GetStr(p, 1, "sha256"),
                 size |-> GetPrimitive(p, 1, "size", Sizes), taskId |-> GetStr(p, 1, "taskId"),
                 version |-> GetStr(p, 1, "version")]
    IN  IF NoText \in {read.url, read.size, read.taskId} \/ read.sha256 \notin Hashes
        THEN NoResponse ELSE read
-----------------------------------------------------------------------------
\* The keys the loop over {"tag": "level", ...} arrives at: it takes a token for the key
\* and the next one for its level, and ends where skip() does.
Keys(p, tags) ==
    LET member[i \in 1..ChildCount(p, tags)] ==
            IF i = 1 THEN tags + 1
            ELSE IF member[i - 1] = 0 THEN 0 ELSE Skip(p, member[i - 1] + 1)
    IN  [i \in 1..Cardinality({i \in DOMAIN member : member[i] # 0}) |-> member[i]]

Setting(p, key) == <<StrAt(p, key), StrAt(p, key + 1)>>
BadSettings(settings) ==
    {i \in DOMAIN settings : settings[i][1] = NoText \/ settings[i][2] \notin LevelNames}

(* Mutant: one pass that applies each entry once it is checked. *)
AppliedAtOnce(settings) ==
    IF BadSettings(settings) = {} THEN settings
    ELSE SubSeq(settings, 1, Min(BadSettings(settings)) - 1)

\* The settings that reach set_tag(): the first pass checks every entry, and only the
\* second one applies them.
Applied(settings) == IF BadSettings(settings) = {} THEN settings ELSE <<>>

\* decode_log_config(): whether it succeeds, the level, and the tags it has set.
DecodeLogConfig(p) ==
    LET level == GetStr(p, 1, "level")
        tags == Find(p, 1, "tags")
        settings == [i \in DOMAIN Keys(p, tags) |-> Setting(p, Keys(p, tags)[i])]
        read(ok, set) == [ok |-> ok, level |-> level,
                          text |-> GetPrimitive(p, 1, "text", {"true", "false"}),
                          bin |-> GetPrimitive(p, 1, "bin", {"true", "false"}), tags |-> set]
    IN  IF level \notin LevelNames \cup {NoText} THEN read(FALSE, <<>>)
        ELSE IF tags = 0 THEN read(TRUE, <<>>)
        ELSE IF ~IsObject(p, tags) THEN read(FALSE, <<>>)
        ELSE read(BadSettings(settings) = {}, Applied(settings))
=============================================================================
