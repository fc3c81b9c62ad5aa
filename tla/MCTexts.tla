------------------------------- MODULE MCTexts -------------------------------
(***************************************************************************)
(* Small instances of JsonDocs and Shell, the text processing of the       *)
(* request task.  It is sequential and the two share no state, so a        *)
(* behaviour belongs to one of them: the shell has those in which no JSON  *)
(* is read or written.                                                     *)
(*                                                                         *)
(* Peers send arbitrary symbols, or texts in the vocabulary of one         *)
(* decoder, with members that are right, of the wrong type, of the wrong   *)
(* value, too long, missing, repeated or out of place.  Command names are  *)
(* prefixes of each other.                                                 *)
(***************************************************************************)
EXTENDS JsonDocs, Shell

SmallStrings == {"k", "level", "tags", "text", "bin", "info", "loud", "long", "wifi",
                 "url", "sha256", "hash", "size", "taskId", "version",
                 "mqtt", "deviceId", "password", "ok", "error", "result",
                 "birth", "uptimeMs", "bootId", "resetReason", "fw", "elfSha256", "project",
                 "sdk", "chip", "heap", "free", "minFree", "state", "progress", "token",
                 "hardwareId", "platform", "fwVersion", "name"}
SmallPrimitives == {"1", "0", "true", "false"}
SmallWidth == [symbol \in Marks \cup SmallStrings \cup SmallPrimitives |->
                  IF symbol \in Marks \cup {"1"} THEN 1 ELSE 3]

Member(key, value) == <<key, ":", value>>

Anything == {<<symbol>> : symbol \in Marks \cup {"k", "level", "1"}}
LogPieces ==
    {<<",">>, <<"}">>, <<"]">>, <<"info">>, <<"tags", ":", "{">>, <<"k", ":", "[">>}
    \cup {Member(pair[1], pair[2]) :
             pair \in {<<"level", "info">>, <<"level", "loud">>, <<"text", "true">>,
                       <<"wifi", "info">>, <<"wifi", "loud">>, <<"long", "info">>, <<"tags", "1">>}}
OtaPieces ==
    {<<",">>, <<"}">>, <<"k", ":", "{">>}
    \cup {Member(pair[1], pair[2]) :
             pair \in {<<"url", "text">>, <<"sha256", "hash">>, <<"size", "1">>, <<"size", "0">>,
                       <<"taskId", "text">>, <<"version", "long">>}}
EnrollPieces ==
    {<<",">>, <<"}">>, <<"mqtt", ":", "{">>}
    \cup {Member(pair[1], pair[2]) :
             pair \in {<<"deviceId", "text">>, <<"password", "text">>, <<"password", "1">>,
                       <<"url", "long">>, <<"url", "text">>, <<"mqtt", "1">>}}

Dialogue(opening, pieces, left, room, as) ==
    [opening |-> opening, pieces |-> pieces, left |-> left, room |-> room, as |-> as]
SmallDialogues ==
    {Dialogue(<<>>, Anything, 7, 4, "none"),
     Dialogue(<<"{", "k", ":", "[", "{">>, Anything, 5, 12, "none"),
     Dialogue(<<"{">>, LogPieces, 4, 16, "log"),
     Dialogue(<<"{", "tags", ":", "{">>, LogPieces, 5, 16, "log"),
     Dialogue(<<"{", "url", ":", "text", ",", "sha256", ":", "hash", ",">>, OtaPieces, 4, 16, "ota"),
     Dialogue(<<"{", "url", ":", "text", ",">>, OtaPieces, 5, 16, "ota"),
     Dialogue(<<"{", "deviceId", ":", "text", ",">>, EnrollPieces, 5, 16, "enroll"),
     Dialogue(<<"{", "mqtt", ":", "{", "password", ":", "text", ",">>, EnrollPieces, 5, 16, "enroll")}

SmallNames == {<<"get">>, <<"get", "heap">>, <<"get", "heap", "int">>, <<"put">>}
SmallLines == {<<>>, <<"get">>, <<"get", "heap">>, <<"get", "heap", "int">>,
               <<"heap">>, <<"put", "heap", "int", "get">>}

Init == JsonInit /\ ShellInit
Next ==
    \/ JsonNext /\ UNCHANGED shellVars
    \/ part = "none" /\ ShellNext /\ UNCHANGED jsonVars
Spec == Init /\ [][Next]_<<jsonVars, shellVars>>
=============================================================================
