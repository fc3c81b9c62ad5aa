------------------------------- MODULE JsonDocs -------------------------------
(***************************************************************************)
(* The JSON of the client at work, in three parts a behaviour chooses      *)
(* between in its initial state:                                           *)
(*                                                                         *)
(*  "peer"   the platform sends a text, piece by piece and of any form;    *)
(*           jsmn reads it as it grows, and so does the reference of       *)
(*           module JsonGrammar.  In every state the text may end and be   *)
(*           looked up and decoded.                                        *)
(*  "device" the client writes a message: its encoder's calls, between     *)
(*           them those of an application callback or of a method handler, *)
(*           and an error answer in its place when the handler fails or    *)
(*           the answer does not fit.                                      *)
(*  "bytes"  any string of bytes grows, byte by byte: a value to be        *)
(*           written, and the inside of a string that was received.        *)
(*                                                                         *)
(* or "none" of them, when the task is busy with something else.           *)
(***************************************************************************)
EXTENDS SoulCodec, JsonGrammar, JsonString

CONSTANTS Dialogues, \* [opening, pieces, left, room, as]: how peers' texts begin and go on,
                     \* bound of the pieces, tokens of the reader, decoder they are for
          MaxCalls,  \* bound of the calls a callback or a handler makes
          Caps, AnswerCaps, \* sizes of the buffer of a message, and of an answer
          Bytes, MaxBytes, \* bytes that strings are made of, bound of their length
          FieldCaps  \* sizes of the field a string is read into

ASSUME BytesAssumption == Bytes \subseteq 1..255 /\ FieldCaps \subseteq Nat

\* The words of the messages, the marks being single bytes.
ASSUME WordsAssumption ==
    /\ {"text", "ok", "error", "result", "birth", "uptimeMs", "bootId", "resetReason", "fw",
        "version", "elfSha256", "project", "sdk", "chip", "heap", "free", "minFree", "taskId",
        "state", "progress", "token", "hardwareId", "platform", "fwVersion", "name"} \subseteq Strings
    /\ {"1", "true", "false"} \subseteq Primitives
    /\ Marks \cup Strings \cup Primitives \subseteq DOMAIN Width
    /\ \A mark \in Marks : Width[mark] = 1

VARIABLES part, peer, parser, doc,       \* what is read
          message, writer, asked, phase, \* what is written
          bytes

jsonVars == <<part, peer, parser, doc, message, writer, asked, phase, bytes>>
reading == <<peer, parser, doc>>
writing == <<message, writer, asked, phase>>

Received(p, text) == FoldLeft(Feed, p, text)
ReadText(d, text) == FoldLeft(LAMBDA e, symbol : Read(e, symbol, symbol \in Strings), d, text)
WriteAll(w, calls) == FoldLeft(Called, w, calls)
-----------------------------------------------------------------------------
(* What the calls of a message ask for: its nodes, each with the node it   *)
(* belongs to, a key being the node of its value, and the containers that  *)
(* are open.                                                               *)

NothingAsked == [nodes |-> <<>>, open |-> <<>>, deep |-> FALSE]
Innermost(a) == IF a.open = <<>> THEN 0 ELSE a.open[Len(a.open)]

Ask(a, call) ==
    LET node(text, parent) == [text |-> text, parent |-> parent]
        keyed == IF call.key = Unnamed THEN a.nodes
                 ELSE Append(a.nodes, node(call.key, Innermost(a)))
        parent == IF call.key = Unnamed THEN Innermost(a) ELSE Len(keyed)
    IN  IF call.op = "end" THEN [a EXCEPT !.open = SubSeq(@, 1, Len(@) - 1)]
        ELSE [nodes |-> Append(keyed, node(call.value, parent)),
              open |-> IF call.op = "begin" THEN Append(a.open, Len(keyed) + 1) ELSE a.open,
              deep |-> a.deep \/ (call.op = "begin" /\ Len(a.open) >= MaxDepth)]

AskAll(a, calls) == FoldLeft(Ask, a, calls)

\* Bytes of the text that is asked for: a container has two marks once it is closed and a
\* comma between any two children, and a key has a colon.
Size(a) ==
    LET children(i) == Cardinality({j \in DOMAIN a.nodes : a.nodes[j].parent = i})
        isOpen(i) == \E j \in DOMAIN a.open : a.open[j] = i
        size(i) == Width[a.nodes[i].text]
                   + (IF a.nodes[i].text \in {"{", "["}
                      THEN (IF isOpen(i) THEN 0 ELSE 1)
                           + (IF children(i) > 1 THEN children(i) - 1 ELSE 0)
                      ELSE children(i))
    IN  MapThenSumSet(size, DOMAIN a.nodes)

\* A call a correct caller may make: with a key in an object and without one in an array.
MayCall(call) ==
    LET inside == asked.nodes[Innermost(asked)].text
    IN  IF call.op = "end"
        THEN /\ Len(asked.open) > Len(AskAll(NothingAsked, message.head).open)
             /\ call.value = (IF inside = "{" THEN "}" ELSE "]")
        ELSE call.key # Unnamed <=> inside = "{"

FreeCalls ==
    {Ends("}"), Ends("]")}
    \cup UNION {{Begins(key, "{"), Begins(key, "["), Adds(key, "text"), Adds(key, "1")} :
                   key \in {"text", Unnamed}}
\* The answer of sc_rpc::handle() around what the method's handler writes, and the one
\* that takes its place when the method has failed.
AnswerHead == <<Begins(Unnamed, "{"), Adds("ok", "true"), Begins("result", "{")>>
AnswerTail == <<Ends("}"), Ends("}")>>
ErrorAnswer == <<Begins(Unnamed, "{"), Adds("ok", "false"), Adds("error", "text"), Ends("}")>>

\* A message: the encoder's calls before and after the free ones, how many of those there
\* may be, whether it is an answer, and the buffer.
Message(head, tail, calls, answer, caps) ==
    {[head |-> head, tail |-> tail, calls |-> calls, answer |-> answer, cap |-> cap] : cap \in caps}
ASSUME CapsAssumption == Caps \subseteq Nat /\ AnswerCaps \subseteq Nat /\ MaxDepth > 0

Answers == Message(AnswerHead, AnswerTail, MaxCalls, TRUE, AnswerCaps)
StatusReports ==
    UNION {Message(StatusHead(msg), StatusTail, MaxCalls, FALSE, Caps) :
              msg \in [birth : BOOLEAN, elf : BOOLEAN]}
OtaEvents ==
    UNION {Message(OtaEventCalls(evt), <<>>, 0, FALSE, Caps) :
              evt \in [progress : BOOLEAN, error : BOOLEAN]}
Enrolments ==
    UNION {Message(EnrollCalls(req), <<>>, 0, FALSE, Caps) : req \in [name : BOOLEAN]}
Messages == Answers \cup StatusReports \cup OtaEvents \cup Enrolments
-----------------------------------------------------------------------------
NoPeer == [opening |-> <<>>, pieces |-> {}, left |-> 0, room |-> 0, as |-> "none"]
NoMessage == [head |-> <<>>, tail |-> <<>>, calls |-> 0, answer |-> FALSE, cap |-> 0]

JsonInit ==
    /\ part \in {"peer", "device", "bytes", "none"}
    /\ bytes = <<>>
    /\ IF part = "peer"
       THEN \E dialogue \in Dialogues :
                /\ peer = dialogue
                /\ parser = Received(NewParser(dialogue.room), dialogue.opening)
                /\ doc = ReadText(NewDoc, dialogue.opening)
       ELSE peer = NoPeer /\ parser = NewParser(0) /\ doc = NewDoc
    /\ IF part = "device"
       THEN \E m \in Messages :
                /\ message = m /\ phase = "writing"
                /\ writer = WriteAll(NewWriter(m.cap), m.head)
                /\ asked = AskAll(NothingAsked, m.head)
       ELSE message = NoMessage /\ writer = NewWriter(0) /\ asked = NothingAsked /\ phase = "none"

\* The text goes on with one more piece.
Receive(piece) ==
    /\ peer.left > 0 /\ parser.status = "ok"
    /\ peer' = [peer EXCEPT !.left = @ - 1]
    /\ parser' = Received(parser, piece)
    /\ doc' = ReadText(doc, piece)
    /\ UNCHANGED <<part, writing, bytes>>

\* The callback or the handler writes something.
Write(call) ==
    /\ phase = "writing" /\ message.calls > 0 /\ MayCall(call)
    /\ message' = [message EXCEPT !.calls = @ - 1]
    /\ writer' = Called(writer, call)
    /\ asked' = Ask(asked, call)
    /\ UNCHANGED <<part, reading, phase, bytes>>

\* finish() of sc_codec, and the checks of sc_rpc::handle() after the handler.
Good(w, failed) == ~failed /\ ~w.overflow

\* The rest of the encoder's calls; then the message is sent, given up, or, if it is an
\* answer, replaced by an error written into the same buffer and sent without a check.
Finish(failed) ==
    /\ phase = "writing" /\ (failed => message.answer)
    /\ Len(asked.open) = Len(AskAll(NothingAsked, message.head).open)
    /\ LET full == WriteAll(writer, message.tail)
       IN  IF Good(full, failed)
           THEN writer' = full /\ asked' = AskAll(asked, message.tail) /\ phase' = "sent"
           ELSE IF message.answer
           THEN /\ writer' = WriteAll(NewWriter(message.cap), ErrorAnswer)
                /\ asked' = AskAll(NothingAsked, ErrorAnswer) /\ phase' = "sent"
           ELSE writer' = full /\ asked' = AskAll(asked, message.tail) /\ phase' = "refused"
    /\ UNCHANGED <<part, reading, message, bytes>>

Grow(byte) ==
    /\ part = "bytes" /\ Len(bytes) < MaxBytes
    /\ bytes' = Append(bytes, byte)
    /\ UNCHANGED <<part, reading, writing>>

JsonNext ==
    \/ \E piece \in peer.pieces : Receive(piece)
    \/ \E call \in FreeCalls : Write(call)
    \/ \E failed \in BOOLEAN : Finish(failed)
    \/ \E byte \in Bytes : Grow(byte)

JsonSpec == JsonInit /\ [][JsonNext]_jsonVars

-----------------------------------------------------------------------------
Tokens == DOMAIN parser.tokens
TextOf(t) == parser.tokens[t].text

\* The token t and those it was counted for, directly or not; so the subtree of t are the
\* tokens that have it among them.
Above == LET above[t \in 0..Len(parser.tokens)] ==
                 IF t = 0 THEN {} ELSE {t} \cup above[parser.tokens[t].parent]
         IN  above

\* Lookups by child counts in the flat token array find what the text says: skip() ends
\* exactly behind the subtree of its token, in any text that is accepted; a key found is
\* a key of that object; and in a well-formed text every key is found, with the value of
\* its first member.  No well-formed object with few enough tokens is refused.
LookupsAreExact ==
    /\ ParseOk(parser) =>
           /\ \A t \in Tokens :
                  LET above == Above
                      behind == {u \in Tokens : u > t /\ t \notin above[u]}
                  IN  Skip(parser, t) = (IF behind = {} THEN 0 ELSE Min(behind))
           /\ \A object \in Tokens, key \in {TextOf(t) : t \in Tokens} \cap Strings :
                  LET value == Find(parser, object, key)
                  IN  /\ value # 0 => LET member == parser.tokens[value].parent
                                      IN  /\ TextOf(member) = key
                                          /\ parser.tokens[member].parent = object
                      /\ WellFormed(doc) /\ IsObject(parser, object) =>
                             value = MemberValue(doc, object, key)
    /\ part = "peer" /\ WellFormed(doc) /\ doc.values <= peer.room =>
           (ParseOk(parser) <=> TextOf(1) = "{")

\* Every text that is sent is JSON that reads back as the calls that asked for it, value
\* by value and key by key, and stays within its buffer, but for an error answer that is
\* too long for the buffer of the answer; and a message is given up only if it does not
\* fit or is nested too deeply.
WrittenIsRead ==
    LET read == Received(NewParser(Len(writer.text)), writer.text)
        tree == [i \in DOMAIN read.tokens |->
                    [text |-> read.tokens[i].text, parent |-> read.tokens[i].parent]]
    IN  /\ phase = "sent" /\ ~writer.overflow =>
               /\ WellFormed(ReadText(NewDoc, writer.text)) /\ ParseOk(read)
               /\ tree = asked.nodes
               /\ writer.pos < writer.cap
        /\ phase = "sent" /\ writer.overflow =>
               /\ message.answer /\ asked = AskAll(NothingAsked, ErrorAnswer)
               /\ Size(asked) >= message.cap
        /\ phase \in {"writing", "sent"} /\ ~writer.overflow => writer.pos = Size(asked)
        /\ phase = "refused" => Size(asked) >= writer.cap \/ asked.deep

\* sc_json.hpp: once the buffer is full "the text is then incomplete and must not be sent".
OnlyWholeIsSent == phase = "sent" => ~writer.overflow

\* A string comes back as it was written: jsmn ends it at its own closing quote, whatever
\* quotes and backslashes are in it, and str_at() gives the bytes back or, if the field is
\* too small, nothing.  The inside of any string jsmn accepts is decoded: str_at() fails
\* for want of room only.
TextComesBack ==
    part = "bytes" =>
        /\ ClosingQuote(Append(Escape(bytes), Quote)) = Len(Escape(bytes)) + 1
        /\ \A cap \in FieldCaps :
               Unescape(Escape(bytes), cap) = (IF Len(bytes) < cap THEN bytes ELSE Invalid)
        /\ ClosingQuote(Append(bytes, Quote)) = Len(bytes) + 1 =>
               /\ Decode(bytes) # Invalid /\ Len(Decode(bytes)) <= Len(bytes)

MembersOf(object) ==
    SelectSeq(doc.members, LAMBDA member : member.object = object)
ValueOf(object, key) == MemberValue(doc, object, key)
IsText(value) == value # 0 /\ parser.tokens[value].type = "string" /\ TextOf(value) \notin TooLong
TextIf(accepted, value) == IF accepted THEN TextOf(value) ELSE NoText
IsSize(value) == value # 0 /\ parser.tokens[value].type = "primitive" /\ TextOf(value) \in Sizes

\* The decoders take a message as a whole: log.config sets every tag of a well-formed text
\* that is right throughout and none of one it refuses, although the tags are set while
\* the tokens are walked; ota.start and the enrolment answer are taken exactly when each
\* field is there, in the object it belongs to, and fits.
DecodedAsAWhole ==
    /\ peer.as = "log" /\ ParseOk(parser) =>
           LET config == DecodeLogConfig(parser)
               tags == ValueOf(1, "tags")
               level == ValueOf(1, "level")
           IN  /\ ~config.ok => config.tags = <<>>
               /\ WellFormed(doc) =>
                      /\ config.ok <=>
                             /\ IsText(level) => TextOf(level) \in LevelNames
                             /\ tags # 0 =>
                                    /\ TextOf(tags) = "{"
                                    /\ \A i \in DOMAIN MembersOf(tags) :
                                           LET member == MembersOf(tags)[i]
                                           IN  /\ member.key \notin TooLong
                                               /\ IsText(member.value)
                                               /\ TextOf(member.value) \in LevelNames
                      /\ config.ok /\ tags # 0 =>
                             config.tags = [i \in DOMAIN MembersOf(tags) |->
                                 <<MembersOf(tags)[i].key, TextOf(MembersOf(tags)[i].value)>>]
    /\ peer.as = "ota" /\ ParseOk(parser) /\ WellFormed(doc) =>
           LET text(key) == TextIf(IsText(ValueOf(1, key)), ValueOf(1, key))
               size == TextIf(IsSize(ValueOf(1, "size")), ValueOf(1, "size"))
           IN  DecodeOta(parser) =
                   IF NoText \in {text("url"), text("taskId"), size} \/ text("sha256") \notin Hashes
                   THEN NoResponse
                   ELSE [ok |-> TRUE, url |-> text("url"), sha256 |-> text("sha256"), size |-> size,
                         taskId |-> text("taskId"), version |-> text("version")]
    /\ peer.as = "enroll" /\ ParseOk(parser) /\ WellFormed(doc) =>
           LET mqtt == ValueOf(1, "mqtt")
               text(object, key) == LET value == ValueOf(object, key)
                                    IN  TextIf(object # 0 /\ IsText(value), value)
               read == [ok |-> TRUE, deviceId |-> text(1, "deviceId"),
                        password |-> text(mqtt, "password"), url |-> text(mqtt, "url")]
           IN  DecodeEnroll(parser) =
                   IF NoText \in {read.deviceId, read.password, read.url} THEN NoResponse ELSE read
=============================================================================
