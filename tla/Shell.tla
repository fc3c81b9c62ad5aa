-------------------------------- MODULE Shell --------------------------------
(***************************************************************************)
(* The remote shell (src/src/sc_shell.cpp) and the method table of sc_rpc, *)
(* which has the same form: fixed tables in which a new name takes the     *)
(* first free place and a known name replaces its handler, the choice of   *)
(* the command a line runs, and the bounded text a command writes.         *)
(*                                                                         *)
(* A command name and a line are sequences of words; a handler is          *)
(* represented by the number of the registration that brought it.          *)
(***************************************************************************)
EXTENDS Integers, Sequences, FiniteSets

CONSTANTS Names,       \* command names that are registered
          Lines,       \* lines that are run
          MaxCmds,     \* CONFIG_SOULCLOUD_SHELL_MAX_CMDS
          MaxArgs,     \* sc_shell::MAX_ARGS
          OutSizes,    \* sizes of the output buffer
          TextLens,    \* lengths of what a command writes at once
          MaxAdds, MaxTexts \* bounds: registrations, and writes of a command

ASSUME ShellAssumption ==
    /\ \A name \in Names : Len(name) \in Nat \ {0}
    /\ MaxCmds \in Nat /\ MaxArgs \in Nat \ {0}
    /\ OutSizes \subseteq Nat /\ TextLens \subseteq Nat
    /\ MaxAdds \in Nat /\ MaxTexts \in Nat

VARIABLES cmds,   \* sc_shell::cmds, as far as it is filled
          adds,   \* registrations so far
          latest, \* per name, its last successful registration, or 0
          argv,   \* the words of the line being run
          next,   \* the entry that run()'s loop over the table comes to
          best,   \* the entry it has chosen so far, or NoCommand
          out,    \* sc_shell_out: [cap, pos, full]
          texts,  \* how many texts the command has written, and
          total   \* how long they are together

shellVars == <<cmds, adds, latest, argv, next, best, out, texts, total>>
runVars == <<argv, next, best, out, texts, total>>

Entry(name, handler) == [name |-> name, handler |-> handler, words |-> Len(name)]
NoCommand == [name |-> <<>>, handler |-> 0, words |-> 0]
NoOutput == [cap |-> 0, pos |-> 0, full |-> FALSE]
Idle == <<"no line">>

ShellInit ==
    /\ cmds = <<>> /\ adds = 0 /\ latest = [name \in Names |-> 0]
    /\ argv = Idle /\ next = 1 /\ best = NoCommand
    /\ out = NoOutput /\ texts = 0 /\ total = 0
-----------------------------------------------------------------------------
\* The first entry with that name, or the first free one.
Place(table, name) ==
    LET places == {i \in DOMAIN table : table[i].name = name} \cup {Len(table) + 1}
    IN  CHOOSE i \in places : \A j \in places : i <= j

\* sc_shell::add(), and sc_rpc::add_method(): ESP_ERR_NO_MEM changes nothing.
Add(name) ==
    /\ adds < MaxAdds /\ argv = Idle
    /\ adds' = adds + 1
    /\ LET i == Place(cmds, name)
       IN  IF i <= MaxCmds
           THEN /\ cmds' = [j \in 1..(IF i > Len(cmds) THEN i ELSE Len(cmds)) |->
                               IF j = i THEN Entry(name, adds') ELSE cmds[j]]
                /\ latest' = [latest EXCEPT ![name] = adds']
           ELSE UNCHANGED <<cmds, latest>>
    /\ UNCHANGED runVars

\* name_matches(): the words of the name are the first words of the line.
NameMatches(name, words) ==
    Len(name) <= Len(words) /\ SubSeq(words, 1, Len(name)) = name

(* Mutant: the last entry that matches, whatever its length. *)
MatchesAtAll(entry, found, words) == NameMatches(entry.name, words)

\* An entry replaces the best one so far only with more words.
Better(entry, found, words) ==
    (found = NoCommand \/ entry.words > found.words) /\ NameMatches(entry.name, words)

\* sc_shell::run(): strtok_r() takes at most MAX_ARGS words.  Without words, run()
\* returns at once.
Run(line, cap) ==
    /\ argv = Idle /\ line # <<>>
    /\ argv' = SubSeq(line, 1, IF Len(line) < MaxArgs THEN Len(line) ELSE MaxArgs)
    /\ next' = 1 /\ best' = NoCommand
    /\ out' = [NoOutput EXCEPT !.cap = cap]
    /\ texts' = 0 /\ total' = 0
    /\ UNCHANGED <<cmds, adds, latest>>

\* One turn of the loop over the table, which keeps the best match.
Look ==
    /\ argv # Idle /\ next <= Len(cmds)
    /\ best' = IF Better(cmds[next], best, argv) THEN cmds[next] ELSE best
    /\ next' = next + 1
    /\ UNCHANGED <<cmds, adds, latest, argv, out, texts, total>>

\* The loop is over, and the command runs.
Chosen == argv # Idle /\ next > Len(cmds)

\* The command is over; the shell method answers with what is in the buffer.
Return ==
    /\ Chosen
    /\ argv' = Idle /\ next' = 1 /\ best' = NoCommand
    /\ out' = NoOutput /\ texts' = 0 /\ total' = 0
    /\ UNCHANGED <<cmds, adds, latest>>
-----------------------------------------------------------------------------
\* sc_shell_out::write()
Written(o, len) ==
    LET room == o.cap - 1 - o.pos
    IN  IF o.cap = 0 \/ o.full THEN o
        ELSE [o EXCEPT !.pos = @ + (IF len > room THEN room ELSE len), !.full = len > room]

(* Mutant: a text that fills the buffer but for its NUL counts as complete. *)
PrintedTight(o, len) ==
    IF o.cap = 0 \/ o.full THEN o
    ELSE IF len > o.cap - o.pos THEN [o EXCEPT !.pos = o.cap - 1, !.full = TRUE]
    ELSE [o EXCEPT !.pos = @ + len]

\* sc_shell_out::printf(): vsnprintf() reports the length it would have liked.
Printed(o, len) ==
    IF o.cap = 0 \/ o.full THEN o
    ELSE IF len >= o.cap - o.pos THEN [o EXCEPT !.pos = o.cap - 1, !.full = TRUE]
    ELSE [o EXCEPT !.pos = @ + len]

Output(len) ==
    /\ Chosen /\ texts < MaxTexts
    /\ out' \in {Written(out, len), Printed(out, len)}
    /\ texts' = texts + 1 /\ total' = total + len
    /\ UNCHANGED <<cmds, adds, latest, argv, next, best>>

ShellNext ==
    \/ \E name \in Names : Add(name)
    \/ \E line \in Lines, cap \in OutSizes : Run(line, cap)
    \/ \E len \in TextLens : Output(len)
    \/ Look \/ Return

ShellSpec == ShellInit /\ [][ShellNext]_shellVars
-----------------------------------------------------------------------------
\* Commands "are looked up by their leading words, longest name first": a line runs the
\* last handler registered for the longest registered name it begins with, in whatever
\* order and however often the names were registered, and none when there is no such
\* name.
LongestMatchRuns ==
    Chosen =>
        LET candidates == {name \in Names : latest[name] # 0 /\ NameMatches(name, argv)}
        IN  IF candidates = {} THEN best = NoCommand
            ELSE /\ best.name \in candidates
                 /\ \A name \in candidates : Len(name) <= Len(best.name)
                 /\ best.handler = latest[best.name]

\* The output is what the command wrote, cut where the buffer with its NUL ends, and
\* truncated() tells exactly when something is missing - although write() and printf()
\* count differently and later texts may be short enough again.
OutputIsCutOnce ==
    argv # Idle /\ out.cap > 0 =>
        /\ out.pos = (IF total < out.cap THEN total ELSE out.cap - 1)
        /\ out.full <=> total > out.pos
=============================================================================
