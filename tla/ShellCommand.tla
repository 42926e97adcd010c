----------------------------- MODULE ShellCommand -----------------------------
(* How the local guard reads a shell command (src/src/decision.js): the scanner *)
(* that cuts the source into commands and words, what it makes of              *)
(* redirections, the view behind prefixes and wrappers, and the verdict, which *)
(* is yes, no or, for a source it does not read, Nothing.                         *)
(*                                                                             *)
(* A source is a sequence of pieces: the characters the scanner knows, and    *)
(* runs of other characters, each spelled as one piece.  A line break is one.  *)
EXTENDS Naturals, Sequences, FiniteSets, SequencesExt

CONSTANTS
    Nothing,
    MaxLength, MaxTokens, MaxCommands, \* SHELL_SCAN_MAX_*
    MaxWrappers,                       \* 8 in the code
    Numbers,              \* pieces that are digits
    Options,              \* pieces that begin with a dash
    Assignments,          \* pieces that begin as a NAME=value
    DangerousAssignments, \* of a name that changes what programs do
    SecretNames,          \* names of variables that bear secrets
    Protected,            \* paths not to be read or written without being asked
    Untrusted,            \* paths programs should not be run from
    Basename,             \* the program named by a piece that is a path
    Interpreters, InlineInterpreters, ControlWords,
    Asking,               \* programs that ask whatever their arguments, such as rm
    Readers, Writers      \* programs for which the arguments must be readable

-----------------------------------------------------------------------------
(* The scanner: the word being read, the words and the commands finished.     *)
Word(text, dynamic, op) == [text |-> text, dynamic |-> dynamic, fd |-> FALSE, op |-> op]

Fresh == [word |-> << >>, started |-> FALSE, dynamic |-> FALSE, escaped |-> FALSE]

Start == Fresh @@ [quote |-> Nothing, tokens |-> << >>, commands |-> << >>, before |-> Nothing]

FinishToken(s) ==
    IF s.started
    THEN Fresh @@ [s EXCEPT !.tokens = Append(@, Word(s.word, s.dynamic, FALSE))]
    ELSE s

FinishCommand(s, separator) ==
    LET t == FinishToken(s)
    IN  IF t.tokens = << >> THEN [t EXCEPT !.before = separator]
        ELSE [t EXCEPT !.commands = Append(@, [tokens |-> t.tokens, before |-> t.before]),
                       !.tokens = << >>, !.before = separator]

PushOperator(s, text) == [FinishToken(s) EXCEPT !.tokens = Append(@, Word(text, FALSE, TRUE))]

Put(s, c) == [s EXCEPT !.word = Append(@, c), !.started = TRUE]
PutDynamic(s, c) == [Put(s, c) EXCEPT !.dynamic = TRUE]
PutEscaped(s, c) == [Put(s, c) EXCEPT !.escaped = TRUE]
Quote(s, c) == [s EXCEPT !.quote = c, !.started = TRUE, !.escaped = TRUE]

(* Digits before a redirection are the descriptor it redirects.               *)
MarkDescriptor(s) ==
    LET t == FinishToken(s)
    IN  IF s.started /\ ~s.escaped /\ s.word # << >> /\ Range(s.word) \subseteq Numbers
        THEN [t EXCEPT !.tokens[Len(t.tokens)].fd = TRUE] ELSE t

Piece(source, i) == IF i <= Len(source) THEN source[i] ELSE ""

RedirectionAt(source, i) ==
    LET c == source[i]  d == Piece(source, i + 1)
    IN  IF d = "&" \/ <<c, d>> \in {<<"<", ">">>, <<">", "|">>} THEN <<c, d>>
        ELSE IF d # c THEN <<c>>
        ELSE IF Piece(source, i + 2) = c THEN <<c, c, c>> ELSE <<c, c>>

RECURSIVE EndOfLine(_, _)
EndOfLine(source, i) ==
    IF i < Len(source) /\ source[i + 1] # "\n" THEN EndOfLine(source, i + 1) ELSE i

(* One turn of the loop: the state after it, Nothing when the source is not      *)
(* read, and how many pieces it took.                                         *)
InDoubleQuotes(s, c, d) ==
    CASE c = "\"" -> <<[s EXCEPT !.quote = Nothing], 1>>
      [] c = "\\" -> IF d = "" THEN <<Nothing, 1>>
                     ELSE IF d = "\n" THEN <<s, 2>> ELSE <<Put(s, d), 2>>
      [] c = "backquote" \/ (c = "$" /\ d = "(") -> <<Nothing, 1>>
      [] c = "$" -> <<PutDynamic(s, c), 1>>
      [] OTHER -> <<Put(s, c), 1>>

Unquoted(s, source, i, c, d) ==
    CASE c \in {"'", "\""} -> <<Quote(s, c), 1>>
      [] c = "\\" -> IF d = "" THEN <<Nothing, 1>>
                     ELSE IF d = "\n" THEN <<s, 2>> ELSE <<PutEscaped(s, d), 2>>
      [] c = "#" /\ ~s.started -> <<FinishCommand(s, ";"), EndOfLine(source, i) + 1 - i>>
      [] c \in {"backquote", "(", ")"} \/ (c = "$" /\ d = "(") -> <<Nothing, 1>>
      [] c \in {"$", "*", "?", "[", "]", "{", "}"} /\ ~(c = "$" /\ d = "(") ->
           <<PutDynamic(s, c), 1>>
      [] c = "|" /\ d = "&" -> <<FinishCommand(s, "|&"), 2>>
      [] c = "&" /\ d = ">" ->
           IF Piece(source, i + 2) = ">" THEN <<PushOperator(s, <<"&", ">", ">">>), 3>>
                                         ELSE <<PushOperator(s, <<"&", ">">>), 2>>
      [] c \in {"<", ">"} ->
           LET op == RedirectionAt(source, i)
           IN  <<PushOperator(MarkDescriptor(s), op), Len(op)>>
      [] c \in {"&", "|"} /\ <<c, d>> \notin {<<"|", "&">>, <<"&", ">">>} ->
           IF d = c THEN <<FinishCommand(s, IF c = "&" THEN "&&" ELSE "||"), 2>> ELSE <<FinishCommand(s, c), 1>>
      [] c \in {";", "\n"} -> <<FinishCommand(s, ";"), 1>>
      [] c = " " -> <<FinishToken(s), 1>>
      [] OTHER -> <<Put(s, c), 1>>

Turn(s, source, i) ==
    LET c == source[i]  d == Piece(source, i + 1)
    IN  CASE s.quote = "'" /\ c = "'" -> <<[s EXCEPT !.quote = Nothing], 1>>
          [] s.quote = "'" /\ c # "'" -> <<Put(s, c), 1>>
          [] s.quote = "\"" -> InDoubleQuotes(s, c, d)
          [] s.quote = Nothing -> Unquoted(s, source, i, c, d)

RECURSIVE ScanFrom(_, _, _)
ScanFrom(s, source, i) ==
    IF s = Nothing THEN Nothing
    ELSE IF i <= Len(source)
         THEN LET turn == Turn(s, source, i) IN ScanFrom(turn[1], source, i + turn[2])
         ELSE IF s.quote # Nothing THEN Nothing ELSE FinishCommand(s, Nothing).commands

CountTokens(commands) == FoldLeft(LAMBDA n, c : n + Len(c.tokens), 0, commands)

ShellTokenize(source) ==
    LET commands == ScanFrom(Start, source, 1)
    IN  IF \/ Range(source) \subseteq {" ", "\n"} \/ Len(source) > MaxLength
           \/ commands = Nothing
           \/ Len(commands) > MaxCommands \/ CountTokens(commands) > MaxTokens
        THEN Nothing ELSE commands

-----------------------------------------------------------------------------
Redirections ==
    {<<"<">>, <<">">>, <<">", ">">>, <<"<", "<">>, <<"<", "<", "<">>, <<"<", ">">>,
     <<"<", "&">>, <<">", "&">>, <<"&", ">">>, <<"&", ">", ">">>, <<">", "|">>}

IsRedirection(token) == token.op /\ token.text \in Redirections

(* The text of a word, by its spelling when it is one piece.                   *)
Spelled(text) == IF Len(text) = 1 THEN text[1] ELSE "another"
First(text) == IF text = << >> THEN "" ELSE text[1]

RedirectTargetRisk(token, operator) ==
    LET target == token.text
    IN  CASE target = << >> \/ First(target) = "&" -> TRUE
          [] operator # <<"<">> /\ target = <<"/dev/null">> -> FALSE
          [] OTHER -> \E c \in Range(target) : c \in Protected

RECURSIVE RedirectionRiskFrom(_, _)
RedirectionRiskFrom(tokens, i) ==
    IF i > Len(tokens) THEN FALSE
    ELSE IF ~IsRedirection(tokens[i]) THEN RedirectionRiskFrom(tokens, i + 1)
    ELSE LET op == tokens[i].text
         IN  \/ op \in {<<"<", "<">>, <<"<", "<", "<">>}
             \/ i = Len(tokens)
             \/ tokens[i + 1].dynamic
             \/ IF op \in {<<">", "&">>, <<"<", "&">>}
                THEN ~(tokens[i + 1].text = <<"-">>
                         \/ (tokens[i + 1].text # << >> /\ Range(tokens[i + 1].text) \subseteq Numbers))
                ELSE RedirectTargetRisk(tokens[i + 1], op)
             \/ RedirectionRiskFrom(tokens, i + 2)

RECURSIVE WithoutRedirections(_)
WithoutRedirections(tokens) ==
    CASE tokens = << >> -> << >>
      [] Len(tokens) > 1 /\ tokens[1].fd /\ IsRedirection(tokens[2]) ->
           WithoutRedirections(SubSeq(tokens, 4, Len(tokens)))
      [] IsRedirection(tokens[1]) -> WithoutRedirections(SubSeq(tokens, 3, Len(tokens)))
      [] OTHER -> <<tokens[1]>> \o WithoutRedirections(Tail(tokens))

-----------------------------------------------------------------------------
(* Words are looked at from here on as texts, by position.                     *)
TextAt(words, i) == IF i <= Len(words) THEN words[i].text ELSE << >>
NameAt(words, i) ==
    LET spelled == Spelled(words[i].text)
    IN  IF spelled \in DOMAIN Basename THEN Basename[spelled] ELSE spelled
Args(words, i) == [j \in 1..(Len(words) - i) |-> Spelled(words[i + j].text)]

IsAssignment(text) == First(text) \in Assignments
IsOption(text) == First(text) \in Options

RECURSIVE SkipShellPrefixes(_, _)
SkipShellPrefixes(words, i) ==
    LET text == TextAt(words, i)
    IN  CASE i > Len(words) -> i
          [] i <= Len(words) /\ IsAssignment(text) -> SkipShellPrefixes(words, i + 1)
          [] i <= Len(words) /\ Spelled(text) \in Numbers /\ TextAt(words, i + 1) \in Redirections ->
               SkipShellPrefixes(words, i + 3)
          [] i <= Len(words) /\ text \in Redirections -> SkipShellPrefixes(words, i + 2)
          [] OTHER -> i

RECURSIVE SkipWrapperOptions(_, _, _)
SkipWrapperOptions(words, i, withValues) ==
    IF i > Len(words) \/ ~IsOption(words[i].text) THEN i
    ELSE SkipWrapperOptions(words,
           IF Spelled(words[i].text) \in withValues /\ i < Len(words) THEN i + 2 ELSE i + 1,
           withValues)

(* Wrappers that are looked through, with their options that take a value.    *)
OptionsWithValues ==
    [command |-> {}, builtin |-> {}, nohup |-> {}, exec |-> {"-a"},
     time |-> {"-f", "-o", "--format", "--output"},
     timeout |-> {"-k", "-s", "--kill-after", "--signal"},
     nice |-> {"-n", "--adjustment"},
     ionice |-> {"-c", "-n", "-p", "-P", "-u", "--class", "--classdata", "--pid", "--pgid", "--uid"},
     stdbuf |-> {"-e", "-i", "-o", "--error", "--input", "--output"}]
ShellWrappers == DOMAIN OptionsWithValues \cup {"env", "sudo", "busybox", "toybox"}

HelpOrVersion == {"--help", "--version"}
HasHelpOrVersion(args) ==
    \E i \in DOMAIN args : args[i] \in HelpOrVersion /\ \A j \in 1..i : args[j] # "--"

View(words, i, ambiguous) ==
    [name |-> IF i <= Len(words) THEN NameAt(words, i) ELSE "another",
     args |-> Args(words, i), ambiguous |-> ambiguous, at |-> i]

(* The options of env, of which some take a value, some stop the reading.     *)
RECURSIVE SkipEnv(_, _)
SkipEnv(words, i) ==
    LET option == Spelled(TextAt(words, i))
    IN  CASE i > Len(words) -> i
          [] i <= Len(words) /\ IsAssignment(words[i].text) -> SkipEnv(words, i + 1)
          [] option \in {"-a", "-u", "--argv0", "--unset"} -> SkipEnv(words, i + 2)
          [] option = "--" -> i + 1
          [] option \in {"-0", "-i", "--debug", "--ignore-environment", "--null",
                         "--argv0=", "--unset="} ->
               SkipEnv(words, i + 1)
          [] OTHER -> i

(* Where what is wrapped by the wrapper at i begins; Nothing when the wrapper is  *)
(* only asked something, 0 when nobody can tell.                              *)
Asked == Nothing
Unclear == 0

Unwrapped(words, i) ==
    LET name == NameAt(words, i)
        args == Args(words, i)
        said == Range(args)
        next == SkipWrapperOptions(words, i + 1, OptionsWithValues[name])
        afterDuration == IF TextAt(words, next + 1) = <<"--">> THEN next + 2 ELSE next + 1
        afterEnv == SkipEnv(words, i + 1)
    IN  CASE name = "sudo" -> IF Len(args) = 1 /\ HasHelpOrVersion(args) THEN Asked ELSE Unclear
          [] name = "command" -> IF said \cap {"-v", "-V"} # {} THEN Asked ELSE next
          [] name \in {"builtin", "nohup"} -> next
          [] name = "time" /\ said \cap {"-o", "--output", "--output="} # {} -> Unclear
          [] name = "timeout" ->
               IF next > Len(words) \/ afterDuration > Len(words) THEN Unclear ELSE afterDuration
          [] name = "env" ->
               IF said \cap HelpOrVersion # {} THEN Asked
               ELSE IF \/ said \cap {"-S", "--split-string", "--split-string=",
                                  "-C", "-P", "--chdir", "--chdir="} # {}
                       \/ afterEnv > Len(words)
                       \/ IsOption(words[afterEnv].text) /\ TextAt(words, afterEnv - 1) # <<"--">>
                    THEN Unclear ELSE afterEnv
          [] name \in {"busybox", "toybox"} ->
               IF args # << >> /\ IsOption(words[i + 1].text)
               THEN IF /\ ~(name = "busybox" /\ "--install" \in said)
                       /\ HasHelpOrVersion(args) \/ args[1] \in {"--list", "--list-full", "--show"}
                    THEN Asked ELSE Unclear
               ELSE IF args = << >> \/ (name = "busybox" /\ "--install" \in said)
                    THEN Unclear ELSE i + 1
          [] OTHER -> IF next > Len(words) THEN Unclear ELSE next

(* Mutant: what is left after so many wrappers is taken for the command.      *)
NeverWrapped(words, i) == FALSE

StillWrapped(words, i) == NameAt(words, i) \in ShellWrappers

RECURSIVE ViewFrom(_, _, _)
ViewFrom(words, start, wrappers) ==
    LET i == SkipShellPrefixes(words, start)
        next == Unwrapped(words, i)
    IN  IF wrappers = MaxWrappers
        THEN IF start > Len(words) THEN Nothing
             ELSE View(words, start, StillWrapped(words, start))
        ELSE CASE i > Len(words) -> Nothing
               [] i <= Len(words) /\ NameAt(words, i) \in {"xargs", "parallel", "watch"} ->
                    View(words, i, TRUE)
               [] i <= Len(words) /\ NameAt(words, i) \in ShellWrappers ->
                    CASE next = Asked -> View(words, i, FALSE)
                      [] next = Unclear -> View(words, i, TRUE)
                      [] OTHER -> ViewFrom(words, next, wrappers + 1)
               [] OTHER -> View(words, i, FALSE)

ShellCommandView(words) == ViewFrom(words, 1, 0)

-----------------------------------------------------------------------------
SecretEnvironmentReference(text) ==
    \E i \in 1..(Len(text) - 1) : text[i] = "$" /\ text[i + 1] \in SecretNames

(* What the program does with its arguments, the tables of it left out: some   *)
(* always ask, some only when the arguments cannot be read or name a path     *)
(* that is protected.                                                         *)
InterpreterRisk(name, args) ==
    name \in Interpreters \cup InlineInterpreters /\ ~(Len(args) = 1 /\ HasHelpOrVersion(args))

AskingRisk(name, args) == name \in Asking \cup {"env"} /\ ~HasHelpOrVersion(args)

PathRisk(args, hasDynamicArgs) == hasDynamicArgs \/ Range(args) \cap Protected # {}
ReaderRisk(name, args, hasDynamicArgs) == name \in Readers /\ PathRisk(args, hasDynamicArgs)
WriterRisk(name, args, hasDynamicArgs) == name \in Writers /\ PathRisk(args, hasDynamicArgs)

CommandRisk(name, args, hasDynamicArgs) ==
    \/ InterpreterRisk(name, args) \/ AskingRisk(name, args)
    \/ ReaderRisk(name, args, hasDynamicArgs) \/ WriterRisk(name, args, hasDynamicArgs)

ShellSegmentRisk(segment) ==
    LET words == WithoutRedirections(segment.tokens)
        view == ShellCommandView(words)
        interpreter == view.name \in Interpreters \cup InlineInterpreters \cup {"eval"}
        input == \E i \in DOMAIN segment.tokens :
                    segment.tokens[i].op
                      /\ segment.tokens[i].text \in {<<"<">>, <<"<", "&">>, <<"<", ">">>}
    IN  \/ RedirectionRiskFrom(segment.tokens, 1)
        \/ /\ view # Nothing
           /\ \/ view.ambiguous
              \/ words[view.at].dynamic
              \/ Range(words[view.at].text) \cap Untrusted # {}
              \/ \E w \in Range(words) : First(w.text) \in DangerousAssignments
              \/ \E w \in Range(words) : w.dynamic /\ SecretEnvironmentReference(w.text)
              \/ view.name \in ControlWords \cup {"eval"}
              \/ interpreter /\ (input \/ segment.before \in {"|", "||", "|&"})
              \/ CommandRisk(view.name, view.args, \E j \in DOMAIN words : j > view.at /\ words[j].dynamic)

ShellCommandRisk(source) ==
    LET commands == ShellTokenize(source)
    IN  IF commands = Nothing THEN Nothing ELSE \E s \in Range(commands) : ShellSegmentRisk(s)
=============================================================================
