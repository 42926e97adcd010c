------------------------------ MODULE GuardedCall ------------------------------
(* What the deterministic checks make of the text of one call, between the      *)
(* agent that writes it and the hook that answers (src/src/plugin.js): the     *)
(* route is assessed before the judge is asked and again when it has answered, *)
(* on the files as they are by then, and the local guard reads an allowed      *)
(* shell command and the paths an allowed call would write.                    *)
(*                                                                             *)
(* The judge is taken to allow every call it is shown: what the other replies  *)
(* do is DecisionPipeline's.                                                   *)
EXTENDS PolicyRouting, ShellCommand, PatchGrammar

CONSTANTS
    Drafts,      \* [tool, params, needs] by name: what the agent begins with, and
                 \* what the tool wants besides
    Fields,      \* by name: [key, value, good] it may add, good when the tool takes it
    ShadowDrafts,\* those that are also looked at in the enforcement shadow
    Reviewed,    \* paths the local guard lets no tool write without a review
    Pieces, MaxPieces, \* appended to a source
    Wrappings, MaxWraps, \* [before, after, takes]: what a command may be put into
    MaxFields,
    SessionKey

VARIABLES
    draft,       \* its name
    params,
    wraps,       \* how often the source has been put into something
    enforcement,
    disk,        \* what is at the path of each shipped file
    stage,       \* "writing", "review", "done"
    first,       \* the route of the first look
    seen,        \* the disk at that look
    outcome

vars == <<draft, params, wraps, enforcement, disk, stage, first, seen, outcome>>

tool == Drafts[draft].tool
FileTools == {"write", "edit", "apply_patch"}
Value(key) == params[key][2]

(* A regular file under its real path, or a link or nothing.                  *)
DiskStates == {"file", "no file"}

Init ==
    /\ draft \in DOMAIN Drafts
    /\ params = Drafts[draft].params
    /\ wraps = 0
    /\ enforcement \in {"enforce"} \cup (IF draft \in ShadowDrafts THEN {"shadow"} ELSE {})
    /\ disk \in [Shipped -> IF tool \in FileTools THEN DiskStates ELSE {"file"}]
    /\ stage = "writing" /\ first = None /\ seen = None /\ outcome = None

-----------------------------------------------------------------------------
Write == stage = "writing" /\ UNCHANGED <<draft, enforcement, disk, stage, first, seen, outcome>>

AddLine ==
    /\ Write /\ tool = "apply_patch" /\ Len(Value("input").lines) < MaxLines
    /\ \E l \in PatchLines : params' = [params EXCEPT !["input"][2].lines = Append(@, l)]
    /\ UNCHANGED wraps

AddPiece ==
    /\ Write /\ tool = "exec" /\ wraps = 0
    /\ Len(Value("command")) < Len(Drafts[draft].params["command"][2]) + MaxPieces
    /\ \E p \in Pieces : params' = [params EXCEPT !["command"][2] = Append(@, p)]
    /\ UNCHANGED wraps

AddField ==
    /\ Write /\ Cardinality(DOMAIN params \ DOMAIN Drafts[draft].params) < MaxFields
    /\ \E f \in Fields[draft] :
          f.key \notin DOMAIN params /\ params' = params @@ (f.key :> f.value)
    /\ UNCHANGED wraps

BeginsWithAssignment(source) ==
    LET commands == ShellTokenize(source)
        words == WithoutRedirections(commands[1].tokens)
    IN  commands \notin {Nothing, << >>} /\ words # << >> /\ IsAssignment(words[1].text)

(* Only env takes an assignment for one: after any other wrapper it is a name. *)
WrapCommand ==
    /\ Write /\ tool = "exec" /\ wraps < MaxWraps /\ wraps' = wraps + 1
    /\ \E w \in Wrappings :
          /\ BeginsWithAssignment(Value("command")) => w.takes = "anything"
          /\ params' = [params EXCEPT !["command"][2] = w.before \o @ \o w.after]

Route == AssessPolicyRoute(tool, params, SessionKey, disk)

FirstLook ==
    /\ stage = "writing"
    /\ first' = Route /\ seen' = disk
    /\ CASE Route = None -> stage' = "done" /\ outcome' = "failure"
         [] Route # None /\ Route.route = "hard_deny" /\ enforcement = "enforce" ->
              stage' = "done" /\ outcome' = "hard_policy_block"
         [] OTHER -> stage' = "review" /\ UNCHANGED outcome
    /\ UNCHANGED <<draft, params, wraps, enforcement, disk>>

(* While the judge is asked.                                                   *)
DiskChanges ==
    /\ stage = "review" /\ tool \in FileTools
    /\ \E f \in Shipped, now \in DiskStates : disk' = [disk EXCEPT ![f] = now]
    /\ UNCHANGED <<draft, params, wraps, enforcement, stage, first, seen, outcome>>

(* The files the local guard takes a call to write: of a patch those that its  *)
(* unindented headers name, and it wants at least one.                        *)
FileTargets ==
    IF tool = "apply_patch"
    THEN {l.file : l \in {m \in Range(Value("input").lines) :
                            ~m.indented /\ (Header(m) \/ m.kind = "move")}}
    ELSE {Value("path")}

LocalGuardObjects ==
    \/ tool = "exec" /\ ShellCommandRisk(Value("command")) # FALSE
    \/ tool \in FileTools /\ (FileTargets = {} \/ FileTargets \cap Reviewed # {})

(* Mutant: the answer is taken on the strength of the first look.             *)
SecondLookTrusting ==
    /\ stage = "review" /\ stage' = "done"
    /\ outcome' = IF LocalGuardObjects THEN "local_guard" ELSE "allow"
    /\ UNCHANGED <<draft, params, wraps, enforcement, disk, first, seen>>

SecondLook ==
    /\ stage = "review" /\ stage' = "done"
    /\ outcome' = IF Route # first THEN "failure"
                  ELSE IF LocalGuardObjects THEN "local_guard" ELSE "allow"
    /\ UNCHANGED <<draft, params, wraps, enforcement, disk, first, seen>>

Next == AddLine \/ AddPiece \/ AddField \/ WrapCommand \/ FirstLook \/ DiskChanges \/ SecondLook

Spec == Init /\ [][Next]_vars

-----------------------------------------------------------------------------
(* A call as its tool takes it: all it needs, and nothing it does not know.    *)
WellFormed ==
    /\ Drafts[draft].needs \subseteq DOMAIN params
    /\ \A k \in DOMAIN params \ DOMAIN Drafts[draft].params :
          [key |-> k, value |-> params[k], good |-> TRUE] \in Fields[draft]

PatchFiles ==
    [lines \in {p.lines : p \in Patches} |->
        UNION {p.files : p \in {q \in Patches : q.lines = lines}}]

(* The files the tool would write, of a patch by the grammar; the paths that   *)
(* are not absolute count as files of their own.                              *)
WrittenFiles ==
    CASE tool = "apply_patch" ->
           IF Value("input").envelope # "torn" /\ Value("input").lines \in DOMAIN PatchFiles
           THEN PatchFiles[Value("input").lines] ELSE {}
      [] tool \in {"write", "edit"} /\ WellFormed -> {Value("path")}
      [] OTHER -> {}

Protects(look) == {AuditPath} \cup {f \in Shipped : look[f] = "file"}

(* The configuration the gateway would have after the change, as far as the   *)
(* judge is concerned; config.set changes one value.                          *)
JudgeAfter ==
    IF Value("action") = "config.set"
    THEN IF Value("path") = "plugins.entries.llm-action-judge.enabled"
         THEN <<params["value"], Str("enforce")>> ELSE <<Yes, params["value"]>>
    ELSE
    LET change == Value("raw")
        part(path, now) ==
            LET new == At(change, JudgeEntry \o path)
            IN  IF new = None /\ Value("action") = "config.patch" THEN now ELSE new
    IN  <<part(<<"enabled">>, Yes), part(<<"config", "enforcement">>, Str("enforce"))>>

(* What would leave the machine.                                              *)
Sent ==
    CASE tool = "message" /\ DOMAIN params \cap {"message", "attachments", "presentation"} # {} -> Obj(params)
      [] tool = "web_fetch" -> TransmittedUrl(params["url"])
      [] tool = "browser" /\ DOMAIN params \cap {"targetUrl", "url"} # {} ->
           TransmittedUrl(params[IF "targetUrl" \in DOMAIN params THEN "targetUrl" ELSE "url"])
      [] tool = "browser" /\ "text" \in DOMAIN params -> params["text"]
      [] tool = "browser" /\ "request" \in DOMAIN params -> params["request"]
      [] OTHER -> None

(* A well-formed call that passes the checks writes no file that a boundary   *)
(* protects by the time it passes, other than by a patch that also names a     *)
(* path that is not absolute, which is left to the judge; it leaves the judge  *)
(* on and enforcing, and sends no proven secret; a call that fails on the      *)
(* second look does so because one of the files it writes has changed since    *)
(* the first; and no patch is blocked but one that writes a protected file.    *)
BoundariesHold ==
    stage = "done" =>
        /\ enforcement = "enforce" /\ outcome = "allow" =>
             /\ WrittenFiles \cap Protects(disk) # {} =>
                  tool = "apply_patch" /\ WrittenFiles \cap Ambiguous # {}
             /\ tool = "gateway" /\ WellFormed => JudgeAfter = <<Yes, Str("enforce")>>
             /\ WellFormed /\ Sent # None => ~HasProvenSecret(Sent)
        /\ outcome = "failure" =>
             \/ ~IsData(Obj(params))
             \/ \E f \in Shipped : seen[f] # disk[f] /\
                   IF tool = "apply_patch"
                   THEN \E l \in Range(Value("input").lines) : l.file = f
                   ELSE Value("path") = f
        /\ outcome = "hard_policy_block" /\ tool = "apply_patch" =>
             WrittenFiles \cap Protects(seen) # {}

(* To put a command into something, behind a prefix or a wrapper or between   *)
(* other commands, never makes the guard take it for harmless, however deep,  *)
(* unless its own words are of the kind by which a wrapper is asked about     *)
(* itself: there the view ends.                                               *)
Queries == {"-v", "-V", "--help", "--version"}

WrappingHidesNothing ==
    [][ wraps' > wraps /\ Range(Value("command")) \cap Queries = {}
          /\ ShellCommandRisk(Value("command")) = TRUE
        => ShellCommandRisk(params'["command"][2]) # FALSE ]_vars
=============================================================================
