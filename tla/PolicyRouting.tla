---------------------------- MODULE PolicyRouting ----------------------------
(* The routing of a call before the judge sees it (src/src/policy-routing.js):  *)
(* three boundaries that are denied outright, two families of calls that are   *)
(* known to be harmless, and everything else, which goes to the judge.         *)
(*                                                                             *)
(* The value of a parameter is a pair of its JSON type and what it holds; the  *)
(* text of a patch is its lines, that of a configuration what it parses to.    *)
EXTENDS Integers, Sequences, FiniteSets, TLC

CONSTANTS
    None,
    Secrets,      \* texts in which the redactor proves a secret
    Opaque,       \* texts it has to cut or cannot read
    Urls,         \* texts that are http or https URLs with a host
    Fragmentless, \* what is sent of each of them, the part before its '#'
    Shipped,      \* the shipped runtime files of the plugin
    Ambiguous,    \* paths that are not absolute or not in canonical form
    AuditPath,
    MaxItems,     \* 256 in the code, elements of an array that is looked at
    MaxWaitMs     \* BROWSER_MAX_WAIT_MS

Yes == <<"boolean", TRUE>>
No == <<"boolean", FALSE>>
Str(s) == <<"string", s>>
Obj(fields) == <<"object", fields>>

Text(v) == v[1] \in {"string", "json", "patch", "source"}
Filled(v) == Text(v) /\ v \notin {Str(""), Str(" ")}
Integer(v, least) == v[1] = "integer" /\ v[2] >= least

-----------------------------------------------------------------------------
(* What the fields of a parameter object have to be, each named by its kind.  *)
Literals ==
    [send |-> {"send"}, act |-> {"act"}, type |-> {"type"}, wait |-> {"wait"},
     command |-> {"command"}, callback |-> {"callback"},
     navigate |-> {"navigate"}, open |-> {"open"}, sandbox |-> {"sandbox"},
     mutation |-> {"config.patch", "config.apply"}, fetchMode |-> {"markdown", "text"},
     browserTarget |-> {"sandbox", "host", "node"},
     attachmentType |-> {"image", "audio", "video", "file"},
     tone |-> {"info", "success", "warning", "danger", "neutral"},
     blockType |-> {"text", "context", "divider", "buttons", "select"},
     style |-> {"primary", "secondary", "success", "danger"}]

Lists ==
    [texts |-> [of |-> "string", least |-> 0], someTexts |-> [of |-> "string", least |-> 1],
     attachments |-> [of |-> "attachment", least |-> 1], edits |-> [of |-> "edit", least |-> 1],
     blocks |-> [of |-> "block", least |-> 1], buttons |-> [of |-> "button", least |-> 0],
     options |-> [of |-> "option", least |-> 0]]

Kinds(keys, kind) == [k \in keys |-> kind]

Objects ==
    [edit |-> [oldText |-> "nonempty", newText |-> "string"],
     commandAction |-> [type |-> "command", command |-> "string"],
     callbackAction |-> [type |-> "callback", value |-> "string"],
     link |-> [url |-> "string"],
     option |-> [label |-> "string", action |-> "presentationAction", value |-> "string"],
     button |-> Kinds({"label", "value", "url"}, "string")
                  @@ Kinds({"disabled", "reusable"}, "boolean") @@ Kinds({"webApp", "web_app"}, "link")
                  @@ [action |-> "presentationAction", style |-> "style"],
     block |-> [type |-> "blockType", text |-> "string", placeholder |-> "string",
                buttons |-> "buttons", options |-> "options"],
     presentation |-> [title |-> "string", tone |-> "tone", blocks |-> "blocks"],
     attachment |-> [type |-> "attachmentType", media |-> "filled", name |-> "string",
                     mimeType |-> "string"],
     pin |-> Kinds({"enabled", "notify", "required"}, "boolean"),
     delivery |-> [pin |-> "pinned"]]

Required ==
    [edit |-> {"oldText", "newText"}, commandAction |-> {"type", "command"},
     callbackAction |-> {"type", "value"}, link |-> {"url"}, option |-> {"label"},
     button |-> {"label"}, block |-> {"type"}, presentation |-> {"blocks"},
     attachment |-> {"media"}, pin |-> {"enabled"}, delivery |-> {}]

RECURSIVE HasKind(_, _)

Fits(params, kinds, required) ==
    /\ required \subseteq DOMAIN params
    /\ \A k \in DOMAIN params : k \in DOMAIN kinds /\ HasKind(params[k], kinds[k])

HasKind(v, kind) ==
    CASE kind = "any" -> TRUE
      [] kind = "string" -> Text(v)
      [] kind = "nonempty" -> Text(v) /\ v # Str("")
      [] kind = "filled" -> Filled(v)
      [] kind = "boolean" -> v[1] = "boolean"
      [] kind = "false" -> v = No
      [] kind = "natural" -> Integer(v, 0)
      [] kind = "positive" -> Integer(v, 1)
      [] kind = "maxChars" -> Integer(v, 100)
      [] kind = "pinned" -> v[1] = "boolean" \/ HasKind(v, "pin")
      [] kind = "presentationAction" -> HasKind(v, "commandAction") \/ HasKind(v, "callbackAction")
      [] kind \in DOMAIN Literals -> v[1] = "string" /\ v[2] \in Literals[kind]
      [] kind \in DOMAIN Lists ->
           /\ v[1] = "array" /\ Lists[kind].least <= Len(v[2])
           /\ kind = "edits" \/ Len(v[2]) <= MaxItems
           /\ \A i \in DOMAIN v[2] : HasKind(v[2][i], Lists[kind].of)
      [] kind \in DOMAIN Objects ->
           v[1] = "object" /\ Fits(v[2], Objects[kind], Required[kind])

MessageStringFields ==
    {"channel", "target", "accountId", "message", "effectId", "effect", "media", "filename",
     "buffer", "contentType", "mimeType", "caption", "replyTo", "threadId", "quoteText"}
MessageBooleanFields ==
    {"asVoice", "silent", "gifPlayback", "forceDocument", "asDocument", "bestEffort"}

MessageSend ==
    Kinds(MessageStringFields, "string") @@ Kinds(MessageBooleanFields, "boolean")
      @@ [action |-> "send", targets |-> "someTexts", dryRun |-> "false",
          attachments |-> "attachments", presentation |-> "presentation",
          delivery |-> "delivery"]

WebFetch == [url |-> "string", extractMode |-> "fetchMode", maxChars |-> "maxChars"]

BrowserPlace == [target |-> "browserTarget", node |-> "filled", profile |-> "filled"]

BrowserNavigate ==
    BrowserPlace @@ [action |-> "navigate", targetUrl |-> "any", url |-> "any",
                     targetId |-> "filled", timeoutMs |-> "positive"]
BrowserOpen ==
    BrowserPlace @@ [action |-> "open", targetUrl |-> "any", url |-> "any",
                     label |-> "filled", timeoutMs |-> "positive"]

TypeRequest ==
    Kinds({"targetId", "ref", "selector"}, "filled") @@ Kinds({"submit", "slowly"}, "boolean")
      @@ [kind |-> "type", text |-> "string", delayMs |-> "natural", timeoutMs |-> "positive"]
BrowserTypeFlat == BrowserPlace @@ TypeRequest @@ [action |-> "act"]
BrowserTypeNested ==
    BrowserPlace @@ [action |-> "act", targetId |-> "filled", timeoutMs |-> "positive",
                     request |-> "any"]

GatewayMutation ==
    Kinds({"raw", "reason", "continuationMessage", "baseHash", "sessionKey", "note",
           "gatewayUrl", "gatewayToken"}, "string")
      @@ [action |-> "mutation", delayMs |-> "natural", restartDelayMs |-> "natural",
          timeoutMs |-> "positive", replacePaths |-> "texts"]

-----------------------------------------------------------------------------
(* What the redactor tells of a value: everything written in it counts.       *)
RECURSIVE Leaves(_)
Leaves(v) ==
    CASE v[1] = "object" -> UNION {Leaves(v[2][k]) : k \in DOMAIN v[2]}
      [] v[1] = "array" -> UNION {Leaves(v[2][i]) : i \in DOMAIN v[2]}
      [] OTHER -> {v}

HasProvenSecret(v) == \E leaf \in Leaves(v) : leaf[1] = "string" /\ leaf[2] \in Secrets
IsOpaque(v) == \E leaf \in Leaves(v) : leaf[1] = "string" /\ leaf[2] \in Opaque

(* Functions, accessors, proxies and cycles are no data: the assessment of a   *)
(* call that holds one throws.                                                *)
IsData(v) == \A leaf \in Leaves(v) : leaf[1] # "other"

-----------------------------------------------------------------------------
(* Lines of a patch: [kind, file, indented].                                   *)
Header(line) == line.kind \in {"add", "delete", "update"}
Plus(line) == line.kind = "plus" /\ ~line.indented
Is(line, kind) == line.kind = kind /\ ~line.indented
Stars(line) == ~line.indented /\ line.kind \in {"add", "delete", "update", "move", "eof", "stars"}
Content(line) == line.indented \/ line.kind \in {"plus", "context", "blank"}

Belongs(line, run) ==
    CASE run = "plus" -> Plus(line)
      [] run = "blank" -> line.kind = "blank"
      [] run = "content" -> Content(line)

RECURSIVE EndOfRun(_, _, _)
EndOfRun(lines, i, run) ==
    IF i <= Len(lines) /\ Belongs(lines[i], run) THEN EndOfRun(lines, i + 1, run) ELSE i

(* Where the chunk that starts here ends, 0 when there is none.               *)
ParseUpdateChunk(lines, start, allowMissingContext) ==
    LET from == IF Is(lines[start], "head") THEN start + 1 ELSE start
        to == EndOfRun(lines, from, "content")
    IN  IF to = from \/ (from = start /\ ~allowMissingContext) THEN 0
        ELSE IF to <= Len(lines) /\ Is(lines[to], "eof") THEN to + 1 ELSE to

RECURSIVE ParseChunks(_, _, _)
ParseChunks(lines, i, chunks) ==
    LET start == EndOfRun(lines, i, "blank")
        end == ParseUpdateChunk(lines, start, chunks = 0)
    IN  IF start > Len(lines) \/ Stars(lines[start])
        THEN IF chunks = 0 THEN 0 ELSE start
        ELSE IF end = 0 THEN 0 ELSE ParseChunks(lines, end, chunks + 1)

(* The end of the section whose header is at i, and the files it names.       *)
Moves(lines, i) ==
    lines[i].kind = "update" /\ i < Len(lines) /\ lines[i + 1].kind = "move"

(* Mutant: the file an update moves to is not among its targets.              *)
TargetsWithoutMove(lines, i) == {lines[i].file}

SectionTargets(lines, i) ==
    {lines[i].file} \cup IF Moves(lines, i) THEN {lines[i + 1].file} ELSE {}

ParseSection(lines, i) ==
    LET line == lines[i]
    IN  [targets |-> SectionTargets(lines, i),
         end |-> CASE line.kind = "add" -> EndOfRun(lines, i + 1, "plus")
                   [] line.kind = "delete" -> i + 1
                   [] OTHER -> ParseChunks(lines, IF Moves(lines, i) THEN i + 2 ELSE i + 1, 0)]

RECURSIVE ParseSections(_, _)
ParseSections(lines, i) ==
    IF i > Len(lines) THEN {}
    ELSE IF ~Header(lines[i]) THEN None
    ELSE LET section == ParseSection(lines, i)
             rest == IF section.end = 0 THEN None ELSE ParseSections(lines, section.end)
         IN  IF rest = None \/ section.targets \cap Ambiguous # {} THEN None
             ELSE section.targets \cup rest

(* None for a patch that is not read to its end in this one way.              *)
PatchMutationTargets(params) ==
    IF DOMAIN params # {"input"} \/ params["input"][1] # "patch" THEN None
    ELSE LET input == params["input"][2]
             targets == ParseSections(input.lines, 1)
         IN  IF input.envelope \notin {"bare", "heredoc"} \/ targets = {} THEN None ELSE targets

CanonicalAbsolute(v) == v[1] = "string" /\ v[2] \notin Ambiguous

NormalizedMutationTargets(tool, params) ==
    LET one(fields) ==
            IF /\ DOMAIN params = DOMAIN fields
               /\ \A k \in DOMAIN fields : HasKind(params[k], fields[k])
               /\ CanonicalAbsolute(params["path"])
            THEN {params["path"][2]} ELSE None
    IN  CASE tool = "write" -> one([path |-> "string", content |-> "string"])
          [] tool = "edit" -> one([path |-> "string", edits |-> "edits"])
          [] tool = "apply_patch" -> PatchMutationTargets(params)
          [] OTHER -> None

(* disk tells of each shipped path whether a regular file is there.           *)
ExistingShippedRuntimeTarget(disk, target) == target \in Shipped /\ disk[target] = "file"

SelfModification(tool, params, disk) ==
    LET targets == NormalizedMutationTargets(tool, params)
    IN  /\ targets # None
        /\ \E t \in targets : t = AuditPath \/ ExistingShippedRuntimeTarget(disk, t)

-----------------------------------------------------------------------------
(* The texts that would leave the machine: None for what is no network URL.   *)
TransmittedUrl(v) ==
    IF v[1] = "string" /\ v[2] \in Urls THEN Str(Fragmentless[v[2]]) ELSE None

SecretUrl(v) == TransmittedUrl(v) # None /\ HasProvenSecret(TransmittedUrl(v))

ExactMessageSink(params) ==
    /\ Fits(params, MessageSend, {"action"})
    /\ \/ DOMAIN params \cap {"attachments", "presentation"} # {}
       \/ \E k \in DOMAIN params \cap {"message", "media", "buffer"} : Filled(params[k])
    /\ HasProvenSecret(Obj(params))

ExactWebFetchSink(params) == Fits(params, WebFetch, {"url"}) /\ SecretUrl(params["url"])

(* A node is only named for the target node, or for none.                     *)
BrowserTargetIsExternal(params) ==
    {"node", "target"} \subseteq DOMAIN params => params["target"] = Str("node")

ExactBrowserNavigationSink(params) ==
    /\ Fits(params, BrowserOpen, {"action"}) \/ Fits(params, BrowserNavigate, {"action"})
    /\ BrowserTargetIsExternal(params)
    /\ IF "targetUrl" \in DOMAIN params THEN SecretUrl(params["targetUrl"])
       ELSE "url" \in DOMAIN params /\ SecretUrl(params["url"])

ExactTypedBrowserRequest(request) ==
    DOMAIN request \cap {"ref", "selector"} # {} /\ HasProvenSecret(request["text"])

ExactBrowserTypeSink(params) ==
    /\ BrowserTargetIsExternal(params)
    /\ IF "request" \in DOMAIN params
       THEN /\ Fits(params, BrowserTypeNested, {"action", "request"})
            /\ params["request"][1] = "object"
            /\ Fits(params["request"][2], TypeRequest, {"kind", "text"})
            /\ ExactTypedBrowserRequest(params["request"][2])
       ELSE Fits(params, BrowserTypeFlat, {"action", "kind", "text"})
            /\ ExactTypedBrowserRequest(params)

SecretExternalSink(tool, params) ==
    CASE tool = "message" -> ExactMessageSink(params)
      [] tool = "web_fetch" -> ExactWebFetchSink(params)
      [] tool = "browser" -> ExactBrowserNavigationSink(params) \/ ExactBrowserTypeSink(params)
      [] OTHER -> FALSE

-----------------------------------------------------------------------------
RECURSIVE At(_, _)
At(v, path) ==
    IF path = << >> THEN v
    ELSE IF v # None /\ v[1] = "object" /\ Head(path) \in DOMAIN v[2]
         THEN At(v[2][Head(path)], Tail(path)) ELSE None

JudgeEntry == <<"plugins", "entries", "llm-action-judge">>

ContainsJudgeDisable(config, fullApply) ==
    LET enabled == At(config, Append(JudgeEntry, "enabled"))
        enforcement == At(config, JudgeEntry \o <<"config", "enforcement">>)
    IN  IF At(config, JudgeEntry) = None THEN fullApply
        ELSE \/ enabled = No \/ enforcement = Str("shadow")
             \/ fullApply /\ (enabled # Yes \/ enforcement # Str("enforce"))

ValidGatewayMutationEnvelope(params) ==
    /\ Fits(params, GatewayMutation, {"action", "raw"})
    /\ "replacePaths" \in DOMAIN params => params["action"] = Str("config.patch")

CurrentGatewayBoundaryBypass(params) ==
    /\ ValidGatewayMutationEnvelope(params)
    /\ params["raw"][1] = "json"
    /\ ContainsJudgeDisable(params["raw"][2], params["action"] = Str("config.apply"))

LegacyGatewayBoundaryBypass(params) ==
    /\ DOMAIN params = {"action", "path", "value"}
    /\ params["action"] = Str("config.set")
    /\ <<params["path"], params["value"]>> \in
         {<<Str("plugins.entries.llm-action-judge.enabled"), No>>,
          <<Str("plugins.entries.llm-action-judge.config.enforcement"), Str("shadow")>>}

SecurityBoundaryBypass(tool, params) ==
    /\ tool = "gateway"
    /\ LegacyGatewayBoundaryBypass(params) \/ CurrentGatewayBoundaryBypass(params)

-----------------------------------------------------------------------------
ExactSessionStatus(tool, params, sessionKey) ==
    /\ tool = "session_status"
    /\ \/ DOMAIN params = {}
       \/ /\ DOMAIN params = {"sessionKey"}
          /\ params["sessionKey"] \in {Str("current"), Str(sessionKey)}

ExactBrowserWait(tool, params) ==
    LET short(wait) == Integer(wait["timeMs"], 0) /\ wait["timeMs"][2] <= MaxWaitMs
        outer == [action |-> "act", target |-> "sandbox", profile |-> "filled"]
        inner == [kind |-> "wait", timeMs |-> "natural"]
    IN  /\ tool = "browser"
        /\ \/ /\ Fits(params, outer @@ inner, {"action", "kind", "target", "timeMs"})
              /\ short(params)
           \/ /\ Fits(params, outer @@ [request |-> "any"], {"action", "target", "request"})
              /\ params["request"][1] = "object"
              /\ Fits(params["request"][2], inner, DOMAIN inner)
              /\ short(params["request"][2])

ClassifySafePathShape(tool, params, sessionKey) ==
    CASE ExactSessionStatus(tool, params, sessionKey) -> "session_status_current"
      [] ExactBrowserWait(tool, params) -> "browser_wait"
      [] OTHER -> None

HardRoute(boundary) == [route |-> "hard_deny", boundary |-> boundary, safeFamily |-> None]
JudgeRoute(family) == [route |-> "judge", boundary |-> None, safeFamily |-> family]

(* None stands for the exception.                                             *)
AssessPolicyRoute(tool, params, sessionKey, disk) ==
    LET value == Obj(params)
    IN  CASE ~IsData(value) -> None
          [] SelfModification(tool, params, disk) -> HardRoute("self_modification")
          [] SecretExternalSink(tool, params) -> HardRoute("secret_external_sink")
          [] SecurityBoundaryBypass(tool, params) -> HardRoute("security_boundary_bypass")
          [] HasProvenSecret(value) \/ IsOpaque(value) -> JudgeRoute(None)
          [] OTHER -> JudgeRoute(ClassifySafePathShape(tool, params, sessionKey))
=============================================================================
