---------------------------- MODULE MCGuardedCall ----------------------------
(* Calls of each tool the boundaries know, begun small and extended.          *)
EXTENDS GuardedCall

Own == "src/plugin.js"
MCShipped == {Own}

MCFragmentless ==
    [u \in {"https://a", "https://a?token", "https://a#token"} |->
        IF u = "https://a#token" THEN "https://a" ELSE u]
MCUrls == DOMAIN MCFragmentless
MCSecrets == {"token", "https://a?token", "https://a#token"}

Num(n) == <<"integer", n>>
Arr(s) == <<"array", s>>
NoFields == [k \in {} |-> Yes]
Line(kind, file, indented) == [kind |-> kind, file |-> file, indented |-> indented]

MCPatchLines ==
    {Line(k, f, FALSE) : k \in {"add", "update"}, f \in {Own, "notes"}}
      \cup {Line("update", "relative.js", FALSE), Line("delete", "trail", FALSE),
            Line("move", Own, FALSE), Line("move", "manifest", FALSE)}
      \cup {Line(k, Own, TRUE) : k \in {"update", "move"}}
      \cup {Line(k, None, FALSE) : k \in {"head", "plus", "blank", "eof", "stars"}}

Patch(envelope, lines) == [input |-> <<"patch", [envelope |-> envelope, lines |-> lines]>>]
Update == <<Line("update", Own, FALSE), Line("plus", None, FALSE)>>
Exec(source) == [command |-> <<"source", source>>]
Entry(fields) ==
    Obj([plugins |-> Obj([entries |-> Obj([k \in {"llm-action-judge"} |-> Obj(fields)])])])
Enforcing(how) == Obj([enforcement |-> Str(how)])

Setting(what) ==
    [action |-> Str("config.set"), path |-> Str("plugins.entries.llm-action-judge." \o what)]

Draft(t, p) == [tool |-> t, params |-> p, needs |-> {}]
Unfinished(t, p, needs) == [tool |-> t, params |-> p, needs |-> needs]
MCDrafts ==
    [patch |-> Draft("apply_patch", Patch("bare", << >>)),
     heredoc |-> Draft("apply_patch", Patch("heredoc", Update)),
     torn |-> Draft("apply_patch", Patch("torn", Update)),
     write |-> Unfinished("write", [path |-> Str(Own)], {"content"}),
     edit |-> Unfinished("edit", [path |-> Str(Own)], {"edits"}),
     audit |-> Unfinished("write", [path |-> Str("trail")], {"content"}),
     message |-> Draft("message", [action |-> Str("send")]),
     fetch |-> Draft("web_fetch", [url |-> Str("https://a?token")]),
     fetchPart |-> Draft("web_fetch", [url |-> Str("https://a#token")]),
     open |-> Draft("browser", [action |-> Str("open")]),
     navigate |-> Draft("browser", [action |-> Str("navigate")]),
     typeFlat |-> Draft("browser", [action |-> Str("act"), kind |-> Str("type"), ref |-> Str("e1")]),
     typeNested |-> Draft("browser", [action |-> Str("act")]),
     waiting |-> Draft("browser", [action |-> Str("act"), target |-> Str("sandbox")]),
     status |-> Draft("session_status", NoFields),
     patchConfig |-> Unfinished("gateway", [action |-> Str("config.patch")], {"raw"}),
     applyConfig |-> Unfinished("gateway", [action |-> Str("config.apply")], {"raw"}),
     setEnabled |-> Unfinished("gateway", Setting("enabled"), {"value"}),
     setEnforcement |-> Unfinished("gateway", Setting("config.enforcement"), {"value"}),
     remove |-> Draft("exec", Exec(<<"rm">>)),
     show |-> Draft("exec", Exec(<<"cat", " ", "secret">>)),
     shell |-> Draft("exec", Exec(<<"A=b", " ", "sh">>)),
     list |-> Draft("exec", Exec(<<"ls">>))]

Good(k, v) == [key |-> k, value |-> v, good |-> TRUE]
Bad(k, v) == [key |-> k, value |-> v, good |-> FALSE]

Buttons(style) == Arr(<<Obj([label |-> Str("ok"), style |-> Str(style)])>>)
Present(style) ==
    Obj([blocks |-> Arr(<<Obj([type |-> Str("buttons"), text |-> Str("token"),
                               buttons |-> Buttons(style)])>>)])

BrowserFields ==
    {Good("target", Str("node")), Bad("target", Str("moon")), Good("node", Str("n1")),
     Bad("profile", Str(" "))}
UrlFields ==
    BrowserFields \cup {Good("targetUrl", Str(u)) : u \in MCUrls} \cup {Good("url", Str("https://a?token"))}
TypeFields == {Good("text", Str("token")), Good("submit", Yes), Bad("submit", Str("yes")),
               Good("delayMs", Num(0)), Bad("delayMs", Num(-1)), Bad("selector", Str(""))}
Request(text) == Obj([kind |-> Str("type"), selector |-> Str("#a"), text |-> Str(text)])

ConfigFields ==
    {Good("raw", <<"json", Entry(f)>>) :
        f \in {[enabled |-> No], [enabled |-> Yes], [config |-> Enforcing("shadow")],
               [config |-> Enforcing("enforce")],
               [enabled |-> Yes, config |-> Enforcing("enforce")],
               [enabled |-> Yes, config |-> Enforcing("shadow")]}}
      \cup {Good("raw", <<"json", Obj([plugins |-> Obj(NoFields)])>>),
            Bad("raw", Str("not json")), Good("delayMs", Num(0)), Bad("timeoutMs", Num(0)),
            Good("note", Str("why")), Bad("sessionKey", Yes)}

MCFields ==
    [d \in DOMAIN MCDrafts |->
       CASE d \in {"write", "audit"} ->
              {Good("content", Str("x")), Bad("content", Yes), Bad("mode", Num(1)), Bad("extra", <<"other", 0>>)}
         [] d = "edit" ->
              {Good("edits", Arr(<<Obj([oldText |-> Str("a"), newText |-> Str("")])>>)),
               Bad("edits", Arr(<<Obj([oldText |-> Str(""), newText |-> Str("a")])>>)),
               Bad("edits", Arr(<< >>)), Bad("extra", Yes)}
         [] d = "message" ->
              {Good("message", Str("token")), Good("message", Str("hello")), Bad("message", Num(1)),
               Good("caption", Str("token")), Good("targets", Arr(<<Str("b")>>)),
               Bad("targets", Arr(<< >>)), Bad("silent", Str("yes")), Good("dryRun", No),
               Bad("presentation", Present("loud")), Good("presentation", Present("danger")),
               Good("delivery", Obj([pin |-> Yes])), Bad("delivery", Obj([pin |-> Obj(NoFields)])),
               Good("attachments", Arr(<<Obj([media |-> Str("token")])>>)),
               Bad("attachments", Arr(<<Obj([media |-> Str(" ")])>>))}
         [] d \in {"fetch", "fetchPart"} ->
              {Good("maxChars", Num(100)), Bad("maxChars", Num(99)), Good("extractMode", Str("text")),
               Bad("extractMode", Str("raw"))}
         [] d = "open" -> UrlFields \cup {Good("label", Str("l")), Bad("targetId", Str("t"))}
         [] d = "navigate" -> UrlFields \cup {Bad("label", Str("l")), Good("targetId", Str("t"))}
         [] d = "typeFlat" -> BrowserFields \cup TypeFields
         [] d = "typeNested" ->
              BrowserFields \cup {Good("request", Request("token")), Good("request", Request("hello")),
                                  Bad("request", Str("type")), Bad("ref", Str("e1"))}
         [] d = "waiting" ->
              {Good("kind", Str("wait")), Good("timeMs", Num(3)), Bad("timeMs", Num(4)),
               Good("request", Obj([kind |-> Str("wait"), timeMs |-> Num(0)])),
               Good("profile", Str("p")), Bad("profile", Str("opaque"))}
         [] d = "status" ->
              {Good("sessionKey", Str("current")), Good("sessionKey", Str("s1")), Bad("sessionKey", Str("s2")),
               Bad("model", Str("m"))}
         [] d = "patchConfig" ->
              ConfigFields \cup {Good("replacePaths", Arr(<<Str("plugins")>>)), Bad("replacePaths", Arr(<<Yes>>))}
         [] d = "applyConfig" -> ConfigFields \cup {Bad("replacePaths", Arr(<< >>))}
         [] d = "setEnabled" -> {Good("value", Yes), Good("value", No), Bad("note", Str("why"))}
         [] d = "setEnforcement" ->
              {Good("value", Str("shadow")), Good("value", Str("enforce")), Bad("path", Str("x"))}
         [] OTHER -> {}]

MCBasename == [p \in {"/bin/rm"} |-> "rm"]
MCPieces ==
    {" ", "'", "\\", ";", "|", ">", "#", "$", "5", "out", "-v"}

Into(before, after) == [before |-> before, after |-> after, takes |-> "anything"]
Before(wrapper) == [before |-> wrapper, after |-> << >>, takes |-> "a command"]
MCWrappings ==
    {Before(<<"nohup", " ">>), Before(<<"command", " ">>), Before(<<"busybox", " ">>),
     Before(<<"nice", " ", "-n", " ", "5", " ">>), Before(<<"exec", " ", "-a", " ", "out", " ">>),
     Before(<<"timeout", " ", "-k", " ", "5", " ", "5", " ">>),
     Into(<<"env", " ", "-u", " ", "X", " ", "A=b", " ">>, << >>),
     Into(<<"A=b", " ">>, << >>), Into(<<">", " ", "out", " ">>, << >>),
     Into(<<"ls", " ", "'", "#", "'", "|">>, <<"\n", "ls">>), Into(<<"#", "'", "\n">>, <<";", " ", "ls">>)}
=============================================================================
