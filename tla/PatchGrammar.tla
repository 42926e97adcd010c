----------------------------- MODULE PatchGrammar -----------------------------
(* What a patch is, as a grammar: the reference the hand-written reader of     *)
(* policy-routing.js is held against.  A phrase is lines and the files that    *)
(* its headers name; only phrases of at most MaxLines lines of the alphabet    *)
(* are built.                                                                  *)
EXTENDS Naturals, Sequences

CONSTANTS PatchLines, MaxLines

Named(l) == [lines |-> <<l>>, files |-> {l.file}]
Bare(l) == [lines |-> <<l>>, files |-> {}]

(* A header is trimmed before it is read, every other line is not.            *)
Headers(kind) == {Named(l) : l \in {m \in PatchLines : m.kind = kind}}
Lines(kinds) == {Bare(l) : l \in {m \in PatchLines : m.kind \in kinds /\ ~m.indented}}
Indented == {Bare(l) : l \in {m \in PatchLines : m.indented}}
Empty == {[lines |-> << >>, files |-> {}]}

Then(left, right) ==
    UNION {{[lines |-> p.lines \o q.lines, files |-> p.files \cup q.files] :
               q \in {r \in right : Len(p.lines) + Len(r.lines) <= MaxLines}} : p \in left}

AnyOf(phrases) ==
    LET upTo[n \in 0..MaxLines] == IF n = 0 THEN Empty ELSE Empty \cup Then(phrases, upTo[n - 1])
    IN  upTo[MaxLines]
Some(phrases) == Then(phrases, AnyOf(phrases))
Maybe(phrases) == Empty \cup phrases
Unindented(phrases) == {p \in phrases : ~p.lines[1].indented}
NotMoving(phrases) == {p \in phrases : p.lines[1].kind # "move"}

(* An indented line inside a chunk is text, whatever it looks like.           *)
Texts == Lines({"plus", "context"}) \cup Indented
Rest == Then(AnyOf(Texts \cup Lines({"blank"})), Maybe(Lines({"eof"})))
HeadedChunk == Then(Then(Lines({"head"}), Texts \cup Lines({"blank"})), Rest)
FirstChunk == HeadedChunk \cup Then(Texts, Rest)
Blanks == AnyOf(Lines({"blank"}))
Chunks(opening) == Then(Then(Blanks, opening), Then(AnyOf(Then(Blanks, HeadedChunk)), Blanks))

(* A line that can be a move is one.                                          *)
Listed == Then(Headers("add"), AnyOf(Lines({"plus"}))) \cup Headers("delete")
UpdateFile ==
    Then(Then(Headers("update"), Headers("move")), Chunks(FirstChunk))
      \cup Then(Headers("update"), NotMoving(Chunks(FirstChunk)))

(* After the text of an update only an unindented header is one.              *)
Updates == Then(UpdateFile, AnyOf(Unindented(UpdateFile)))
Round == Then(Updates, Then(Unindented(Listed), AnyOf(Listed)))
Patches == Then(AnyOf(Listed), Then(AnyOf(Round), Maybe(Updates))) \ Empty
=============================================================================
