--------------------------- MODULE AuditWriterProofs ---------------------------
(* What the audit writer reports is true and what it loses is explained, for    *)
(* any number of writes, any depth, any number of faults and rotations.        *)
EXTENDS AuditWriter, FiniteSetTheorems, WellFoundedInduction, TLAPS

FileType == [kind : FileKinds, pieces : Seq(Writers \X {"line", "torn"})]

WriterType ==
    [pc : Steps, level : 1..Depth, missing : {None} \cup 1..Depth, handle : Nat,
     failed : BOOLEAN, fault : {None} \cup Steps]

TypeOK ==
    /\ dirs \in [1..Depth -> {None, "link", "host"} \cup Writers]
    /\ files \in Seq(FileType)
    /\ at \in 0..Len(files)
    /\ writer \in [Writers -> WriterType]
    /\ rotations \in Nat

(* A write has failed nowhere before its close, and got to it with a line.    *)
Progress(w) ==
    /\ writer[w].pc \in {"check", "append", "close"} => writer[w].handle \in DOMAIN files
    /\ writer[w].pc = "append" => files[writer[w].handle].kind = "own"
    /\ writer[w].pc \notin {"close", "reported"} => writer[w].fault = None /\ ~writer[w].failed
    /\ writer[w].pc \in {"close", "reported"} /\ ~writer[w].failed =>
          \E f \in DOMAIN files : \E i \in DOMAIN files[f].pieces :
             files[f].pieces[i] = <<w, "line">>

(* What is known of the write that a piece is of.                            *)
PieceIsAccountedFor(f, i) ==
    LET w == files[f].pieces[i][1]
        piece == files[f].pieces[i][2]
    IN  /\ writer[w].pc \in {"close", "reported"}
        /\ piece = "line" =>
              files[f].kind = "own" /\ (writer[w].failed => writer[w].fault = "close")
        /\ piece = "torn" => writer[w].fault = "append"

OnePieceEach ==
    \A f, g \in DOMAIN files :
        \A i \in DOMAIN files[f].pieces, j \in DOMAIN files[g].pieces :
            files[f].pieces[i][1] = files[g].pieces[j][1] => f = g /\ i = j

FilesInv ==
    /\ \A w \in Writers : Progress(w)
    /\ \A f \in DOMAIN files : \A i \in DOMAIN files[f].pieces : PieceIsAccountedFor(f, i)
    /\ OnePieceEach

(* The directories a write has passed are there, those it made are among      *)
(* them, and what another has made it has not.                               *)
Walk(w) ==
    LET d == writer[w].level
    IN  /\ \A e \in 1..Depth : dirs[e] = w => e <= d /\ writer[w].pc # "idle"
        /\ writer[w].missing # None =>
              /\ writer[w].missing <= d /\ writer[w].pc # "idle"
              /\ \A e \in 1..Depth : dirs[e] = w => e <= writer[w].missing
        /\ writer[w].pc = "idle" => d = 1
        /\ writer[w].pc \in {"look", "make"} => \A e \in 1..(d - 1) : dirs[e] # None
        /\ writer[w].pc = "make" =>
              writer[w].missing = d /\ dirs[d] \in {None} \cup (Writers \ {w})
        /\ writer[w].pc \in {"resolve", "open", "check", "append"} =>
              \A e \in 1..Depth : dirs[e] # None

Explained(w) ==
    Undisturbed /\ writer[w].failed /\ writer[w].fault = None =>
        writer[w].missing # None /\ dirs[writer[w].missing] \in Writers \ {w}

DirsInv == \A w \in Writers : Walk(w) /\ Explained(w)

IInv == TypeOK /\ FilesInv /\ DirsInv

-----------------------------------------------------------------------------
(* What Put leaves: one more piece at the end of the file of the write.      *)
LEMMA PutShape ==
    ASSUME TypeOK, NEW w \in Writers, writer[w].handle \in DOMAIN files,
           NEW piece \in {"line", "torn"}, Put(w, piece)
    PROVE  /\ files' \in Seq(FileType)
           /\ Len(files') = Len(files)
           /\ DOMAIN files' = DOMAIN files
           /\ \A f \in DOMAIN files : files'[f].kind = files[f].kind
           /\ \A f \in DOMAIN files \ {writer[w].handle} : files'[f] = files[f]
           /\ files'[writer[w].handle].pieces =
                 Append(files[writer[w].handle].pieces, <<w, piece>>)
<1> DEFINE h == writer[w].handle
           new == [files[h] EXCEPT !.pieces = Append(@, <<w, piece>>)]
<1>1. files' = [files EXCEPT ![h] = new]
  BY DEF Put
<1>2. files \in Seq(FileType) /\ h \in DOMAIN files
  BY DEF TypeOK
<1>3. files[h] \in FileType
  BY <1>2
<1>4. <<w, piece>> \in Writers \X {"line", "torn"}
  OBVIOUS
<1>5. files[h].pieces \in Seq(Writers \X {"line", "torn"})
  BY <1>3 DEF FileType
<1>6. Append(files[h].pieces, <<w, piece>>) \in Seq(Writers \X {"line", "torn"})
  BY <1>4, <1>5
<1>7. new \in FileType /\ new.kind = files[h].kind
      /\ new.pieces = Append(files[h].pieces, <<w, piece>>)
  BY <1>3, <1>6 DEF FileType
<1> HIDE DEF h, new
<1>8. files' \in Seq(FileType) /\ Len(files') = Len(files) /\ DOMAIN files' = DOMAIN files
  BY <1>1, <1>2, <1>7
<1>9. /\ \A f \in DOMAIN files \ {h} : files'[f] = files[f]
      /\ files'[h] = new
  BY <1>1, <1>2
<1> QED
  BY <1>2, <1>7, <1>8, <1>9 DEF h

(* A new file has no pieces and stands at the end.                           *)
LEMMA NewFileShape ==
    ASSUME TypeOK, files' = Append(files, File("own"))
    PROVE  /\ files' \in Seq(FileType)
           /\ Len(files') = Len(files) + 1
           /\ DOMAIN files' = DOMAIN files \cup {Len(files) + 1}
           /\ \A f \in DOMAIN files : files'[f] = files[f]
           /\ files'[Len(files) + 1] = File("own")
<1>1. files \in Seq(FileType)
  BY DEF TypeOK
<1>2. File("own") \in FileType
  BY DEF File, FileType, FileKinds
<1> QED
  BY <1>1, <1>2

-----------------------------------------------------------------------------
LEMMA InitSound == Init => IInv
<1> SUFFICES ASSUME Init PROVE IInv
  OBVIOUS
<1> USE AuditAssumption, WritersAssumption, NoneAssumption
<1>1. TypeOK
  <2>1. PICK n \in 0..Depth, bad \in {None, "link"} :
          /\ dirs = [d \in 1..Depth |-> CASE d <= n -> "host"
                                          [] d = n + 1 -> bad
                                          [] OTHER -> None]
          /\ \/ files = << >> /\ at = 0
             \/ n = Depth /\ at = 1 /\ \E kind \in FileKinds : files = <<File(kind)>>
    BY DEF Init
  <2>2. dirs \in [1..Depth -> {None, "link", "host"} \cup Writers]
    BY <2>1
  <2>3. files \in Seq(FileType) /\ at \in 0..Len(files)
    <3>1. \A kind \in FileKinds : File(kind) \in FileType
      BY DEF File, FileType
    <3>2. CASE files = << >> /\ at = 0
      BY <3>2
    <3>3. CASE at = 1 /\ \E kind \in FileKinds : files = <<File(kind)>>
      BY <3>1, <3>3
    <3> QED
      BY <2>1, <3>2, <3>3
  <2>4. writer \in [Writers -> WriterType]
    BY DEF Init, WriterType, Steps
  <2> QED
    BY <2>2, <2>3, <2>4 DEF Init, TypeOK
<1>2. FilesInv
  BY DEF Init, FilesInv, Progress, PieceIsAccountedFor, OnePieceEach, File
<1>3. DirsInv
  BY DEF Init, DirsInv, Walk, Explained
<1> QED
  BY <1>1, <1>2, <1>3 DEF IInv

-----------------------------------------------------------------------------
(* What a step makes of the record of the write that takes it.               *)
Becomes(w, r) ==
    /\ writer' \in [Writers -> WriterType]
    /\ \A v \in Writers \ {w} : writer'[v] = writer[v]
    /\ writer'[w] = r

LEMMA GotoBecomes ==
    ASSUME TypeOK, NEW w \in Writers, NEW pc \in Steps, Goto(w, pc)
    PROVE  Becomes(w, [writer[w] EXCEPT !.pc = pc])
  BY DEF TypeOK, Goto, Becomes, WriterType

LEMMA ThrowBecomes ==
    ASSUME TypeOK, NEW w \in Writers, Throw(w)
    PROVE  Becomes(w, [writer[w] EXCEPT !.pc = "reported", !.failed = TRUE])
  BY DEF TypeOK, Throw, Becomes, WriterType, Steps

LEMMA LookBecomes ==
    ASSUME TypeOK, NEW w \in Writers, Look(w)
    PROVE  LET d == writer[w].level
           IN  \/ /\ dirs[d] = None
                  /\ Becomes(w, [writer[w] EXCEPT !.pc = "make", !.missing = d])
               \/ /\ dirs[d] = "link" /\ dirs[d] # None
                  /\ Becomes(w, [writer[w] EXCEPT !.pc = "reported", !.failed = TRUE])
               \/ /\ d = Depth /\ dirs[d] # None
                  /\ Becomes(w, [writer[w] EXCEPT !.pc = "resolve"])
               \/ /\ d < Depth /\ dirs[d] # None
                  /\ Becomes(w, [writer[w] EXCEPT !.level = d + 1])
<1> DEFINE d == writer[w].level
<1>1. /\ writer \in [Writers -> WriterType] /\ writer[w] \in WriterType
      /\ d \in 1..Depth /\ dirs[d] \in {None, "link", "host"} \cup Writers
  BY DEF TypeOK, WriterType
<1>2. CASE dirs[d] = None
  <2>1. writer' = [writer EXCEPT ![w].pc = "make", ![w].missing = d]
    BY <1>2, NoneAssumption DEF Look
  <2> HIDE DEF d
  <2>2. Becomes(w, [writer[w] EXCEPT !.pc = "make", !.missing = d])
    BY <1>1, <2>1 DEF Becomes, WriterType, Steps
  <2> QED
    BY <1>2, <2>2 DEF d
<1>3. CASE dirs[d] = "link" /\ dirs[d] # None
  <2>1. Throw(w)
    BY <1>3, WritersAssumption DEF Look
  <2> QED
    BY <1>3, <2>1, ThrowBecomes
<1>4. CASE d = Depth /\ dirs[d] \in Writers \cup {"host"} /\ dirs[d] # None
  <2>1. Goto(w, "resolve")
    BY <1>4, WritersAssumption DEF Look
  <2> QED
    BY <1>4, <2>1, GotoBecomes DEF Steps
<1>5. CASE d # Depth /\ dirs[d] # "link" /\ dirs[d] # None
  <2>1. writer' = [writer EXCEPT ![w].level = d + 1]
    BY <1>1, <1>5 DEF Look
  <2>2. d < Depth /\ d + 1 \in 1..Depth
    BY <1>1, <1>5, AuditAssumption
  <2> HIDE DEF d
  <2>3. Becomes(w, [writer[w] EXCEPT !.level = d + 1])
    BY <1>1, <2>1, <2>2 DEF Becomes, WriterType
  <2> QED
    BY <1>5, <2>2, <2>3 DEF d
<1> QED
  BY <1>1, <1>2, <1>3, <1>4, <1>5

LEMMA OpenBecomes ==
    ASSUME TypeOK, NEW w \in Writers, Open(w)
    PROVE  \/ /\ at = 0 /\ files' = Append(files, File("own")) /\ at' = Len(files) + 1
              /\ Becomes(w, [writer[w] EXCEPT !.pc = "check", !.handle = Len(files) + 1])
           \/ /\ at \in DOMAIN files /\ UNCHANGED <<files, at>>
              /\ \/ /\ files[at].kind = "symlink"
                    /\ Becomes(w, [writer[w] EXCEPT !.pc = "reported", !.failed = TRUE])
                 \/ Becomes(w, [writer[w] EXCEPT !.pc = "check", !.handle = at])
<1>1. /\ writer \in [Writers -> WriterType] /\ writer[w] \in WriterType
      /\ files \in Seq(FileType) /\ at \in 0..Len(files) /\ Len(files) \in Nat
  BY DEF TypeOK
<1>2. CASE at = 0
  <2>0. Len(files) + 1 \in Nat
    BY <1>1
  <2>1. /\ files' = Append(files, File("own")) /\ at' = Len(files) + 1
        /\ writer' = [writer EXCEPT ![w].pc = "check", ![w].handle = at']
    BY <1>2 DEF Open
  <2>2. Becomes(w, [writer[w] EXCEPT !.pc = "check", !.handle = Len(files) + 1])
    <3> DEFINE n == Len(files) + 1
    <3>1. writer' = [writer EXCEPT ![w].pc = "check", ![w].handle = n] /\ n \in Nat
      BY <2>0, <2>1
    <3> HIDE DEF n
    <3>2. Becomes(w, [writer[w] EXCEPT !.pc = "check", !.handle = n])
      BY <1>1, <3>1 DEF Becomes, WriterType, Steps
    <3> QED
      BY <3>2 DEF n
  <2> QED
    BY <1>2, <2>1, <2>2
<1>3. CASE at # 0 /\ files[at].kind = "symlink"
  <2>1. Throw(w) /\ UNCHANGED <<files, at>>
    BY <1>3 DEF Open
  <2>2. Becomes(w, [writer[w] EXCEPT !.pc = "reported", !.failed = TRUE])
    BY <2>1, ThrowBecomes
  <2>3. at \in DOMAIN files
    BY <1>1, <1>3
  <2> QED
    BY <1>3, <2>1, <2>2, <2>3
<1>4. CASE at # 0 /\ files[at].kind # "symlink"
  <2>1. /\ writer' = [writer EXCEPT ![w].pc = "check", ![w].handle = at]
        /\ UNCHANGED <<files, at>>
    BY <1>4 DEF Open
  <2>2. at \in Nat /\ at \in DOMAIN files
    BY <1>1, <1>4
  <2>3. Becomes(w, [writer[w] EXCEPT !.pc = "check", !.handle = at])
    BY <1>1, <2>1, <2>2 DEF Becomes, WriterType, Steps
  <2> QED
    BY <2>1, <2>2, <2>3
<1> QED
  BY <1>2, <1>3, <1>4

LEMMA CheckBecomes ==
    ASSUME TypeOK, NEW w \in Writers, Check(w)
    PROVE  \/ /\ files[writer[w].handle].kind = "own"
              /\ Becomes(w, [writer[w] EXCEPT !.pc = "append"])
           \/ /\ files[writer[w].handle].kind # "own"
              /\ Becomes(w, [writer[w] EXCEPT !.pc = "close", !.failed = TRUE])
<1>1. writer \in [Writers -> WriterType] /\ writer[w] \in WriterType
  BY DEF TypeOK
<1>2. CASE files[writer[w].handle].kind = "own"
  BY <1>2, GotoBecomes DEF Check, Steps
<1>3. CASE files[writer[w].handle].kind # "own"
  <2>1. writer' = [writer EXCEPT ![w].pc = "close", ![w].failed = TRUE]
    BY <1>3 DEF Check
  <2> QED
    BY <1>1, <1>3, <2>1 DEF Becomes, WriterType, Steps
<1> QED
  BY <1>2, <1>3

LEMMA FaultBecomes ==
    ASSUME TypeOK, NEW w \in Writers, Fault(w)
    PROVE  \E pc \in {"close", "reported"} :
              /\ pc = "close" <=> writer[w].pc \in {"check", "append"}
              /\ Becomes(w, [writer[w] EXCEPT !.failed = TRUE, !.fault = writer[w].pc,
                                              !.pc = pc])
<1> DEFINE pc == IF writer[w].pc \in {"check", "append"} THEN "close" ELSE "reported"
<1>1. writer \in [Writers -> WriterType] /\ writer[w] \in WriterType
  BY DEF TypeOK
<1>2. writer' = [writer EXCEPT ![w].failed = TRUE, ![w].fault = writer[w].pc, ![w].pc = pc]
  BY DEF Fault
<1>3. /\ pc \in {"close", "reported"} /\ pc \in Steps
      /\ pc = "close" <=> writer[w].pc \in {"check", "append"}
  BY DEF Steps
<1> HIDE DEF pc
<1>4. Becomes(w, [writer[w] EXCEPT !.failed = TRUE, !.fault = writer[w].pc, !.pc = pc])
  BY <1>1, <1>2, <1>3 DEF Becomes, WriterType
<1> QED
  BY <1>3, <1>4

-----------------------------------------------------------------------------
(* The types are kept, given that who holds a file holds one that is there.  *)
LEMMA TypeStep == IInv /\ [Next]_vars => TypeOK'
<1> SUFFICES ASSUME IInv, [Next]_vars PROVE TypeOK'
  OBVIOUS
<1>0. TypeOK /\ FilesInv
  BY DEF IInv
<1> DEFINE Written == writer' \in [Writers -> WriterType]
<1>1. ASSUME NEW w \in Writers, MakeRoot(w), UNCHANGED rotations PROVE TypeOK'
  <2>1. Written
    BY <1>0, <1>1, GotoBecomes DEF MakeRoot, Becomes, Steps
  <2> QED
    BY <1>0, <1>1, <2>1 DEF MakeRoot, TypeOK
<1>2. ASSUME NEW w \in Writers, Look(w), UNCHANGED rotations PROVE TypeOK'
  <2>1. Written
    BY <1>0, <1>2, LookBecomes DEF Becomes
  <2> QED
    BY <1>0, <1>2, <2>1 DEF Look, TypeOK
<1>3. ASSUME NEW w \in Writers, Make(w), UNCHANGED rotations PROVE TypeOK'
  <2>1. Written
    BY <1>0, <1>3, GotoBecomes, ThrowBecomes DEF Make, Becomes, Steps
  <2> QED
    BY <1>0, <1>3, <2>1 DEF Make, TypeOK
<1>4. ASSUME NEW w \in Writers, Resolve(w), UNCHANGED rotations PROVE TypeOK'
  <2>1. Written
    BY <1>0, <1>4, GotoBecomes, ThrowBecomes DEF Resolve, Becomes, Steps
  <2> QED
    BY <1>0, <1>4, <2>1 DEF Resolve, TypeOK
<1>5. ASSUME NEW w \in Writers, Open(w), UNCHANGED rotations PROVE TypeOK'
  <2>1. Written
    BY <1>0, <1>5, OpenBecomes DEF Becomes
  <2>2. files' \in Seq(FileType) /\ at' \in 0..Len(files')
    <3>1. CASE files' = Append(files, File("own")) /\ at' = Len(files) + 1
      <4>1. files' \in Seq(FileType) /\ Len(files') = Len(files) + 1 /\ Len(files) \in Nat
        BY <1>0, <3>1, NewFileShape DEF TypeOK
      <4> QED
        BY <3>1, <4>1
    <3>2. CASE UNCHANGED <<files, at>>
      BY <1>0, <3>2 DEF TypeOK
    <3> QED
      BY <1>0, <1>5, <3>1, <3>2, OpenBecomes
  <2> QED
    BY <1>0, <1>5, <2>1, <2>2 DEF Open, TypeOK
<1>6. ASSUME NEW w \in Writers, Check(w), UNCHANGED rotations PROVE TypeOK'
  <2>1. Written
    BY <1>0, <1>6, CheckBecomes DEF Becomes
  <2> QED
    BY <1>0, <1>6, <2>1 DEF Check, TypeOK
<1>7. ASSUME NEW w \in Writers, AppendLine(w), UNCHANGED rotations PROVE TypeOK'
  <2>1. Put(w, "line") /\ writer[w].handle \in DOMAIN files
    BY <1>0, <1>7 DEF AppendLine, FilesInv, Progress
  <2>2. files' \in Seq(FileType) /\ Len(files') = Len(files)
    BY <1>0, <2>1, PutShape
  <2>3. Written
    BY <1>0, <1>7, GotoBecomes DEF AppendLine, Becomes, Steps
  <2> QED
    BY <1>0, <1>7, <2>2, <2>3 DEF AppendLine, TypeOK
<1>8. ASSUME NEW w \in Writers, Close(w), UNCHANGED rotations PROVE TypeOK'
  <2>1. Written
    BY <1>0, <1>8, GotoBecomes DEF Close, Becomes, Steps
  <2> QED
    BY <1>0, <1>8, <2>1 DEF Close, TypeOK
<1>9. ASSUME NEW w \in Writers, Fault(w), UNCHANGED rotations PROVE TypeOK'
  <2>1. files' \in Seq(FileType) /\ Len(files') = Len(files)
    <3>1. CASE UNCHANGED files
      BY <1>0, <3>1 DEF TypeOK
    <3>2. CASE writer[w].pc = "append" /\ Put(w, "torn")
      <4>1. writer[w].handle \in DOMAIN files
        BY <1>0, <3>2 DEF FilesInv, Progress
      <4> QED
        BY <1>0, <3>2, <4>1, PutShape
    <3> QED
      BY <1>9, <3>1, <3>2 DEF Fault
  <2>2. Written
    BY <1>0, <1>9, FaultBecomes DEF Becomes
  <2> QED
    BY <1>0, <1>9, <2>1, <2>2 DEF Fault, TypeOK
<1>10. CASE Rotate
  BY <1>0, <1>10 DEF Rotate, TypeOK
<1>11. CASE UNCHANGED vars
  BY <1>0, <1>11 DEF vars, TypeOK
<1> QED
  BY <1>1, <1>2, <1>3, <1>4, <1>5, <1>6, <1>7, <1>8, <1>9, <1>10, <1>11 DEF Next, Write

-----------------------------------------------------------------------------
Pieces == \A f \in DOMAIN files : \A i \in DOMAIN files[f].pieces : PieceIsAccountedFor(f, i)

(* No step takes a piece away or changes what kind of file it is in.         *)
Kept ==
    \A f \in DOMAIN files :
        /\ f \in DOMAIN files' /\ files'[f].kind = files[f].kind
        /\ \A i \in DOMAIN files[f].pieces :
              i \in DOMAIN files'[f].pieces /\ files'[f].pieces[i] = files[f].pieces[i]

LEMMA PieceType ==
    ASSUME TypeOK, NEW f \in DOMAIN files, NEW i \in DOMAIN files[f].pieces
    PROVE  files[f].pieces[i][1] \in Writers /\ files[f].pieces[i][2] \in {"line", "torn"}
<1>1. files[f] \in FileType
  BY DEF TypeOK
<1>2. files[f].pieces \in Seq(Writers \X {"line", "torn"})
  BY <1>1 DEF FileType
<1>3. files[f].pieces[i] \in Writers \X {"line", "torn"}
  BY <1>2
<1> QED
  BY <1>3

LEMMA PutKeeps ==
    ASSUME TypeOK, NEW w \in Writers, writer[w].handle \in DOMAIN files,
           NEW piece \in {"line", "torn"}, Put(w, piece)
    PROVE  LET h == writer[w].handle
               n == Len(files[h].pieces) + 1
           IN  /\ Kept
               /\ DOMAIN files' = DOMAIN files
               /\ n \in DOMAIN files'[h].pieces /\ files'[h].pieces[n] = <<w, piece>>
               /\ \A f \in DOMAIN files : \A i \in DOMAIN files'[f].pieces :
                     i \in DOMAIN files[f].pieces \/ (f = h /\ i = n)
<1> DEFINE h == writer[w].handle
           n == Len(files[h].pieces) + 1
<1>1. /\ DOMAIN files' = DOMAIN files
      /\ \A f \in DOMAIN files : files'[f].kind = files[f].kind
      /\ \A f \in DOMAIN files \ {h} : files'[f] = files[f]
      /\ files'[h].pieces = Append(files[h].pieces, <<w, piece>>)
  BY PutShape
<1>2. files[h].pieces \in Seq(Writers \X {"line", "torn"})
  <2>1. files[h] \in FileType
    BY DEF TypeOK
  <2> QED
    BY <2>1 DEF FileType
<1>3. h \in DOMAIN files
  OBVIOUS
<1> HIDE DEF h
<1>4. /\ DOMAIN files'[h].pieces = DOMAIN files[h].pieces \cup {n}
      /\ files'[h].pieces[n] = <<w, piece>>
      /\ \A i \in DOMAIN files[h].pieces : files'[h].pieces[i] = files[h].pieces[i]
  BY <1>1, <1>2
<1> HIDE DEF n
<1>5. Kept
  BY <1>1, <1>3, <1>4 DEF Kept
<1> QED
  BY <1>1, <1>3, <1>4, <1>5 DEF h, n

(* A step of one write leaves the progress of the others.                    *)
LEMMA OthersProgress ==
    ASSUME FilesInv, Kept, NEW w \in Writers, NEW r, Becomes(w, r), NEW v \in Writers \ {w}
    PROVE  Progress(v)'
<1>1. writer'[v] = writer[v] /\ Progress(v)
  BY DEF Becomes, FilesInv
<1> QED
  BY <1>1 DEF Progress, Kept

(* A step that writes nothing keeps what is known of the pieces, if the write *)
(* has written none, or closes, or fails to close.                           *)
LEMMA QuietPieces ==
    ASSUME TypeOK, FilesInv, UNCHANGED files, NEW w \in Writers, NEW r, Becomes(w, r),
           \/ writer[w].pc \notin {"close", "reported"}
           \/ /\ r.pc \in {"close", "reported"}
              /\ \/ r.failed = writer[w].failed /\ r.fault = writer[w].fault
                 \/ writer[w].fault = None /\ r.fault = "close"
    PROVE  Pieces' /\ OnePieceEach' /\ Kept
<1>1. Pieces /\ OnePieceEach
  BY DEF FilesInv, Pieces
<1>2. Kept
  BY DEF Kept
<1>3. OnePieceEach'
  BY <1>1 DEF OnePieceEach
<1>4. ASSUME NEW f \in DOMAIN files, NEW i \in DOMAIN files[f].pieces
      PROVE  PieceIsAccountedFor(f, i)'
  <2>1. files[f].pieces[i][1] \in Writers /\ PieceIsAccountedFor(f, i)
    BY <1>1, PieceType DEF Pieces
  <2>2. CASE files[f].pieces[i][1] # w
    <3>1. writer'[files[f].pieces[i][1]] = writer[files[f].pieces[i][1]]
      BY <2>1, <2>2 DEF Becomes
    <3> QED
      BY <2>1, <3>1 DEF PieceIsAccountedFor
  <2>3. CASE files[f].pieces[i][1] = w
    <3>1. writer'[w] = r /\ writer[w].pc \in {"close", "reported"}
      BY <2>1, <2>3 DEF Becomes, PieceIsAccountedFor
    <3>2. None # "append"
      BY NoneAssumption DEF Steps
    <3> QED
      BY <2>1, <2>3, <3>1, <3>2 DEF PieceIsAccountedFor
  <2> QED
    BY <2>2, <2>3
<1> QED
  BY <1>2, <1>3, <1>4 DEF Pieces

(* Opening a new file keeps what is known of the pieces: it has none.        *)
LEMMA NewFilePieces ==
    ASSUME TypeOK, FilesInv, files' = Append(files, File("own")),
           NEW w \in Writers, NEW r, Becomes(w, r), writer[w].pc \notin {"close", "reported"}
    PROVE  Pieces' /\ OnePieceEach' /\ Kept
<1>1. Pieces /\ OnePieceEach
  BY DEF FilesInv, Pieces
<1>2. /\ DOMAIN files' = DOMAIN files \cup {Len(files) + 1}
      /\ \A f \in DOMAIN files : files'[f] = files[f]
      /\ files'[Len(files) + 1] = File("own")
  BY NewFileShape
<1>3. DOMAIN File("own").pieces = {}
  BY DEF File
<1>4. Kept
  BY <1>2 DEF Kept
<1>5. OnePieceEach'
  BY <1>1, <1>2, <1>3 DEF OnePieceEach
<1>6. ASSUME NEW f \in DOMAIN files', NEW i \in DOMAIN files'[f].pieces
      PROVE  PieceIsAccountedFor(f, i)'
  <2>1. f \in DOMAIN files /\ files'[f] = files[f] /\ i \in DOMAIN files[f].pieces
    BY <1>2, <1>3, <1>6
  <2>2. files[f].pieces[i][1] \in Writers /\ PieceIsAccountedFor(f, i)
    BY <1>1, <2>1, PieceType DEF Pieces
  <2>3. files[f].pieces[i][1] # w
    BY <2>2 DEF PieceIsAccountedFor
  <2>4. writer'[files[f].pieces[i][1]] = writer[files[f].pieces[i][1]]
    BY <2>2, <2>3 DEF Becomes
  <2> QED
    BY <2>1, <2>2, <2>4 DEF PieceIsAccountedFor
<1> QED
  BY <1>4, <1>5, <1>6 DEF Pieces

(* The first piece of a write is accounted for by what it became.            *)
LEMMA PutPieces ==
    ASSUME TypeOK, FilesInv, NEW w \in Writers, NEW r, Becomes(w, r),
           NEW piece \in {"line", "torn"}, Put(w, piece),
           writer[w].pc = "append", r.pc = "close",
           piece = "line" => ~r.failed, piece = "torn" => r.fault = "append"
    PROVE  /\ Pieces' /\ OnePieceEach' /\ Kept /\ DOMAIN files' = DOMAIN files
           /\ \E f \in DOMAIN files' : \E i \in DOMAIN files'[f].pieces :
                 files'[f].pieces[i] = <<w, piece>>
<1> DEFINE h == writer[w].handle
           n == Len(files[h].pieces) + 1
<1>1. Pieces /\ OnePieceEach /\ h \in DOMAIN files /\ files[h].kind = "own"
  BY DEF FilesInv, Pieces, Progress
<1>2. /\ Kept
      /\ DOMAIN files' = DOMAIN files
      /\ n \in DOMAIN files'[h].pieces /\ files'[h].pieces[n] = <<w, piece>>
      /\ \A f \in DOMAIN files : \A i \in DOMAIN files'[f].pieces :
            i \in DOMAIN files[f].pieces \/ (f = h /\ i = n)
  BY <1>1, PutKeeps
<1> HIDE DEF h, n
<1>3. ASSUME NEW f \in DOMAIN files, NEW i \in DOMAIN files[f].pieces
      PROVE  /\ files[f].pieces[i][1] \in Writers \ {w}
             /\ files'[f].pieces[i] = files[f].pieces[i] /\ files'[f].kind = files[f].kind
             /\ PieceIsAccountedFor(f, i)
  BY <1>1, <1>2, PieceType DEF Pieces, PieceIsAccountedFor, Kept
<1>4. ASSUME NEW f \in DOMAIN files, NEW i \in DOMAIN files'[f].pieces
      PROVE  PieceIsAccountedFor(f, i)'
  <2>1. CASE i \in DOMAIN files[f].pieces
    <3>1. writer'[files[f].pieces[i][1]] = writer[files[f].pieces[i][1]]
      BY <1>3, <2>1 DEF Becomes
    <3> QED
      BY <1>3, <2>1, <3>1 DEF PieceIsAccountedFor
  <2>2. CASE f = h /\ i = n
    <3>1. files'[f].pieces[i] = <<w, piece>> /\ files'[f].kind = "own" /\ writer'[w] = r
      BY <1>1, <1>2, <2>2 DEF Kept, Becomes
    <3> QED
      BY <3>1 DEF PieceIsAccountedFor
  <2> QED
    BY <1>2, <2>1, <2>2
<1>5. OnePieceEach'
  <2> SUFFICES ASSUME NEW f \in DOMAIN files, NEW g \in DOMAIN files,
                      NEW i \in DOMAIN files'[f].pieces, NEW j \in DOMAIN files'[g].pieces,
                      files'[f].pieces[i][1] = files'[g].pieces[j][1]
               PROVE  f = g /\ i = j
    BY <1>2 DEF OnePieceEach
  <2>1. CASE i \in DOMAIN files[f].pieces /\ j \in DOMAIN files[g].pieces
    BY <1>1, <1>3, <2>1 DEF OnePieceEach
  <2>2. CASE i \in DOMAIN files[f].pieces /\ g = h /\ j = n
    BY <1>2, <1>3, <2>2
  <2>3. CASE f = h /\ i = n /\ j \in DOMAIN files[g].pieces
    BY <1>2, <1>3, <2>3
  <2> QED
    BY <1>2, <2>1, <2>2, <2>3
<1> QED
  BY <1>1, <1>2, <1>4, <1>5 DEF Pieces

-----------------------------------------------------------------------------
(* What each write has done so far is kept by every step.                    *)
LEMMA FilesStep == IInv /\ [Next]_vars => FilesInv'
<1> SUFFICES ASSUME IInv, [Next]_vars PROVE FilesInv'
  OBVIOUS
<1>0. TypeOK /\ FilesInv /\ DirsInv /\ None \notin Steps
  BY NoneAssumption DEF IInv
<1>a. ASSUME NEW w \in Writers, NEW r, Becomes(w, r), Pieces', OnePieceEach', Kept, Progress(w)'
      PROVE  FilesInv'
  <2>1. \A v \in Writers : Progress(v)'
    BY <1>0, <1>a, OthersProgress
  <2> QED
    BY <1>a, <2>1 DEF FilesInv, Pieces
<1>b. \A w \in Writers : Progress(w) /\ writer[w] \in WriterType
  BY <1>0 DEF FilesInv, TypeOK
<1>c. ASSUME NEW w \in Writers, NEW r, Becomes(w, r), UNCHANGED files, Progress(w)',
             writer[w].pc \notin {"close", "reported"}
      PROVE  FilesInv'
  <2>1. Pieces' /\ OnePieceEach' /\ Kept
    BY <1>0, <1>c, QuietPieces
  <2> QED
    BY <1>a, <1>c, <2>1
(* A write that goes on, before it has a file, or throws.                    *)
<1>d. ASSUME NEW w \in Writers, NEW r, Becomes(w, r), UNCHANGED files,
             writer[w].pc \notin {"close", "reported"}, r.fault = writer[w].fault,
             \/ /\ r.pc \in {"look", "make", "resolve", "open"}
                /\ r.failed = writer[w].failed
             \/ r.pc = "reported" /\ r.failed
      PROVE  FilesInv'
  <2>1. writer'[w] = r
    BY <1>d DEF Becomes
  <2>2. Progress(w)'
    BY <1>b, <1>d, <2>1 DEF Progress
  <2> QED
    BY <1>c, <1>d, <2>2
<1>1. ASSUME NEW w \in Writers, MakeRoot(w) PROVE FilesInv'
  <2>1. Becomes(w, [writer[w] EXCEPT !.pc = "look"])
    BY <1>0, <1>1, GotoBecomes DEF MakeRoot, Steps
  <2> QED
    BY <1>1, <1>b, <1>d, <2>1 DEF MakeRoot, WriterType
<1>2. ASSUME NEW w \in Writers, Look(w) PROVE FilesInv'
  <2>1. UNCHANGED files /\ writer[w].pc = "look"
    BY <1>2 DEF Look
  <2> DEFINE d == writer[w].level
  <2>2. CASE Becomes(w, [writer[w] EXCEPT !.pc = "make", !.missing = d])
    BY <1>b, <1>d, <2>1, <2>2 DEF WriterType
  <2>3. CASE Becomes(w, [writer[w] EXCEPT !.pc = "reported", !.failed = TRUE])
    BY <1>b, <1>d, <2>1, <2>3 DEF WriterType
  <2>4. CASE Becomes(w, [writer[w] EXCEPT !.pc = "resolve"])
    BY <1>b, <1>d, <2>1, <2>4 DEF WriterType
  <2>5. CASE Becomes(w, [writer[w] EXCEPT !.level = d + 1])
    BY <1>b, <1>d, <2>1, <2>5 DEF WriterType
  <2> QED
    BY <1>0, <1>2, <2>2, <2>3, <2>4, <2>5, LookBecomes
<1>3. ASSUME NEW w \in Writers, Make(w) PROVE FilesInv'
  <2>1. UNCHANGED files /\ writer[w].pc = "make"
    BY <1>3 DEF Make
  <2>2. CASE Goto(w, "look")
    <3>1. Becomes(w, [writer[w] EXCEPT !.pc = "look"])
      BY <1>0, <2>2, GotoBecomes DEF Steps
    <3> QED
      BY <1>b, <1>d, <2>1, <3>1 DEF WriterType
  <2>3. CASE Throw(w)
    <3>1. Becomes(w, [writer[w] EXCEPT !.pc = "reported", !.failed = TRUE])
      BY <1>0, <2>3, ThrowBecomes
    <3> QED
      BY <1>b, <1>d, <2>1, <3>1 DEF WriterType
  <2> QED
    BY <1>3, <2>2, <2>3 DEF Make
<1>4. ASSUME NEW w \in Writers, Resolve(w) PROVE FilesInv'
  <2>1. UNCHANGED files /\ writer[w].pc = "resolve"
    BY <1>4 DEF Resolve
  <2>2. CASE Goto(w, "open")
    <3>1. Becomes(w, [writer[w] EXCEPT !.pc = "open"])
      BY <1>0, <2>2, GotoBecomes DEF Steps
    <3> QED
      BY <1>b, <1>d, <2>1, <3>1 DEF WriterType
  <2>3. CASE Throw(w)
    <3>1. Becomes(w, [writer[w] EXCEPT !.pc = "reported", !.failed = TRUE])
      BY <1>0, <2>3, ThrowBecomes
    <3> QED
      BY <1>b, <1>d, <2>1, <3>1 DEF WriterType
  <2> QED
    BY <1>4, <2>2, <2>3 DEF Resolve
<1>5. ASSUME NEW w \in Writers, Open(w) PROVE FilesInv'
  <2>0. writer[w].pc = "open"
    BY <1>5 DEF Open
  <2>1. ASSUME files' = Append(files, File("own")),
               Becomes(w, [writer[w] EXCEPT !.pc = "check", !.handle = Len(files) + 1])
        PROVE  FilesInv'
    <3>1. Pieces' /\ OnePieceEach' /\ Kept
      BY <1>0, <2>0, <2>1, NewFilePieces
    <3>2. Len(files) + 1 \in DOMAIN files'
      BY <1>0, <2>1, NewFileShape
    <3>3. /\ writer'[w].pc = "check" /\ writer'[w].handle = Len(files) + 1
          /\ writer'[w].failed = writer[w].failed /\ writer'[w].fault = writer[w].fault
      BY <1>b, <2>1 DEF Becomes, WriterType
    <3>4. Progress(w)'
      BY <1>b, <2>0, <3>2, <3>3 DEF Progress
    <3> QED
      BY <1>a, <2>1, <3>1, <3>4
  <2>2. CASE UNCHANGED files /\ Becomes(w, [writer[w] EXCEPT !.pc = "reported", !.failed = TRUE])
    BY <1>b, <1>d, <2>0, <2>2 DEF WriterType
  <2>3. ASSUME UNCHANGED files, at \in DOMAIN files,
               Becomes(w, [writer[w] EXCEPT !.pc = "check", !.handle = at])
        PROVE  FilesInv'
    <3>1. /\ writer'[w].pc = "check" /\ writer'[w].handle = at
          /\ writer'[w].failed = writer[w].failed /\ writer'[w].fault = writer[w].fault
      BY <1>b, <2>3 DEF Becomes, WriterType
    <3>2. Progress(w)'
      BY <1>b, <2>0, <2>3, <3>1 DEF Progress
    <3> QED
      BY <1>c, <2>0, <2>3, <3>2
  <2> QED
    BY <1>0, <1>5, <2>1, <2>2, <2>3, OpenBecomes
<1>6. ASSUME NEW w \in Writers, Check(w) PROVE FilesInv'
  <2>0. writer[w].pc = "check" /\ UNCHANGED files
    BY <1>6 DEF Check
  <2>1. ASSUME files[writer[w].handle].kind = "own",
               Becomes(w, [writer[w] EXCEPT !.pc = "append"])
        PROVE  FilesInv'
    <3>1. /\ writer'[w].pc = "append" /\ writer'[w].handle = writer[w].handle
          /\ writer'[w].failed = writer[w].failed /\ writer'[w].fault = writer[w].fault
      BY <1>b, <2>1 DEF Becomes, WriterType
    <3>2. Progress(w)'
      BY <1>b, <2>0, <2>1, <3>1 DEF Progress
    <3> QED
      BY <1>c, <2>0, <2>1, <3>2
  <2>2. ASSUME Becomes(w, [writer[w] EXCEPT !.pc = "close", !.failed = TRUE])
        PROVE  FilesInv'
    <3>1. writer'[w].pc = "close" /\ writer'[w].handle = writer[w].handle /\ writer'[w].failed
      BY <1>b, <2>2 DEF Becomes, WriterType
    <3>2. Progress(w)'
      BY <1>b, <2>0, <3>1 DEF Progress
    <3> QED
      BY <1>c, <2>0, <2>2, <3>2
  <2> QED
    BY <1>0, <1>6, <2>1, <2>2, CheckBecomes
<1>7. ASSUME NEW w \in Writers, AppendLine(w) PROVE FilesInv'
  <2>0. writer[w].pc = "append" /\ Put(w, "line")
    BY <1>7 DEF AppendLine
  <2>1. Becomes(w, [writer[w] EXCEPT !.pc = "close"])
    BY <1>0, <1>7, GotoBecomes DEF AppendLine, Steps
  <2>2. /\ writer'[w].pc = "close" /\ writer'[w].handle = writer[w].handle
        /\ writer'[w] = [writer[w] EXCEPT !.pc = "close"]
        /\ [writer[w] EXCEPT !.pc = "close"].pc = "close"
        /\ ~[writer[w] EXCEPT !.pc = "close"].failed
    BY <1>b, <2>0, <2>1 DEF Becomes, WriterType, Progress
  <2>3. /\ Pieces' /\ OnePieceEach' /\ Kept /\ DOMAIN files' = DOMAIN files
        /\ \E f \in DOMAIN files' : \E i \in DOMAIN files'[f].pieces :
              files'[f].pieces[i] = <<w, "line">>
    BY <1>0, <2>0, <2>1, <2>2, PutPieces
  <2>4. Progress(w)'
    BY <1>b, <2>0, <2>2, <2>3 DEF Progress
  <2> QED
    BY <1>a, <2>1, <2>3, <2>4
<1>8. ASSUME NEW w \in Writers, Close(w) PROVE FilesInv'
  <2>0. writer[w].pc = "close" /\ UNCHANGED files
    BY <1>8 DEF Close
  <2> DEFINE r == [writer[w] EXCEPT !.pc = "reported"]
  <2>1. Becomes(w, r)
    BY <1>0, <1>8, GotoBecomes DEF Close, Steps
  <2>2. r.pc = "reported" /\ r.failed = writer[w].failed /\ r.fault = writer[w].fault
        /\ writer'[w] = r
    BY <1>b, <2>1 DEF Becomes, WriterType
  <2> HIDE DEF r
  <2>3. Pieces' /\ OnePieceEach' /\ Kept
    BY <1>0, <2>0, <2>1, <2>2, QuietPieces
  <2>4. Progress(w)'
    BY <1>b, <2>0, <2>2 DEF Progress
  <2> QED
    BY <1>a, <2>1, <2>3, <2>4
<1>9. ASSUME NEW w \in Writers, Fault(w) PROVE FilesInv'
  <2>1. PICK pc \in {"close", "reported"} :
          /\ pc = "close" <=> writer[w].pc \in {"check", "append"}
          /\ Becomes(w, [writer[w] EXCEPT !.failed = TRUE, !.fault = writer[w].pc, !.pc = pc])
    BY <1>0, <1>9, FaultBecomes
  <2> DEFINE r == [writer[w] EXCEPT !.failed = TRUE, !.fault = writer[w].pc, !.pc = pc]
  <2>2. /\ Becomes(w, r) /\ writer'[w] = r
        /\ r.pc = pc /\ r.failed = TRUE /\ r.fault = writer[w].pc /\ r.handle = writer[w].handle
    BY <1>b, <2>1 DEF Becomes, WriterType
  <2> HIDE DEF r
  <2>3. /\ writer[w].pc # "reported" /\ writer[w].fault = None
        /\ UNCHANGED files \/ (writer[w].pc = "append" /\ Put(w, "torn"))
    BY <1>9 DEF Fault
  <2>4. CASE UNCHANGED files
    <3>1. Pieces' /\ OnePieceEach' /\ Kept
      BY <1>0, <2>2, <2>3, <2>4, QuietPieces
    <3>2. Progress(w)'
      BY <1>b, <2>1, <2>2, <2>3, <2>4 DEF Progress
    <3> QED
      BY <1>a, <2>2, <3>1, <3>2
  <2>5. CASE writer[w].pc = "append" /\ Put(w, "torn")
    <3>1. Pieces' /\ OnePieceEach' /\ Kept /\ DOMAIN files' = DOMAIN files
      BY <1>0, <2>1, <2>2, <2>5, PutPieces
    <3>2. Progress(w)'
      BY <1>b, <2>1, <2>2, <2>5, <3>1 DEF Progress
    <3> QED
      BY <1>a, <2>2, <3>1, <3>2
  <2> QED
    BY <2>3, <2>4, <2>5
<1>10. CASE Rotate \/ UNCHANGED vars
  <2>1. UNCHANGED <<files, writer>>
    BY <1>10 DEF Rotate, vars
  <2>2. \A w \in Writers : Progress(w)'
    BY <1>b, <2>1 DEF Progress
  <2>3. Pieces'
    BY <1>0, <2>1 DEF FilesInv, Pieces, PieceIsAccountedFor
  <2>4. OnePieceEach'
    BY <1>0, <2>1 DEF FilesInv, OnePieceEach
  <2> QED
    BY <2>2, <2>3, <2>4 DEF FilesInv, Pieces
<1> QED
  BY <1>1, <1>2, <1>3, <1>4, <1>5, <1>6, <1>7, <1>8, <1>9, <1>10 DEF Next, Write

-----------------------------------------------------------------------------
LEMMA StepKeeps ==
    ASSUME TypeOK, FilesInv, NEW w \in Writers, Write(w)
    PROVE  Kept
<1>1. CASE UNCHANGED files
  BY <1>1 DEF Kept
<1>2. CASE files' = Append(files, File("own"))
  BY <1>2, NewFileShape DEF Kept
<1>3. CASE writer[w].pc = "append" /\ \E piece \in {"line", "torn"} : Put(w, piece)
  <2>1. writer[w].handle \in DOMAIN files
    BY <1>3 DEF FilesInv, Progress
  <2> QED
    BY <1>3, <2>1, PutKeeps
<1> QED
  BY <1>1, <1>2, <1>3, OpenBecomes
     DEF Write, MakeRoot, Look, Make, Resolve, Check, AppendLine, Close, Fault

(* w makes at most the directory d, where there was nothing.                 *)
Makes(w, d) ==
    /\ dirs' \in [1..Depth -> {None, "link", "host"} \cup Writers]
    /\ \A e \in (1..Depth) \ {d} : dirs'[e] = dirs[e]
    /\ dirs'[d] = dirs[d] \/ (dirs[d] = None /\ dirs'[d] = w)

LEMMA DisturbedStays ==
    ASSUME TypeOK, Kept, NEW w \in Writers, NEW d \in 1..Depth, Makes(w, d), Undisturbed'
    PROVE  Undisturbed
<1>1. \A e \in 1..Depth : dirs[e] # "link"
  BY NoneAssumption DEF Makes, Undisturbed
<1>2. \A f \in DOMAIN files : files[f].kind = "own"
  BY DEF Kept, Undisturbed
<1> QED
  BY <1>1, <1>2 DEF Undisturbed

(* A step of one write leaves where the others are and why they failed.      *)
LEMMA OthersWalk ==
    ASSUME TypeOK, DirsInv, Kept, NEW w \in Writers, NEW r, Becomes(w, r),
           NEW d \in 1..Depth, Makes(w, d), NEW v \in Writers \ {w}
    PROVE  Walk(v)' /\ Explained(v)'
<1>1. writer'[v] = writer[v] /\ Walk(v) /\ Explained(v)
  BY DEF Becomes, DirsInv
<1>2. /\ writer[v] \in WriterType /\ writer[v].level \in 1..Depth
      /\ writer[v].missing \in {None} \cup 1..Depth
  BY DEF TypeOK, WriterType
<1>3. /\ \A e \in 1..Depth : dirs'[e] = v => dirs[e] = v
      /\ \A e \in 1..Depth : dirs[e] # None => dirs'[e] = dirs[e]
      /\ \A e \in 1..Depth : dirs[e] = None => dirs'[e] \in {None, w}
      /\ None \notin Writers
  BY NoneAssumption DEF Makes
<1>4. Walk(v)'
  <2> DEFINE x == writer[v].level
             m == writer[v].missing
             pc == writer[v].pc
  <2>1. /\ \A e \in 1..Depth : dirs[e] = v => e <= x /\ pc # "idle"
        /\ m # None => /\ m <= x /\ pc # "idle"
                       /\ \A e \in 1..Depth : dirs[e] = v => e <= m
        /\ pc = "idle" => x = 1
        /\ pc \in {"look", "make"} => \A e \in 1..(x - 1) : dirs[e] # None
        /\ pc = "make" => m = x /\ dirs[x] \in {None} \cup (Writers \ {v})
        /\ pc \in {"resolve", "open", "check", "append"} =>
              \A e \in 1..Depth : dirs[e] # None
    BY <1>1 DEF Walk
  <2>2. x \in 1..Depth /\ \A e \in 1..(x - 1) : e \in 1..Depth
    BY <1>2, AuditAssumption
  <2>3. writer'[v].level = x /\ writer'[v].missing = m /\ writer'[v].pc = pc
    BY <1>1
  <2> HIDE DEF x, m, pc
  <2>4. /\ \A e \in 1..Depth : dirs'[e] = v => e <= x /\ pc # "idle"
        /\ m # None => /\ m <= x /\ pc # "idle"
                       /\ \A e \in 1..Depth : dirs'[e] = v => e <= m
    BY <1>3, <2>1
  <2>5. /\ pc \in {"look", "make"} => \A e \in 1..(x - 1) : dirs'[e] # None
        /\ pc \in {"resolve", "open", "check", "append"} =>
              \A e \in 1..Depth : dirs'[e] # None
    BY <1>3, <2>1, <2>2
  <2>6. pc = "make" => m = x /\ dirs'[x] \in {None} \cup (Writers \ {v})
    BY <1>3, <2>1, <2>2
  <2> QED
    BY <2>1, <2>3, <2>4, <2>5, <2>6 DEF Walk
<1>5. Explained(v)'
  <2>1. Undisturbed' => Undisturbed
    BY DisturbedStays
  <2> QED
    BY <1>1, <1>2, <1>3, <2>1 DEF Explained
<1> QED
  BY <1>4, <1>5

(* Nor do the steps from the look at the real paths on change them.          *)
LEMMA LateWalk ==
    ASSUME TypeOK, DirsInv, Kept, UNCHANGED dirs, NEW w \in Writers, NEW r, Becomes(w, r),
           r.level = writer[w].level, r.missing = writer[w].missing,
           r.pc \in {"open", "check", "append", "close", "reported"},
           r.pc \in {"open", "check", "append"} =>
              writer[w].pc \in {"resolve", "open", "check", "append"},
           \/ r.failed = writer[w].failed /\ r.fault = writer[w].fault
           \/ r.fault # None
           \/ ~Undisturbed
    PROVE  DirsInv'
<1>1. ASSUME NEW v \in Writers \ {w} PROVE Walk(v)' /\ Explained(v)'
  <2>1. 1 \in 1..Depth /\ Makes(w, 1)
    BY AuditAssumption DEF Makes, TypeOK
  <2> QED
    BY <2>1, OthersWalk
<1>2. /\ Walk(w) /\ Explained(w) /\ writer'[w] = r
      /\ writer[w].level \in 1..Depth /\ writer[w].missing \in {None} \cup 1..Depth
  BY DEF DirsInv, Becomes, TypeOK, WriterType
<1>3. Walk(w)'
  <2>1. r.pc \notin {"idle", "look", "make", "resolve"}
    OBVIOUS
  <2>2. /\ \A e \in 1..Depth : dirs[e] = w => e <= writer[w].level
        /\ writer[w].missing # None =>
              /\ writer[w].missing <= writer[w].level
              /\ \A e \in 1..Depth : dirs[e] = w => e <= writer[w].missing
        /\ r.pc \in {"open", "check", "append"} => \A e \in 1..Depth : dirs[e] # None
    BY <1>2 DEF Walk
  <2> QED
    BY <1>2, <2>1, <2>2 DEF Walk
<1>4. Explained(w)'
  <2>1. Undisturbed' => Undisturbed
    <3>1. 1 \in 1..Depth /\ Makes(w, 1)
      BY AuditAssumption DEF Makes, TypeOK
    <3> QED
      BY <3>1, DisturbedStays
  <2> QED
    BY <1>2, <2>1 DEF Explained
<1> QED
  BY <1>1, <1>3, <1>4 DEF DirsInv

(* How far each write has walked is kept by every step.                      *)
LEMMA DirsStep == IInv /\ [Next]_vars => DirsInv'
<1> SUFFICES ASSUME IInv, [Next]_vars PROVE DirsInv'
  OBVIOUS
<1>0. /\ TypeOK /\ FilesInv /\ DirsInv
      /\ None \notin Writers /\ None \notin Steps /\ None \notin 1..Depth
      /\ Depth \in Nat \ {0}
  BY NoneAssumption, AuditAssumption DEF IInv
<1>a. ASSUME NEW w \in Writers, NEW r, Becomes(w, r), Kept, NEW d \in 1..Depth, Makes(w, d),
             Walk(w)', Explained(w)'
      PROVE  DirsInv'
  <2>1. \A v \in Writers \ {w} : Walk(v)' /\ Explained(v)'
    BY <1>0, <1>a, OthersWalk
  <2> QED
    BY <1>a, <2>1 DEF DirsInv
<1>b. \A w \in Writers : /\ writer[w] \in WriterType /\ Walk(w) /\ Explained(w) /\ Progress(w)
                        /\ writer[w].level \in 1..Depth
                        /\ writer[w].missing \in {None} \cup 1..Depth
  BY <1>0 DEF FilesInv, DirsInv, TypeOK, WriterType
<1>c. \A w \in Writers : Write(w) => Kept
  BY <1>0, StepKeeps
<1>1. ASSUME NEW w \in Writers, MakeRoot(w) PROVE DirsInv'
  <2>1. Becomes(w, [writer[w] EXCEPT !.pc = "look"]) /\ writer[w].pc = "idle"
    BY <1>0, <1>1, GotoBecomes DEF MakeRoot, Steps
  <2>2. /\ writer'[w].pc = "look" /\ writer'[w].level = writer[w].level
        /\ writer'[w].missing = writer[w].missing /\ ~writer'[w].failed
    BY <1>b, <2>1 DEF Becomes, WriterType, Progress
  <2>3. 1 \in 1..Depth /\ Makes(w, 1) /\ dirs'[1] # None
    BY <1>0, <1>1 DEF MakeRoot, Makes, TypeOK
  <2>4. /\ \A e \in 1..Depth : dirs[e] # w
        /\ writer[w].missing = None
    BY <1>b, <2>1 DEF Walk
  <2>5. \A e \in 1..Depth : dirs'[e] = w => e = 1
    BY <2>3, <2>4 DEF Makes
  <2>6. Walk(w)'
    BY <1>b, <2>1, <2>2, <2>4, <2>5 DEF Walk
  <2>7. Explained(w)'
    BY <2>2 DEF Explained
  <2>8. Kept
    BY <1>1 DEF MakeRoot, Kept
  <2> QED
    BY <1>a, <2>1, <2>3, <2>6, <2>7, <2>8
<1>2. ASSUME NEW w \in Writers, Look(w) PROVE DirsInv'
  <2>1. /\ writer[w].pc = "look" /\ UNCHANGED dirs /\ Kept /\ 1 \in 1..Depth /\ Makes(w, 1)
        /\ ~writer[w].failed
    BY <1>0, <1>2, <1>b DEF Look, Kept, Makes, TypeOK, Progress
  <2> DEFINE d == writer[w].level
  <2>2. ASSUME dirs[d] = None, Becomes(w, [writer[w] EXCEPT !.pc = "make", !.missing = d])
        PROVE  DirsInv'
    <3>1. /\ writer'[w].pc = "make" /\ writer'[w].level = d
          /\ writer'[w].missing = d /\ ~writer'[w].failed
      BY <1>b, <2>1, <2>2 DEF Becomes, WriterType
    <3>2. Walk(w)'
      BY <1>b, <2>1, <2>2, <3>1 DEF Walk
    <3>3. Explained(w)'
      BY <3>1 DEF Explained
    <3> QED
      BY <1>a, <2>1, <2>2, <3>2, <3>3
  <2>3. ASSUME dirs[d] = "link",
               Becomes(w, [writer[w] EXCEPT !.pc = "reported", !.failed = TRUE])
        PROVE  DirsInv'
    <3> DEFINE r == [writer[w] EXCEPT !.pc = "reported", !.failed = TRUE]
    <3>1. r.level = d /\ r.missing = writer[w].missing /\ r.pc = "reported"
      BY <1>b DEF WriterType
    <3>2. ~Undisturbed
      BY <1>b, <2>3 DEF Undisturbed
    <3> HIDE DEF r
    <3>3. Becomes(w, r)
      BY <2>3 DEF r
    <3> QED
      BY <1>0, <2>1, <3>1, <3>2, <3>3, LateWalk
  <2>4. ASSUME d = Depth, dirs[d] # None, Becomes(w, [writer[w] EXCEPT !.pc = "resolve"])
        PROVE  DirsInv'
    <3>1. /\ writer'[w].pc = "resolve" /\ writer'[w].level = d
          /\ writer'[w].missing = writer[w].missing /\ ~writer'[w].failed
      BY <1>b, <2>1, <2>4 DEF Becomes, WriterType
    <3>2. \A e \in 1..Depth : dirs[e] # None
      BY <1>0, <1>b, <2>1, <2>4 DEF Walk
    <3>3. Walk(w)'
      BY <1>b, <2>1, <3>1, <3>2 DEF Walk
    <3>4. Explained(w)'
      BY <3>1 DEF Explained
    <3> QED
      BY <1>a, <2>1, <2>4, <3>3, <3>4
  <2>5. ASSUME dirs[d] # None, Becomes(w, [writer[w] EXCEPT !.level = d + 1])
        PROVE  DirsInv'
    <3>1. /\ writer'[w].pc = "look" /\ writer'[w].level = d + 1
          /\ writer'[w].missing = writer[w].missing /\ ~writer'[w].failed
      BY <1>b, <2>1, <2>5 DEF Becomes, WriterType
    <3>2. \A e \in 1..d : dirs[e] # None
      BY <1>b, <2>1, <2>5 DEF Walk
    <3>3. Walk(w)'
      BY <1>b, <2>1, <3>1, <3>2 DEF Walk
    <3>4. Explained(w)'
      BY <3>1 DEF Explained
    <3> QED
      BY <1>a, <2>1, <2>5, <3>3, <3>4
  <2> QED
    BY <1>0, <1>2, <2>2, <2>3, <2>4, <2>5, LookBecomes
<1>3. ASSUME NEW w \in Writers, Make(w) PROVE DirsInv'
  <2> DEFINE d == writer[w].level
  <2>1. writer[w].pc = "make" /\ Kept /\ ~writer[w].failed
    BY <1>3, <1>b DEF Make, Kept, Progress
  <2>2. /\ writer[w].missing = d /\ dirs[d] \in {None} \cup (Writers \ {w})
        /\ \A e \in 1..Depth : dirs[e] = w => e <= d
        /\ \A e \in 1..(d - 1) : dirs[e] # None
    BY <1>b, <2>1 DEF Walk
  <2>3. CASE dirs[d] = None
    <3>1. dirs' = [dirs EXCEPT ![d] = w] /\ Becomes(w, [writer[w] EXCEPT !.pc = "look"])
      BY <1>0, <1>3, <2>3, GotoBecomes DEF Make, Steps
    <3>2. /\ writer'[w].pc = "look" /\ writer'[w].level = d
          /\ writer'[w].missing = d /\ ~writer'[w].failed
      BY <1>b, <2>1, <2>2, <3>1 DEF Becomes, WriterType
    <3>3. Makes(w, d)
      BY <1>0, <1>b, <2>3, <3>1 DEF Makes, TypeOK
    <3>4. Walk(w)'
      BY <1>0, <1>b, <2>2, <3>2, <3>3 DEF Walk, Makes
    <3>5. Explained(w)'
      BY <3>2 DEF Explained
    <3> QED
      BY <1>a, <1>b, <2>1, <3>1, <3>3, <3>4, <3>5
  <2>4. CASE dirs[d] # None
    <3>1. UNCHANGED dirs /\ Becomes(w, [writer[w] EXCEPT !.pc = "reported", !.failed = TRUE])
      BY <1>0, <1>3, <2>4, ThrowBecomes DEF Make
    <3>2. writer'[w].pc = "reported" /\ writer'[w].level = d /\ writer'[w].missing = d
      BY <1>b, <2>2, <3>1 DEF Becomes, WriterType
    <3>3. 1 \in 1..Depth /\ Makes(w, 1)
      BY <1>0, <3>1 DEF Makes, TypeOK
    <3>4. Walk(w)'
      BY <1>b, <2>2, <3>1, <3>2 DEF Walk
    <3>5. Explained(w)'
      BY <1>0, <1>b, <2>2, <2>4, <3>1, <3>2 DEF Explained
    <3> QED
      BY <1>a, <2>1, <3>1, <3>3, <3>4, <3>5
  <2> QED
    BY <2>3, <2>4
<1>4. ASSUME NEW w \in Writers, Resolve(w) PROVE DirsInv'
  <2>1. writer[w].pc = "resolve" /\ Kept /\ UNCHANGED dirs
    BY <1>4 DEF Resolve, Kept
  <2>2. \A e \in 1..Depth : dirs[e] # None
    BY <1>b, <2>1 DEF Walk
  <2>3. CASE Goto(w, "open")
    <3> DEFINE r == [writer[w] EXCEPT !.pc = "open"]
    <3>1. Becomes(w, r)
      BY <1>0, <2>3, GotoBecomes DEF Steps
    <3>2. /\ r.pc = "open" /\ r.level = writer[w].level /\ r.missing = writer[w].missing
          /\ r.failed = writer[w].failed /\ r.fault = writer[w].fault
      BY <1>b DEF WriterType
    <3> HIDE DEF r
    <3> QED
      BY <1>0, <2>1, <3>1, <3>2, LateWalk
  <2>4. CASE Throw(w) /\ \E e \in 1..Depth : dirs[e] \in {None, "link"}
    <3> DEFINE r == [writer[w] EXCEPT !.pc = "reported", !.failed = TRUE]
    <3>1. Becomes(w, r)
      BY <1>0, <2>4, ThrowBecomes
    <3>2. r.pc = "reported" /\ r.level = writer[w].level /\ r.missing = writer[w].missing
      BY <1>b DEF WriterType
    <3>3. ~Undisturbed
      BY <2>2, <2>4 DEF Undisturbed
    <3> HIDE DEF r
    <3> QED
      BY <1>0, <2>1, <3>1, <3>2, <3>3, LateWalk
  <2> QED
    BY <1>4, <2>3, <2>4 DEF Resolve
<1>5. ASSUME NEW w \in Writers, Open(w), Kept PROVE DirsInv'
  <2>1. writer[w].pc = "open" /\ UNCHANGED dirs
    BY <1>5 DEF Open
  <2>2. ASSUME NEW n, Becomes(w, [writer[w] EXCEPT !.pc = "check", !.handle = n])
        PROVE  DirsInv'
    <3> DEFINE r == [writer[w] EXCEPT !.pc = "check", !.handle = n]
    <3>1. /\ r.pc = "check" /\ r.level = writer[w].level /\ r.missing = writer[w].missing
          /\ r.failed = writer[w].failed /\ r.fault = writer[w].fault
      BY <1>b DEF WriterType
    <3>2. Becomes(w, r)
      BY <2>2
    <3> HIDE DEF r
    <3> QED
      BY <1>0, <1>5, <2>1, <3>1, <3>2, LateWalk
  <2>3. ASSUME at \in DOMAIN files, files[at].kind = "symlink",
               Becomes(w, [writer[w] EXCEPT !.pc = "reported", !.failed = TRUE])
        PROVE  DirsInv'
    <3> DEFINE r == [writer[w] EXCEPT !.pc = "reported", !.failed = TRUE]
    <3>1. r.pc = "reported" /\ r.level = writer[w].level /\ r.missing = writer[w].missing
      BY <1>b DEF WriterType
    <3>2. ~Undisturbed
      BY <2>3 DEF Undisturbed
    <3>3. Becomes(w, r)
      BY <2>3
    <3> HIDE DEF r
    <3> QED
      BY <1>0, <1>5, <2>1, <3>1, <3>2, <3>3, LateWalk
  <2> QED
    BY <1>0, <1>5, <2>2, <2>3, OpenBecomes
<1>6. ASSUME NEW w \in Writers, Check(w) PROVE DirsInv'
  <2>1. /\ writer[w].pc = "check" /\ Kept /\ UNCHANGED dirs
        /\ writer[w].handle \in DOMAIN files
    BY <1>6, <1>b DEF Check, Kept, Progress
  <2>2. CASE Becomes(w, [writer[w] EXCEPT !.pc = "append"])
    <3> DEFINE r == [writer[w] EXCEPT !.pc = "append"]
    <3>1. /\ r.pc = "append" /\ r.level = writer[w].level /\ r.missing = writer[w].missing
          /\ r.failed = writer[w].failed /\ r.fault = writer[w].fault
      BY <1>b DEF WriterType
    <3>2. Becomes(w, r)
      BY <2>2
    <3> HIDE DEF r
    <3> QED
      BY <1>0, <2>1, <3>1, <3>2, LateWalk
  <2>3. ASSUME files[writer[w].handle].kind # "own",
               Becomes(w, [writer[w] EXCEPT !.pc = "close", !.failed = TRUE])
        PROVE  DirsInv'
    <3> DEFINE r == [writer[w] EXCEPT !.pc = "close", !.failed = TRUE]
    <3>1. r.pc = "close" /\ r.level = writer[w].level /\ r.missing = writer[w].missing
      BY <1>b DEF WriterType
    <3>2. ~Undisturbed
      BY <2>1, <2>3 DEF Undisturbed
    <3>3. Becomes(w, r)
      BY <2>3
    <3> HIDE DEF r
    <3> QED
      BY <1>0, <2>1, <3>1, <3>2, <3>3, LateWalk
  <2> QED
    BY <1>0, <1>6, <2>2, <2>3, CheckBecomes
<1>7. ASSUME NEW w \in Writers, NEW from \in {"append", "close"}, writer[w].pc = from,
             NEW pc \in {"close", "reported"}, Goto(w, pc), Kept, UNCHANGED dirs
      PROVE  DirsInv'
  <2> DEFINE r == [writer[w] EXCEPT !.pc = pc]
  <2>1. /\ r.pc = pc /\ r.level = writer[w].level /\ r.missing = writer[w].missing
        /\ r.failed = writer[w].failed /\ r.fault = writer[w].fault
    BY <1>b DEF WriterType
  <2>2. Becomes(w, r)
    BY <1>0, <1>7, GotoBecomes DEF Steps
  <2> HIDE DEF r
  <2> QED
    BY <1>0, <1>7, <2>1, <2>2, LateWalk
<1>8. ASSUME NEW w \in Writers, Fault(w), Kept PROVE DirsInv'
  <2>1. PICK pc \in {"close", "reported"} :
          Becomes(w, [writer[w] EXCEPT !.failed = TRUE, !.fault = writer[w].pc, !.pc = pc])
    BY <1>0, <1>8, FaultBecomes
  <2> DEFINE r == [writer[w] EXCEPT !.failed = TRUE, !.fault = writer[w].pc, !.pc = pc]
  <2>2. /\ r.pc = pc /\ r.level = writer[w].level /\ r.missing = writer[w].missing
        /\ r.fault = writer[w].pc /\ writer[w].pc \in Steps
    BY <1>b DEF WriterType
  <2>3. Becomes(w, r)
    BY <2>1
  <2>4. UNCHANGED dirs
    BY <1>8 DEF Fault
  <2> HIDE DEF r
  <2> QED
    BY <1>0, <1>8, <2>2, <2>3, <2>4, LateWalk
<1>9. CASE Rotate \/ UNCHANGED vars
  <2>1. UNCHANGED <<dirs, files, writer>>
    BY <1>9 DEF Rotate, vars
  <2> QED
    BY <1>0, <2>1 DEF DirsInv, Walk, Explained, Undisturbed
<1> QED
  <2>1. ASSUME NEW w \in Writers, AppendLine(w), Kept PROVE DirsInv'
    BY <1>7, <2>1 DEF AppendLine
  <2>2. ASSUME NEW w \in Writers, Close(w), Kept PROVE DirsInv'
    BY <1>7, <2>2 DEF Close
  <2> QED
    BY <1>1, <1>2, <1>3, <1>4, <1>5, <1>6, <1>8, <1>9, <1>c, <2>1, <2>2 DEF Next, Write

-----------------------------------------------------------------------------
LEMMA Invariance == Spec => []IInv
<1>1. IInv /\ [Next]_vars => IInv'
  BY TypeStep, FilesStep, DirsStep DEF IInv
<1> QED
  BY InitSound, <1>1, PTL DEF Spec

(* What every write reports is true: see ReportIsTrue.  The lines of a write  *)
(* are at most one piece of one file, and a file that an append broke off in  *)
(* is one of a write with that fault.                                         *)
THEOREM ReportsAreTrue == Spec => []ReportIsTrue
<1>1. IInv => ReportIsTrue
  <2> SUFFICES ASSUME IInv, NEW w \in Writers
               PROVE  LET lines == Standing(w, "line")
                      IN  /\ \A p \in lines : files[p[1]].kind = "own"
                          /\ Cardinality(lines) <= 1
                          /\ writer[w].pc = "reported" /\ ~writer[w].failed =>
                                /\ lines # {}
                                /\ \A p \in lines : \/ Intact(p)
                                                    \/ \E v \in Writers : writer[v].fault = "append"
                          /\ writer[w].pc = "reported" /\ writer[w].failed /\ lines # {} =>
                                writer[w].fault = "close"
    BY DEF ReportIsTrue
  <2> DEFINE lines == Standing(w, "line")
  <2>0. TypeOK /\ Progress(w) /\ Pieces /\ OnePieceEach
    BY DEF IInv, FilesInv, Pieces
  <2>1. ASSUME NEW p \in lines
        PROVE  /\ p = <<p[1], p[2]>> /\ p[1] \in DOMAIN files
               /\ p[2] \in DOMAIN files[p[1]].pieces
               /\ files[p[1]].pieces[p[2]] = <<w, "line">>
    BY DEF Standing
  <2>2. ASSUME NEW f \in DOMAIN files, NEW i \in DOMAIN files[f].pieces,
               files[f].pieces[i] = <<w, "line">>
        PROVE  <<f, i>> \in lines
    BY <2>2 DEF Standing
  <2>3. ASSUME NEW p \in lines
        PROVE  files[p[1]].kind = "own" /\ (writer[w].failed => writer[w].fault = "close")
    BY <2>0, <2>1 DEF Pieces, PieceIsAccountedFor
  <2>4. \A p, q \in lines : p = q
    BY <2>0, <2>1 DEF OnePieceEach
  <2>5. ASSUME NEW p \in lines PROVE Intact(p) \/ \E v \in Writers : writer[v].fault = "append"
    <3> DEFINE f == p[1]
               i == p[2] - 1
    <3>1. CASE p[2] = 1
      BY <3>1 DEF Intact
    <3>2. CASE p[2] # 1
      <4>1. files[f] \in FileType
        BY <2>0, <2>1 DEF TypeOK
      <4>2. files[f].pieces \in Seq(Writers \X {"line", "torn"})
        BY <4>1 DEF FileType
      <4>3. i \in DOMAIN files[f].pieces
        BY <2>1, <3>2, <4>2
      <4>4. /\ files[f].pieces[i][1] \in Writers
            /\ files[f].pieces[i][2] \in {"line", "torn"}
            /\ PieceIsAccountedFor(f, i)
        BY <2>0, <2>1, <4>3, PieceType DEF Pieces
      <4> QED
        BY <4>4 DEF Intact, PieceIsAccountedFor
    <3> QED
      BY <3>1, <3>2
  <2>6. writer[w].pc = "reported" /\ ~writer[w].failed => lines # {}
    <3>1. ASSUME writer[w].pc = "reported", ~writer[w].failed PROVE lines # {}
      <4>1. PICK f \in DOMAIN files : \E i \in DOMAIN files[f].pieces :
              files[f].pieces[i] = <<w, "line">>
        BY <2>0, <3>1 DEF Progress
      <4> QED
        BY <2>2, <4>1
    <3> QED
      BY <3>1
  <2>7. Cardinality(lines) <= 1
    <3>1. CASE lines = {}
      BY <3>1, FS_EmptySet
    <3>2. CASE lines # {}
      <4>1. PICK p \in lines : TRUE
        BY <3>2
      <4>2. lines = {p}
        BY <2>4, <4>1
      <4> QED
        BY <4>2, FS_Singleton
    <3> QED
      BY <3>1, <3>2
  <2> QED
    BY <2>3, <2>5, <2>6, <2>7
<1> QED
  BY Invariance, <1>1, PTL

(* A last directory of a nonempty set of them.                               *)
LEMMA LastDirectory ==
    ASSUME NEW D \in SUBSET (1..Depth), D # {}
    PROVE  \E d \in D : \A e \in D : e <= d
<1> DEFINE above(d) == (d + 1)..Depth
           tails == {above(d) : d \in D}
           R == StrictSubsetOrdering(1..Depth)
<1>1. Depth \in Nat /\ IsFiniteSet(1..Depth)
  BY AuditAssumption, FS_Interval
<1>2. IsWellFoundedOn(R, FiniteSubsetsOf(1..Depth))
  BY <1>1, FS_StrictSubsetOrderingWellFounded
<1>3. \A d \in D : above(d) \subseteq 1..Depth /\ IsFiniteSet(above(d))
  <2> TAKE d \in D
  <2>1. d \in 1..Depth /\ above(d) \subseteq 1..Depth
    BY <1>1
  <2> QED
    BY <1>1, <2>1, FS_Subset
<1>4. tails \subseteq FiniteSubsetsOf(1..Depth) /\ tails # {}
  BY <1>3 DEF FiniteSubsetsOf
<1>5. PICK T \in tails : \A U \in tails : <<U, T>> \notin R
  BY <1>2, <1>4, WFMin
<1>6. PICK d \in D : T = above(d)
  BY <1>5
<1>7. ASSUME NEW e \in D, d < e PROVE FALSE
  <2>1. above(e) \subseteq above(d) /\ e \in above(d) /\ e \notin above(e)
    BY <1>1, <1>7
  <2>2. <<above(e), above(d)>> \in R
    BY <1>3, <2>1 DEF StrictSubsetOrdering
  <2> QED
    BY <1>5, <1>6, <2>2
<1> QED
  BY <1>1, <1>7

(* What is lost is explained: see LossIsExplained.  If every write were lost  *)
(* to another's directory, the one that made the last of them would have been *)
(* lost to a directory further down.                                          *)
THEOREM LossesAreExplained == Spec => []LossIsExplained
<1>1. IInv => LossIsExplained
  <2> SUFFICES ASSUME IInv, Undisturbed
               PROVE  /\ \A w \in Writers :
                            writer[w].failed /\ writer[w].fault = None =>
                                /\ writer[w].missing # None
                                /\ dirs[writer[w].missing] \in Writers \ {w}
                      /\ (\A w \in Writers : writer[w].pc = "reported" /\ writer[w].fault = None) =>
                            \E w \in Writers : ~writer[w].failed
    BY DEF LossIsExplained
  <2>1. \A w \in Writers :
          writer[w].failed /\ writer[w].fault = None =>
              writer[w].missing # None /\ dirs[writer[w].missing] \in Writers \ {w}
    BY DEF IInv, DirsInv, Explained
  <2>2. ASSUME \A w \in Writers : writer[w].fault = None, \A w \in Writers : writer[w].failed
        PROVE  FALSE
    <3> DEFINE D == {d \in 1..Depth : dirs[d] \in Writers}
    <3>1. \A w \in Writers : /\ writer[w].missing \in D
                            /\ dirs[writer[w].missing] # w
      BY <2>1, <2>2 DEF IInv, TypeOK, WriterType
    <3>2. D # {} /\ D \in SUBSET (1..Depth)
      BY <3>1, WritersAssumption
    <3>3. PICK d \in D : \A e \in D : e <= d
      BY <3>2, LastDirectory
    <3>4. PICK v \in Writers : dirs[d] = v
      BY <3>3
    <3>5. writer[v].missing \in D /\ writer[v].missing <= d /\ writer[v].missing # d
      BY <3>1, <3>3, <3>4
    <3>6. d <= writer[v].missing
      BY <2>1, <2>2, <3>3, <3>4 DEF IInv, DirsInv, Walk
    <3> QED
      BY <3>2, <3>3, <3>5, <3>6
  <2> QED
    BY <2>1, <2>2
<1> QED
  BY Invariance, <1>1, PTL
=============================================================================
