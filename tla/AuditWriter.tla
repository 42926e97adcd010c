------------------------------ MODULE AuditWriter ------------------------------
(* The audit writer (src/src/audit.js, createAuditWriter) as the hooks use it:   *)
(* every write walks down from the root of the logs, makes directories that are *)
(* missing, opens the file to append, checks what it got, adds its line and     *)
(* closes.  Writes of different hooks interleave between any two of these calls *)
(* of the file system, each of which may fail, and the file may be rotated.     *)
(*                                                                              *)
(* Nobody but the writers changes the directories while a write is under way,   *)
(* and no hard link is added to a file that is open.                            *)
EXTENDS Naturals, Sequences, FiniteSets

CONSTANTS
    Writers,         \* writes, one of each hook
    Depth,           \* directories from the root (1) down to the parent of the file
    MaxFaults,       \* bound: calls of the file system that fail
    MaxRotations,    \* bound: how often the file is moved away
    None

(* The calls of the file system in their order, before, between and after.    *)
Steps == {"idle", "look", "make", "resolve", "open", "check", "append", "close", "reported"}

ASSUME AuditAssumption == Depth \in Nat \ {0} /\ MaxFaults \in Nat /\ MaxRotations \in Nat
ASSUME WritersAssumption == Writers # {} /\ Writers \cap {"host", "link"} = {}
ASSUME NoneAssumption ==
    None \notin Writers /\ None \notin Steps /\ None \notin {"host", "link"}
    /\ None \notin 1..Depth

VARIABLES
    dirs,      \* for each directory None, "link" (no directory) or who made it
    files,     \* every file that has been at the path: [kind, pieces]
    at,        \* which of them is there now, 0 for none
    writer,    \* [pc, level, missing, handle, failed, fault]: the writes
    rotations

vars == <<dirs, files, at, writer, rotations>>

(* What stat tells of a file, and a symbolic link, which is never followed. *)
FileKinds == {"own", "linked twice", "not a file", "foreign", "symlink"}
File(kind) == [kind |-> kind, pieces |-> << >>]

Init ==
    /\ \E n \in 0..Depth, bad \in {None, "link"} :
          /\ dirs = [d \in 1..Depth |-> CASE d <= n -> "host"
                                          [] d = n + 1 -> bad
                                          [] OTHER -> None]
          /\ \/ files = << >> /\ at = 0
             \/ n = Depth /\ at = 1 /\ \E kind \in FileKinds : files = <<File(kind)>>
    /\ writer = [w \in Writers |-> [pc |-> "idle", level |-> 1, missing |-> None,
                                    handle |-> 0, failed |-> FALSE, fault |-> None]]
    /\ rotations = 0

-----------------------------------------------------------------------------
Goto(w, pc) == writer' = [writer EXCEPT ![w].pc = pc]

(* A throw before the file is open, which ends in the report. *)
Throw(w) == writer' = [writer EXCEPT ![w].pc = "reported", ![w].failed = TRUE]

(* Mutant: the root is made as the directories below it are. *)
MakeRootOnce(w) ==
    /\ writer[w].pc = "idle"
    /\ IF dirs[1] = None THEN Goto(w, "look") /\ dirs' = [dirs EXCEPT ![1] = w]
                         ELSE Throw(w) /\ UNCHANGED dirs
    /\ UNCHANGED <<files, at>>

(* mkdir of the root is recursive and does not mind that it exists. *)
MakeRoot(w) ==
    /\ writer[w].pc = "idle"
    /\ Goto(w, "look")
    /\ dirs' = IF dirs[1] = None THEN [dirs EXCEPT ![1] = w] ELSE dirs
    /\ UNCHANGED <<files, at>>

(* lstat of the next directory: what is missing is made, what is no          *)
(* directory ends the write.                                                 *)
Look(w) ==
    LET d == writer[w].level
    IN  /\ writer[w].pc = "look"
        /\ \/ dirs[d] = None /\ writer' = [writer EXCEPT ![w].pc = "make", ![w].missing = d]
           \/ dirs[d] = "link" /\ Throw(w)
           \/ /\ dirs[d] \in Writers \cup {"host"}
              /\ IF d = Depth THEN Goto(w, "resolve")
                              ELSE writer' = [writer EXCEPT ![w].level = d + 1]
        /\ UNCHANGED <<dirs, files, at>>

(* mkdir of one directory does mind, and its EEXIST is no ENOENT. *)
Make(w) ==
    LET d == writer[w].level
    IN  /\ writer[w].pc = "make"
        /\ IF dirs[d] = None THEN Goto(w, "look") /\ dirs' = [dirs EXCEPT ![d] = w]
                             ELSE Throw(w) /\ UNCHANGED dirs
        /\ UNCHANGED <<files, at>>

(* The real paths of root and parent, asked for at once. *)
Resolve(w) ==
    /\ writer[w].pc = "resolve"
    /\ IF \E d \in 1..Depth : dirs[d] \in {None, "link"} THEN Throw(w) ELSE Goto(w, "open")
    /\ UNCHANGED <<dirs, files, at>>

Open(w) ==
    /\ writer[w].pc = "open"
    /\ IF at = 0
       THEN /\ files' = Append(files, File("own")) /\ at' = Len(files) + 1
            /\ writer' = [writer EXCEPT ![w].pc = "check", ![w].handle = at']
       ELSE /\ IF files[at].kind = "symlink" THEN Throw(w)
               ELSE writer' = [writer EXCEPT ![w].pc = "check", ![w].handle = at]
            /\ UNCHANGED <<files, at>>
    /\ UNCHANGED dirs

(* Mutant: links are not counted. *)
CheckWithoutLinks(w) ==
    /\ writer[w].pc = "check"
    /\ IF files[writer[w].handle].kind \in {"own", "linked twice"} THEN Goto(w, "append")
       ELSE writer' = [writer EXCEPT ![w].pc = "close", ![w].failed = TRUE]
    /\ UNCHANGED <<dirs, files, at>>

Check(w) ==
    /\ writer[w].pc = "check"
    /\ IF files[writer[w].handle].kind = "own" THEN Goto(w, "append")
       ELSE writer' = [writer EXCEPT ![w].pc = "close", ![w].failed = TRUE]
    /\ UNCHANGED <<dirs, files, at>>

Put(w, piece) == files' = [files EXCEPT ![writer[w].handle].pieces = Append(@, <<w, piece>>)]

(* O_APPEND: a line goes in whole, wherever the end of the file is by now. *)
AppendLine(w) ==
    writer[w].pc = "append" /\ Put(w, "line") /\ Goto(w, "close") /\ UNCHANGED <<dirs, at>>

Close(w) == writer[w].pc = "close" /\ Goto(w, "reported") /\ UNCHANGED <<dirs, files, at>>

(* A call of the file system fails.  An append may have written a part, a    *)
(* close has written what the append wrote.                                  *)
Fault(w) ==
    LET pc == writer[w].pc
    IN  /\ pc # "reported"
        /\ Cardinality({v \in Writers : writer[v].fault # None}) < MaxFaults
        /\ writer[w].fault = None
        /\ writer' = [writer EXCEPT ![w].failed = TRUE, ![w].fault = pc,
                         ![w].pc = IF pc \in {"check", "append"} THEN "close" ELSE "reported"]
        /\ UNCHANGED files \/ (pc = "append" /\ Put(w, "torn"))
        /\ UNCHANGED <<dirs, at>>

(* The operator moves the file away; who has it open goes on writing to it.  *)
Rotate ==
    /\ at # 0 /\ rotations < MaxRotations
    /\ at' = 0 /\ rotations' = rotations + 1
    /\ UNCHANGED <<dirs, files, writer>>

Write(w) ==
    /\ \/ MakeRoot(w) \/ Look(w) \/ Make(w) \/ Resolve(w) \/ Open(w) \/ Check(w)
       \/ AppendLine(w) \/ Close(w) \/ Fault(w)
    /\ UNCHANGED rotations

Next == Rotate \/ \E w \in Writers : Write(w)

Spec == Init /\ [][Next]_vars

-----------------------------------------------------------------------------
(* Where the piece of a write stands: <<file, position>>. *)
Standing(w, piece) ==
    {p \in UNION {{f} \X DOMAIN files[f].pieces : f \in DOMAIN files} :
        files[p[1]].pieces[p[2]] = <<w, piece>>}

Intact(p) == p[2] = 1 \/ files[p[1]].pieces[p[2] - 1][2] = "line"

(* A write that reports success has put its line once into a regular file of *)
(* this user with no other name, and the line can be read, unless an append  *)
(* that broke off stands before it; one that reports failure has left a line *)
(* only when the close failed.                                               *)
ReportIsTrue ==
    \A w \in Writers :
        LET lines == Standing(w, "line")
        IN  /\ \A p \in lines : files[p[1]].kind = "own"
            /\ Cardinality(lines) <= 1
            /\ writer[w].pc = "reported" /\ ~writer[w].failed =>
                  /\ lines # {}
                  /\ \A p \in lines : Intact(p) \/ \E v \in Writers : writer[v].fault = "append"
            /\ writer[w].pc = "reported" /\ writer[w].failed /\ lines # {} =>
                  writer[w].fault = "close"

Undisturbed ==
    /\ \A d \in 1..Depth : dirs[d] # "link"
    /\ \A f \in DOMAIN files : files[f].kind = "own"

(* An event is lost only to a fault, to something else in the place of the    *)
(* directory or the file, or to another write that made a directory between  *)
(* the two looks of this one: and then one of the writes does get through.   *)
LossIsExplained ==
    Undisturbed =>
        /\ \A w \in Writers :
              writer[w].failed /\ writer[w].fault = None =>
                  /\ writer[w].missing # None
                  /\ dirs[writer[w].missing] \in Writers \ {w}
        /\ (\A w \in Writers : writer[w].pc = "reported" /\ writer[w].fault = None) =>
              \E w \in Writers : ~writer[w].failed
=============================================================================
