---------------------------- MODULE SessionFiles ----------------------------
(***************************************************************************)
(* The virtual file system of one SSH session (honeypot/core/session.py)   *)
(* and the operations the fake shell performs on it                        *)
(* (honeypot/core/engine.py).  Nothing here touches the host: a session    *)
(* starts with the persona's files and the visitor changes its own copy.   *)
(*                                                                         *)
(* An absolute path is a sequence of names, the root is << >>; an operand  *)
(* as typed starts with "/" or "~", or is relative to the working          *)
(* directory, and may hold "." and "..".  The text of a file is a sequence *)
(* of tokens, so that its length and where a piece of it came from are     *)
(* known; a token is a sequence of words.  An error message, which prints  *)
(* its operand back as typed, is one token.  A session is a record, and an *)
(* operation maps it to a new one with the text it prints and whether it   *)
(* succeeded.  The field `taken` is history: the decoys whose text the     *)
(* visitor copied, redirected or added to, or ran.                         *)
(***************************************************************************)
EXTENDS Integers, Sequences, FiniteSets, TLC, FiniteSetsExt, SequencesExt

CONSTANTS Persona,     \* the persona's files: a function from paths to texts
          Home,        \* its home directory
          Programs,    \* the programs it has, without and with BusyBox
          StartDirs,   \* the directories a session starts with
          DotNames,    \* the names that start with a dot
          MaxWritten   \* _MAX_WRITTEN_CHARS, in tokens

NewSession(busybox) ==
    [busybox |-> busybox, files |-> Persona, dirs |-> StartDirs, written |-> {},
     exec |-> {}, cwd |-> Home, surfaced |-> {}, taken |-> {}]

Elf == <<"ELF">>        \* how the text of a program starts
Error == <<"error">>    \* a message of the shell or of a program

\* The decoys a text gives away: by their names in a listing or by their
\* contents, encoded or not.  A name that ls only repeats gives nothing away.
Reveals(text) ==
    {p \in DOMAIN Persona : \E i \in DOMAIN text :
        \/ text[i] = <<"name">> \o p
        \/ \E j \in DOMAIN Persona[p] :
              text[i] \in {Persona[p][j], <<"base64">> \o Persona[p][j]}}

Answer(s, text, ok) == [s |-> s, text |-> text, ok |-> ok]
Fail(s) == Answer(s, <<Error>>, FALSE)
Done(s) == Answer(s, <<>>, TRUE)
ErrorIf(failed) == IF failed THEN <<Error>> ELSE <<>>

-----------------------------------------------------------------------------
(* Paths and what is at them.                                              *)

ResolvePath(s, operand) ==
    LET raw == IF operand = <<>> THEN s.cwd
               ELSE IF Head(operand) = "/" THEN Tail(operand)
               ELSE IF Head(operand) = "~" THEN Home \o Tail(operand)
               ELSE s.cwd \o operand
        Walk(path, part) == IF part = "." THEN path
                            ELSE IF part # ".." THEN Append(path, part)
                            ELSE IF path = <<>> THEN path ELSE Front(path)
    IN  FoldLeft(Walk, <<>>, raw)

Parent(path) == IF path = <<>> THEN path ELSE Front(path)
Inside(path, items) == {p \in items : IsStrictPrefix(path, p)}
Files(s) == DOMAIN s.files

SystemPrograms(s) ==
    {<<"bin", n>> : n \in Programs[s.busybox]} \cup {<<"usr", "bin", n>> : n \in Programs[s.busybox]}

\* _build_listings: a file makes the directories above it, a directory itself
\* as well.
Directories(s) ==
    {<<>>, <<"bin">>, <<"usr">>, <<"usr", "bin">>}
        \cup UNION {{SubSeq(p, 1, i) : i \in 0..(Len(p) - 1)} : p \in Files(s)}
        \cup UNION {{SubSeq(p, 1, i) : i \in 0..Len(p)} : p \in s.dirs}

Listing(s, path) ==
    {p[Len(path) + 1] : p \in Inside(path, Files(s) \cup s.dirs \cup SystemPrograms(s))}
        \cup (IF path = <<>> THEN {"boot", "dev", "etc", "home", "tmp", "var"} ELSE {})

Kind(s, path) ==
    IF path \in Directories(s) THEN "dir"
    ELSE IF path \in Files(s) \cup SystemPrograms(s) THEN "file" ELSE "none"

-----------------------------------------------------------------------------
(* Reading.                                                                *)

(* Mutant: listing a directory or reading a file records nothing. *)
RecordNothing(s, paths) == s
(* Mutant: a file the visitor wrote is recorded as well. *)
RecordWritten(s, paths) == [s EXCEPT !.surfaced = @ \cup paths]
Record(s, paths) == [s EXCEPT !.surfaced = @ \cup (paths \ s.written)]

\* _read_one: a decoy is recorded, a file the visitor wrote is not.
ReadPath(s, path) ==
    IF path \in Files(s) THEN Answer(Record(s, {path}), s.files[path], TRUE)
    ELSE IF path \in SystemPrograms(s) THEN Answer(s, <<Elf>>, TRUE)
    ELSE Fail(s)
ReadOne(s, operand) == ReadPath(s, ResolvePath(s, operand))

\* _read_files and _input_for: the operands one after the other ("-" is the
\* pipe), with the errors among the text or left out of it.
ReadAll(s, operands, stdin, inline) ==
    LET Add(a, r) == Answer(r.s, IF r.ok \/ inline THEN a.text \o r.text ELSE a.text, a.ok /\ r.ok)
        Read(a, operand) ==
            Add(a, IF operand = <<"-">> THEN Answer(a.s, stdin, TRUE) ELSE ReadOne(a.s, operand))
    IN  FoldLeft(Read, Answer(s, <<>>, TRUE), operands)

InputFor(s, operands, stdin) ==
    IF operands = <<>> THEN Answer(s, stdin, TRUE) ELSE ReadAll(s, operands, stdin, FALSE)

\* The names ls prints, as far as they are those of files.  The name of a file
\* the visitor wrote is the visitor's own, over a decoy's path as well.
Names(s, how, paths) ==
    LET Add(p, text) == Append(text, <<IF p \in s.written THEN "own" ELSE how>> \o p)
    IN  FoldSet(Add, <<>>, paths)

\* A directory's names, the dotted ones only with -a; a listed decoy is
\* recorded.  ls of a file repeats the operand and records nothing.
Ls(s, operand, all) ==
    LET path == ResolvePath(s, operand)
        names == {n \in Listing(s, path) : all \/ n \notin DotNames}
        listed == {p \in Files(s) : p # <<>> /\ Front(p) = path /\ Last(p) \in names}
    IN  IF path \in Directories(s)
        THEN Answer(Record(s, listed), Names(s, "name", listed), TRUE)
        ELSE IF path \in Files(s) THEN Answer(s, Names(s, "operand", {path}), TRUE)
        ELSE Fail(s)

Cd(s, operand) ==
    LET path == ResolvePath(s, operand)
    IN  IF path \in Directories(s) THEN Answer([s EXCEPT !.cwd = path], <<>>, TRUE) ELSE Fail(s)

-----------------------------------------------------------------------------
(* Writing.                                                                *)

(* Mutant: only the new text is counted, not what it is appended to. *)
TextOnly(old, text) == Len(text)
NewLength(old, text) == Len(old) + Len(text)

\* _store: write or append, unless everything written would get too long.
Store(s, path, text, append) ==
    LET Size(p) == Len(s.files[p])
        old == IF append /\ path \in Files(s) THEN s.files[path] ELSE <<>>
        used == MapThenSumSet(Size, (s.written \cap Files(s)) \ {path})
    IN  IF used + NewLength(old, text) > MaxWritten THEN Fail(s)
        ELSE Answer([s EXCEPT !.files = (path :> (old \o text)) @@ @, !.written = @ \cup {path},
                           !.taken = @ \cup Reveals(old \o text)], <<>>, TRUE)

\* _open_for_writing: a redirect creates its file, or empties it.
OpenForWriting(s, path, append) ==
    IF Kind(s, path) = "dir" \/ Kind(s, Parent(path)) # "dir" THEN Fail(s)
    ELSE Store(s, path, <<>>, append)

\* _remove: the path and everything under it, from all four collections.
Deleted(s, path) ==
    LET Kept(items) == {p \in items : ~IsPrefix(path, p)}
    IN  [s EXCEPT !.files = [p \in Kept(Files(s)) |-> s.files[p]], !.dirs = Kept(@),
                  !.written = Kept(@), !.exec = Kept(@)]

\* One operand after the other, each with its own error.
ForEach(Op(_, _), s, operands) ==
    LET Add(a, r) == Answer(r.s, a.text \o r.text, a.ok /\ r.ok)
        Step(a, operand) == Add(a, Op(a.s, ResolvePath(a.s, operand)))
    IN  IF operands = <<>> THEN Fail(s) ELSE FoldLeft(Step, Answer(s, <<>>, TRUE), operands)

\* Whether a file can be run after chmod.
ChmodExecutable(mode, was) ==
    IF mode \in {"+x", "777"} THEN TRUE ELSE IF mode \in {"-x", "600"} THEN FALSE ELSE was

Chmod(s, mode, recursive, operands) ==
    LET Change(st, path) ==
            LET targets == IF Kind(st, path) = "file" THEN {path}
                           ELSE IF recursive THEN Inside(path, Files(st)) ELSE {}
            IN  IF Kind(st, path) = "none" THEN Fail(st)
                ELSE Done([st EXCEPT !.exec = (@ \ targets) \cup
                              {p \in targets : ChmodExecutable(mode, p \in st.exec)}])
    IN  IF mode = "bad" THEN Fail(s) ELSE ForEach(Change, s, operands)

\* mkdir -p makes what is missing down to the first file on the way.
MkdirParents(s, path) ==
    LET steps == {SubSeq(path, 1, i) : i \in 1..Len(path)}
        blocked == {p \in steps : Kind(s, p) = "file"}
        before == {p \in steps : \A b \in blocked : Len(p) < Len(b)}
    IN  Answer([s EXCEPT !.dirs = @ \cup {p \in before : Kind(s, p) = "none"}],
               ErrorIf(blocked # {}), blocked = {})

Mkdir(s, parents, operands) ==
    LET Make(st, path) ==
            IF parents THEN MkdirParents(st, path)
            ELSE IF Kind(st, path) = "none" /\ Kind(st, Parent(path)) = "dir"
            THEN Done([st EXCEPT !.dirs = @ \cup {path}]) ELSE Fail(st)
    IN  ForEach(Make, s, operands)

Touch(s, noCreate, operands) ==
    LET Create(st, path) ==
            IF Kind(st, path) # "none" \/ noCreate THEN Done(st)
            ELSE IF Kind(st, Parent(path)) = "dir" THEN Store(st, path, <<>>, FALSE)
            ELSE Fail(st)
    IN  ForEach(Create, s, operands)

\* rm -r / is refused except by BusyBox.
Rm(s, recursive, force, operands) ==
    LET Delete(st, path) ==
            IF path = <<>> /\ recursive /\ ~st.busybox THEN Fail(st)
            ELSE IF Kind(st, path) = "none" THEN Answer(st, ErrorIf(~force), force)
            ELSE IF Kind(st, path) = "dir" /\ ~recursive THEN Fail(st)
            ELSE Done(Deleted(st, path))
    IN  IF operands = <<>> /\ force THEN Done(s) ELSE ForEach(Delete, s, operands)

\* Copies made until the session's files are full.  A program's copy, and a
\* copy of something runnable, is runnable.
CopyAll(s, from, to, items) ==
    LET Copy(item, a) ==
            LET target == to \o SubSeq(item, Len(from) + 1, Len(item))
                text == IF item \in Files(a.s) THEN a.s.files[item] ELSE <<Elf>>
                r == Store(a.s, target, text, FALSE)
                runs == item \in a.s.exec \/ item \notin Files(r.s)
            IN  IF ~a.ok THEN a
                ELSE IF ~r.ok THEN Fail(a.s)
                ELSE Done([r.s EXCEPT !.exec = IF runs THEN @ \cup {target} ELSE @])
    IN  FoldSet(Copy, Done(s), items)

CopyOne(s, path, dest, recursive, intoDir) ==
    LET target == IF intoDir THEN Append(dest, Last(path)) ELSE dest
        made == s.dirs \cup {target}
        below == {target \o SubSeq(p, Len(path) + 1, Len(p)) : p \in Inside(path, made)}
    IN  CASE Kind(s, path) = "none" -> Fail(s)
          [] Kind(s, path) = "dir" /\ ~recursive -> Fail(s)
          [] Kind(s, path) = "dir" /\ recursive ->
                CopyAll([s EXCEPT !.dirs = made \cup below], path, target,
                        Inside(path, Files(s)))
          [] Kind(s, path) = "file" /\ Kind(s, Parent(target)) # "dir" -> Fail(s)
          [] Kind(s, path) = "file" /\ Kind(s, Parent(target)) = "dir" ->
                CopyAll(s, path, target, {path})

Cp(s, recursive, operands) ==
    LET dest == ResolvePath(s, Last(operands))
        intoDir == Kind(s, dest) = "dir"
        CopySource(st, path) == CopyOne(st, path, dest, recursive, intoDir)
    IN  IF Len(operands) < 2 \/ (Len(operands) > 2 /\ ~intoDir) THEN Fail(s)
        ELSE ForEach(CopySource, s, Front(operands))
=============================================================================
