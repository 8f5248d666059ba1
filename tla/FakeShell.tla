----------------------------- MODULE FakeShell -----------------------------
(***************************************************************************)
(* The fake shell of the SSH decoy (honeypot/core/engine.py):              *)
(* InteractionEngine.process runs one line a visitor typed against the     *)
(* session's own files and returns what goes to the screen.                *)
(*                                                                         *)
(* A line is what the shell makes of the text: a sequence of [op, stages], *)
(* where op is the operator before a pipeline ("", ";", "&&", "||") and    *)
(* stages its commands; a line with a syntax error has op "bad".  A        *)
(* command is a record: `word`, its first word as an operand; `applet`,    *)
(* the second, if the first is busybox; `flags`; `ops`, its operands;      *)
(* `arg`, what else it takes (the tokens echo prints, the lines a filter   *)
(* keeps, a mode, the line of sh -c); `to`, its redirects                  *)
(* [fd, append, target], where fd "dup" is 2>&1.  Scripts are texts whose  *)
(* tokens the function Meaning takes back to lines; any other token is the *)
(* name of no command.                                                     *)
(***************************************************************************)
EXTENDS SessionFiles

CONSTANTS Lines,       \* the lines a visitor may type, as a sequence
          Meaning,     \* what a token says when a shell runs it
          MaxDepth,    \* _MAX_SUBSHELL_DEPTH
          MaxLines     \* bound: lines typed in a session

Screen == <<"(screen)">>   \* where a stream goes unless redirected
DevNull == <<"dev", "null">>

\* What the parsing of a typed text can give: _split_redirects, _options and
\* _split_unquoted.  A command that does not parse is one whose name is unknown.
IsRedirect(r) ==
    /\ r.fd \in {"1", "2", "&", "dup"} /\ r.append \in BOOLEAN
    /\ r.fd # "dup" => r.target # <<>>
IsCommand(c) ==
    /\ \A i \in DOMAIN c.ops : c.ops[i] # <<>>
    /\ \A i \in DOMAIN c.to : IsRedirect(c.to[i])
IsLine(line) ==
    \/ line[1].op = "bad"
    \/ \A i \in DOMAIN line :
          /\ (line[i].op = "") = (i = 1) /\ line[i].op \in {"", ";", "&&", "||"}
          /\ line[i].stages # <<>>
          /\ \A j \in DOMAIN line[i].stages : IsCommand(line[i].stages[j])

ASSUME LinesAssumption ==
    /\ \A i \in DOMAIN Lines : IsLine(Lines[i])
    /\ \A token \in DOMAIN Meaning : IsLine(Meaning[token])

VARIABLES session,     \* the session's state: SessionFiles
          closed,      \* whether the session was ended with exit
          typed,       \* lines typed so far
          seen         \* history: the decoys given away on screen

vars == <<session, closed, typed, seen>>

\* What a command does to the session, what it prints, whether it succeeded,
\* and whether it was exit.
Result(r, exit) == [s |-> r.s, text |-> r.text, ok |-> r.ok, exit |-> exit]
Ran(r) == Result(r, FALSE)
Output(r) == Answer(r.s, r.text, r.ok)
After(a, r) == [r EXCEPT !.text = a.text \o r.text]

RECURSIVE Execute(_, _, _)

-----------------------------------------------------------------------------
(* The commands.                                                           *)

Informing == {"help", "whoami", "pwd", "id", "uname", "hostname", "ps", "netstat", "ss", "clear"}
Applets == Programs[TRUE] \ {"busybox"}
Builtins == {"cd", "echo", "exit", "help", "logout", "pwd", "quit"}

\* grep, head, tail, wc and base64: what they make of the text they read (not
\* grep's and wc's choice of what to print).
Encode(text) == [i \in DOMAIN text |-> <<"base64">> \o text[i]]
Decodable(text) == \A i \in DOMAIN text : text[i][1] = "base64"
Decode(text) == [i \in DOMAIN text |-> Tail(text[i])]

Filter(c, name, r) ==
    LET text == r.text
        errors == ErrorIf(~r.ok)
        Keep(t) == t \in c.arg
        grepped == SelectSeq(text, Keep)
        n == IF c.arg < Len(text) THEN c.arg ELSE Len(text)
    IN  CASE name = "grep" -> Answer(r.s, grepped \o errors, grepped # <<>> /\ r.ok)
          [] name = "head" -> Answer(r.s, SubSeq(text, 1, n) \o errors, r.ok)
          [] name = "tail" -> Answer(r.s, SubSeq(text, Len(text) - n + 1, Len(text)) \o errors, r.ok)
          [] name = "wc" -> Answer(r.s, <<<<"count">>>> \o errors, r.ok)
          [] name = "base64" ->
                IF ~r.ok THEN Fail(r.s)
                ELSE IF "d" \notin c.flags THEN Answer(r.s, Encode(text), TRUE)
                ELSE IF Decodable(text) THEN Answer(r.s, Decode(text), TRUE)
                ELSE Fail(r.s)

\* _run_script: the lines of a text one by one, until one of them exits.  The
\* error for an unknown command names it.
RunScript(s, text, depth) ==
    LET Line(a, token) ==
            IF a.exit THEN a
            ELSE After(a, IF token \in DOMAIN Meaning THEN Execute(Meaning[token], a.s, depth + 1)
                          ELSE Ran(Answer(a.s, <<token>>, FALSE)))
    IN  Output(FoldLeft(Line, Ran(Done(s)), text))

\* sh -c, sh script, or a script piped into sh.
ScriptFile(r, depth) ==
    IF ~r.ok \/ (r.text # <<>> /\ Head(r.text) = Elf) THEN Fail(r.s)
    ELSE RunScript(r.s, r.text, depth)
Subshell(c, s, piped, stdin, depth) ==
    IF depth >= MaxDepth THEN Done(s)
    ELSE IF "c" \in c.flags
    THEN Output(Execute(c.arg, s, depth + 1))
    ELSE IF c.ops # <<>> THEN ScriptFile(ReadOne(s, Head(c.ops)), depth)
    ELSE IF piped THEN RunScript(s, stdin, depth) ELSE Done(s)

\* ./x: a runnable file of the session, as a script; a program prints nothing.
RunFile(s, path, depth) ==
    IF path \notin Files(s) \/ path \notin s.exec THEN Fail(s)
    ELSE IF (s.files[path] # <<>> /\ Head(s.files[path]) = Elf) \/ depth >= MaxDepth THEN Done(s)
    ELSE RunScript([s EXCEPT !.taken = @ \cup Reveals(s.files[path])], s.files[path], depth)

Command(c, name, s, piped, stdin, depth) ==
    CASE s.busybox /\ name \notin Applets \cup Builtins -> Fail(s)
      [] name \in Informing -> Answer(s, <<<<"info">>>>, TRUE)
      [] name \in {"wget", "curl"} -> Fail(s)
      [] name = "cd" -> IF Len(c.ops) > 1 THEN Fail(s)
                        ELSE Cd(s, IF c.ops = <<>> THEN <<"~">> ELSE Head(c.ops))
      [] name = "echo" -> Answer(s, c.arg, TRUE)
      [] name \in {"grep", "head", "tail", "wc", "base64"} -> Filter(c, name, InputFor(s, c.ops, stdin))
      [] name \in {"sh", "bash"} -> Subshell(c, s, piped, stdin, depth)
      [] name = "ls" -> Ls(s, IF c.ops = <<>> THEN <<>> ELSE Head(c.ops), "a" \in c.flags)
      [] name = "chmod" -> Chmod(s, c.arg, "R" \in c.flags, c.ops)
      [] name = "mkdir" -> Mkdir(s, "p" \in c.flags, c.ops)
      [] name = "touch" -> Touch(s, "c" \in c.flags, c.ops)
      [] name = "rm" -> Rm(s, "r" \in c.flags, "f" \in c.flags, c.ops)
      [] name = "cp" -> Cp(s, "r" \in c.flags, c.ops)
      [] name = "cat" -> IF c.ops # <<>> THEN ReadAll(s, c.ops, stdin, TRUE)
                         ELSE IF piped THEN Answer(s, stdin, TRUE) ELSE Fail(s)
      [] OTHER -> Fail(s)

\* _run_command: a word with a slash is a program of the system or a file;
\* anything else is looked up by its name.
RunCommand(c, s, piped, stdin, depth) ==
    LET path == ResolvePath(s, c.word)
        busybox == s.busybox /\ Last(c.word) = "busybox"
        name == IF busybox THEN c.applet ELSE Last(c.word)
        isFile == Len(c.word) > 1 /\ (path \notin SystemPrograms(s) \/ path \in Files(s))
    IN  IF c.word = <<>> THEN Ran(Done(s))
        ELSE IF isFile THEN Ran(RunFile(s, path, depth))
        ELSE IF busybox /\ name = "" THEN Ran(Answer(s, <<<<"info">>>>, TRUE))
        ELSE IF busybox /\ name \notin Applets THEN Ran(Fail(s))
        ELSE IF name \in {"exit", "quit", "logout"} THEN Result(Done(s), TRUE)
        ELSE Ran(Command(c, name, s, piped, stdin, depth))

-----------------------------------------------------------------------------
(* Redirects, pipelines and lists.                                         *)

\* Open the redirects' files in order; stop at the first that cannot be.
OpenAll(s, redirects) ==
    LET Open(a, r) ==
            IF ~a.r.ok THEN a
            ELSE IF r.fd = "dup" THEN [a EXCEPT !.to.err = a.to.out]
            ELSE LET path == ResolvePath(a.r.s, r.target)
                     opened == IF path = DevNull THEN Done(a.r.s)
                               ELSE OpenForWriting(a.r.s, path, r.append)
                 IN  [r |-> opened,
                      to |-> [out |-> IF r.fd \in {"1", "&"} THEN path ELSE a.to.out,
                              err |-> IF r.fd \in {"2", "&"} THEN path ELSE a.to.err]]
    IN  FoldLeft(Open, [r |-> Done(s), to |-> [out |-> Screen, err |-> Screen]], redirects)

\* Where the text goes: a failed command's text is its error message.
Deliver(r, to) ==
    LET target == IF r.ok THEN to.out ELSE to.err
        stored == Store(r.s, target, r.text, TRUE)
    IN  IF r.exit \/ target = Screen THEN r
        ELSE IF r.text = <<>> \/ target = DevNull THEN [r EXCEPT !.text = <<>>]
        ELSE IF stored.ok THEN [r EXCEPT !.s = stored.s, !.text = <<>>] ELSE Ran(Fail(r.s))

\* _run: the redirects' files are opened before the command runs.
RunOpened(c, opened, piped, stdin, depth) ==
    IF ~opened.r.ok THEN Ran(Fail(opened.r.s))
    ELSE Deliver(RunCommand(c, opened.r.s, piped, stdin, depth), opened.to)
Run(c, s, piped, stdin, depth) == RunOpened(c, OpenAll(s, c.to), piped, stdin, depth)

\* A command alone may end the session; in a pipeline exit ends its own part
\* only.  A failed part's text goes to the screen, not down the pipe.
Passed(a, r, last) ==
    IF last \/ ~r.ok THEN [s |-> r.s, ok |-> r.ok, text |-> a.text \o r.text, pipe |-> <<>>]
    ELSE [s |-> r.s, ok |-> r.ok, text |-> a.text, pipe |-> r.text]
RunPipeline(stages, s, depth) ==
    LET Stage(a, i) == Passed(a, Run(stages[i], a.s, i > 1, a.pipe, depth), i = Len(stages))
    IN  IF Len(stages) = 1 THEN Run(stages[1], s, FALSE, <<>>, depth)
        ELSE Ran(FoldLeft(Stage, [s |-> s, ok |-> TRUE, text |-> <<>>, pipe |-> <<>>],
                          [i \in DOMAIN stages |-> i]))

\* A pipeline runs or is skipped by what the last one that ran returned; after
\* exit nothing runs.
Execute(line, s, depth) ==
    LET Part(a, part) ==
            IF a.exit \/ (part.op = "&&" /\ ~a.ok) \/ (part.op = "||" /\ a.ok) THEN a
            ELSE After(a, RunPipeline(part.stages, a.s, depth))
    IN  IF line[1].op = "bad" THEN Ran(Fail(s)) ELSE FoldLeft(Part, Ran(Done(s)), line)

-----------------------------------------------------------------------------
Init ==
    /\ session \in {NewSession(b) : b \in BOOLEAN}
    /\ closed = FALSE /\ typed = 0 /\ seen = {}

\* process: one typed line.
Process(i) ==
    /\ ~closed /\ typed < MaxLines
    /\ \E r \in {Execute(Lines[i], session, 0)} :
          /\ session' = r.s
          /\ closed' = r.exit
          /\ seen' = seen \cup Reveals(r.text)
    /\ typed' = typed + 1

Next == \E i \in DOMAIN Lines : Process(i)

Spec == Init /\ [][Next]_vars

-----------------------------------------------------------------------------
TypeOK ==
    /\ session.cwd \in Seq(STRING) /\ session.dirs \subseteq Seq(STRING)
    /\ closed \in BOOLEAN /\ typed \in 0..MaxLines /\ seen \subseteq DOMAIN Persona

\* After any lines whatever, however they fail half way, the session's
\* collections agree (_store, _remove, _chmod, _cp): what is marked written is
\* a file, what is marked runnable is a file or a program, a file not marked
\* written still has the persona's text (so only decoys are ever recorded as
\* surfaced), and all that was written stays within _MAX_WRITTEN_CHARS.
Bookkeeping ==
    /\ TypeOK
    /\ session.written \subseteq Files(session)
    /\ session.exec \subseteq Files(session) \cup SystemPrograms(session)
    /\ session.surfaced \subseteq DOMAIN Persona
    /\ \A p \in Files(session) \ session.written :
          p \in DOMAIN Persona /\ session.files[p] = Persona[p]
    /\ LET Size(p) == Len(session.files[p])
       IN  MapThenSumSet(Size, session.written) <= MaxWritten

\* A decoy whose text, or whose name in a listing, reached the screen, by
\* whatever pipe, script or error message, is on record
\* (record_decoy_file_surfaced), unless the visitor had copied its text to a
\* file, added to it in place, or run it.  Names the visitor typed, which ls
\* and error messages repeat, and names of files the visitor wrote over a
\* decoy are not the decoy's.  Written files are not decoys (test_engine.py
\* says so of new ones): once the visitor has written to a decoy, or removed
\* it, with or without making a new file there, nothing records it any more,
\* neither a listing nor a read (_record_listed_decoy_files, _read_one).
SeenIsRecorded ==
    /\ [](seen \subseteq session.surfaced \cup session.taken)
    /\ [][\A p \in session'.surfaced \ session.surfaced :
             p \in Files(session) \ session.written]_vars
=============================================================================
