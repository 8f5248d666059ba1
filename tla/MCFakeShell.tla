---------------------------- MODULE MCFakeShell ----------------------------
(* Small instances of FakeShell for TLC: two decoys, one of them hidden, and *)
(* lines that between them use every command, operator and redirect.        *)
EXTENDS FakeShell

MCHome == <<"home">>
MCEnv == <<"home", ".env">>
MCNotes == <<"home", "notes">>
MCPersona == (MCEnv :> <<<<"secret">>>>) @@ (MCNotes :> <<<<"note">>, <<"rest">>>>)
MCPrograms == [b \in BOOLEAN |->
    {"base64", "cat", "chmod", "cp", "echo", "head", "ls", "mkdir", "rm", "sh", "touch"}
        \cup IF b THEN {"busybox"} ELSE {"bash"}]
MCStartDirs == {<<"tmp">>, <<"home">>}

C(name, flags, ops, arg, to) ==
    [word |-> <<name>>, applet |-> "", flags |-> flags, ops |-> ops, arg |-> arg, to |-> to]
P(name, ops) == C(name, {}, ops, "", <<>>)
One(c) == [op |-> "", stages |-> <<c>>]
Then(op, c) == [op |-> op, stages |-> <<c>>]
Pipe(c, d) == [op |-> "", stages |-> <<c, d>>]
To(fd, append, target) == [fd |-> fd, append |-> append, target |-> target]

X == <<"x">>
TmpX == <<"/", "tmp", "x">>
Sub == <<"sub">>

\* Two lines a script may hold: `cat .env`, and `sh x; exit`, which runs itself.
MCMeaning ==
    (<<"read">> :> <<One(P("cat", <<<<".env">>>>))>>)
    @@ (<<"again">> :> <<One(P("sh", <<X>>)), Then(";", P("exit", <<>>))>>)

MCLines == <<
    <<One(P("ls", <<>>))>>,
    <<One(C("ls", {"a"}, <<<<"~">>>>, "", <<>>))>>,
    <<One(P("cat", <<<<".env">>, <<"none">>>>)), Then("||", P("pwd", <<>>))>>,
    <<Pipe(P("cat", <<<<"notes">>>>), C("head", {}, <<>>, 1, <<>>))>>,
    <<Pipe(C("base64", {}, <<<<".env">>>>, "", <<To("2", FALSE, <<"/", "dev", "null">>)>>),
           C("base64", {"d"}, <<>>, "", <<>>))>>,
    <<One(P("cp", <<<<"~", ".env">>, X>>)), Then("&&", P("cat", <<X>>))>>,
    <<One(C("cp", {"r"}, <<<<".">>, <<"/", "tmp">>>>, "", <<>>)), Then(";", P("cd", <<<<"/", "tmp">>>>))>>,
    <<One(P("cp", <<<<"/", "bin", "sh">>, X>>)),
      Then("&&", [P("", <<>>) EXCEPT !.word = <<".", "x">>])>>,
    <<One(C("echo", {}, <<>>, <<<<"read">>>>, <<To("1", TRUE, X), To("dup", FALSE, <<>>)>>))>>,
    <<One(C("echo", {}, <<>>, <<<<"again">>>>, <<To("&", FALSE, X)>>)), Then("&&", P("sh", <<X>>))>>,
    <<One(C("echo", {}, <<>>, <<<<"more">>>>, <<To("1", TRUE, <<"notes">>)>>))>>,
    <<One(C("echo", {}, <<>>, <<<<"more">>>>, <<To("1", FALSE, <<"notes">>)>>))>>,
    <<One(P("cp", <<<<".env">>, <<"notes">>>>)), Then(";", P("cat", <<<<"notes">>>>))>>,
    <<One(P("rm", <<<<"~", ".env">>>>)), Then("&&", P("touch", <<<<"~", ".env">>>>))>>,
    <<One(P("ls", <<<<"~", "notes">>>>))>>,
    <<One(C("chmod", {}, <<<<".env">>, X>>, "+x", <<>>)),
      Then(";", [P("", <<>>) EXCEPT !.word = <<".", ".env">>])>>,
    <<One(C("rm", {"r"}, <<<<"~">>, X>>, "", <<>>)), Then("||", P("touch", <<Sub>>))>>,
    <<One(C("rm", {"r", "f"}, <<<<"/">>>>, "", <<>>))>>,
    <<One(C("mkdir", {"p"}, <<<<"sub", "..", "x", "y">>>>, "", <<>>)), Then("&&", P("cd", <<X>>))>>,
    <<One([C("grep", {}, <<<<"notes">>>>, {<<"rest">>}, <<>>) EXCEPT !.word = <<"busybox">>, !.applet = "cat"])>>,
    <<Pipe(P("exit", <<>>), C("sh", {"c"}, <<>>, <<One(P("exit", <<>>))>>, <<>>))>>,
    <<One(C("exit", {}, <<>>, "", <<>>))>>,
    <<[op |-> "bad", stages |-> <<>>]>>
>>
=============================================================================
