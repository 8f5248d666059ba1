-------------------------- MODULE MCClassification --------------------------
(* Small instances of Classification for TLC: for each protocol a few lines *)
(* that between them trigger every rule.                                    *)
EXTENDS Classification

MCConnectionCounts == {None, 5}

MCLine(part, name, arg, has) == [part |-> part, name |-> name, arg |-> arg, has |-> has]

MCLines ==
    [tcp_shell |->
        {MCLine("user", "login:", "root", {"login"}),
         MCLine("password", "password:", "wget x", {"password", "fetch"}),
         MCLine("shell", "ls", "", {}),
         MCLine("shell", "wget", "", {"fetch"}),
         MCLine("shell", "chmod", "", {"run"}),
         MCLine("shell", "cat", "", {"sensitive"}),
         MCLine("shell", "cat", "echo", {"binary"}),
         MCLine("shell", "echo", "", {}),
         MCLine("shell", "echo", "key", {"keys", "elsewhere"}),
         MCLine("shell", "nmap", "", {}),
         MCLine("shell", "password:", "x", {"password", "fetch", "run"}),
         MCLine("shell", "exit", "", {})},
     telnet |->
        {MCLine("user", "login:", "root", {"login"}),
         MCLine("user", "login:", "admin", {"login"}),
         MCLine("password", "password:", "vizxv", {"password"}),
         MCLine("password", "password:", "guess", {"password"})},
     ftp |->
        {MCLine("first", "user", "root", {}), MCLine("first", "user", "", {}),
         MCLine("first", "get", "", {"otherProtocol"}), MCLine("first", "help", "", {}),
         MCLine("second", "pass", "guess", {}), MCLine("second", "pass", "", {}),
         MCLine("second", "quit", "", {})},
     http |->
        {MCLine("first", "get", "", {"target", "sensitive"}),
         MCLine("first", "get", "", {"target", "sensitive", "traversal"}),
         MCLine("first", "get", "", {"target", "pair"}),
         MCLine("first", "get", "geoserver", {"target", "inject"}),
         MCLine("first", "get", "hikvision_camera", {"target"}),
         MCLine("first", "get", "geoserver", {"target"}),
         MCLine("first", "get", "mcp_server", {"target", "absolute"}),
         MCLine("first", "connect", "", {"target"}),
         MCLine("first", "post", "winrm", {"target"}),
         MCLine("first", "post", "", {"target", "form", "sensitive"}),
         MCLine("headers", "user-agent:", "", {"scanner"}),
         MCLine("headers", "authorization:", "basic", {"pair"}),
         MCLine("headers", "authorization:", "ntlm", {}),
         MCLine("headers", "x-forwarded-for:", "", {}),
         MCLine("body", "post", "", {"form", "pair"}),
         MCLine("body", "post", "", {"inject", "fetch", "run"})}]
=============================================================================
