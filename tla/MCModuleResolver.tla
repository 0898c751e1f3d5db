-------------------------- MODULE MCModuleResolver --------------------------
(* A project: the entry, a file with two spellings, a path that names x.a7  *)
(* or, when that is absent, the directory module x/mod.a7, and a file that,  *)
(* where it exists, shadows a standard module.                              *)
EXTENDS ModuleResolver

MCFiles == {"main", "a", "x", "x/mod", "std/io"}
MCVirtualPaths == {"io", "std/io"}
MCVirtualKey == [p \in MCVirtualPaths |-> "/stdlib/io"]
MCCanonicalName == [p \in MCVirtualPaths |-> "io"]
MCStdPaths == {"std/io"}
MCFilePaths == {"a", "./a", "x", "main"}
MCCandidates ==
    [f \in MCFiles |-> [p \in MCVirtualPaths \cup MCFilePaths |->
        CASE p \in {"a", "./a"} -> <<"a">>
          [] p = "x"            -> <<"x", "x/mod">>
          [] p = "main"         -> <<"main">>
          [] p = "std/io"       -> <<"std/io">>
          [] OTHER              -> <<>>]]

\* Project files named like a standard module are those of MCReservedNames.
ASSUME NoReservedNames == NamesApart

Holds(imports) == [state |-> "ok", imports |-> imports]
Broken(kind) == [state |-> kind, imports |-> <<>>]

MCContents ==
    [f \in MCFiles |->
        CASE f = "main"   -> {Holds(<<"a", "x">>), Holds(<<"./a", "std/io", "x">>),
                              Holds(<<"a", "./a">>), Holds(<<"x">>)}
          [] f = "a"      -> {Holds(<<>>), Holds(<<"x", "io">>), Holds(<<"main">>),
                              Holds(<<"x", "x">>), Broken("badTokens")}
          [] f = "x"      -> {Holds(<<>>), Holds(<<"./a">>), Broken("missing"),
                              Broken("unreadable")}
          [] f = "x/mod"  -> {Holds(<<"a">>), Broken("missing"), Broken("badSyntax")}
          [] f = "std/io" -> {Holds(<<>>), Broken("missing")}]
=============================================================================
