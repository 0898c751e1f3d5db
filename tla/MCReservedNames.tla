--------------------------- MODULE MCReservedNames ---------------------------
(* A project file io.a7 stands beside the entry, which imports it as "./io"  *)
(* and the standard module of that name as "io".                             *)
EXTENDS ModuleResolver

MCFiles == {"main", "io"}
MCVirtualPaths == {"io", "std/io"}
MCVirtualKey == [p \in MCVirtualPaths |-> "/stdlib/io"]
MCCanonicalName == [p \in MCVirtualPaths |-> "io"]
MCCandidates ==
    [f \in MCFiles |-> [p \in MCVirtualPaths \cup {"./io"} |->
        IF p = "./io" THEN <<"io">> ELSE <<>>]]

Holds(imports) == [state |-> "ok", imports |-> imports]

MCContents ==
    [f \in MCFiles |->
        IF f = "main" THEN {Holds(<<"io">>), Holds(<<"./io">>), Holds(<<"io", "./io">>)}
        ELSE {Holds(<<>>), Holds(<<"std/io">>)}]

\* `Bare stdlib names such as "io" and "math" remain reserved for the stdlib.`
\* (docs/plan/packets/P-MOD-modules.md:30): after an accepted program the name
\* that an import of a standard module bound has the symbols of that module.  The
\* table has one space of names for both: register_module gives the file io.a7,
\* whose cache key is its name without the extension, the entry of "io".
StdNamesReserved ==
    [][call = "program" /\ call' = "none" /\ outcome' = "ok" /\ pristine
        => \A p \in Imports(Entry) \cap VirtualPaths :
               table[bindings[p]] = VirtualKey[p]]_vars
=============================================================================
