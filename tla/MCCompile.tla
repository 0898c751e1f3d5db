----------------------------- MODULE MCCompile -----------------------------
(* A directory with two programs and a module.  "save.txt" is a second hard *)
(* link of main.a7 and "alias.zig" a symbolic link to it; "lib.bak" is a    *)
(* hard link of the module; "gone.a7" does not exist; the default output of *)
(* other.a7 does; "dir" is a directory.                                      *)
EXTENDS Compile

CONSTANTS iMain, iLib, iOther, iOld, Good, Plain, BadTokens, BadSyntax, BadSemantics, Unsupported

MCPaths == {"main.a7", "lib.a7", "other.a7", "gone.a7",
            "save.txt", "alias.zig", "lib.bak", "main.zig", "other.zig",
            "main.md", "other.md", "dir"}
MCSources == {"main.a7", "lib.a7", "other.a7", "gone.a7"}
MCDefaultOut == [p \in MCPaths |-> IF p = "main.a7" THEN "main.zig" ELSE "other.zig"]
MCDefaultDoc == [p \in MCPaths |-> IF p = "main.a7" THEN "main.md" ELSE "other.md"]
MCDiskInodes == {iMain, iLib, iOther, iOld}
MCInitialLink == [p \in MCPaths |-> IF p = "alias.zig" THEN "main.a7" ELSE p]
MCInitialEntry ==
  [p \in MCPaths |->
     CASE p \in {"main.a7", "save.txt"} -> iMain
       [] p \in {"lib.a7", "lib.bak"}   -> iLib
       [] p = "other.a7"                -> iOther
       [] p = "other.zig"               -> iOld
       [] p = "dir"                     -> Directory
       [] OTHER                         -> Absent]
MCInitialData == [i \in MCDiskInodes |-> IF i = iMain THEN Good ELSE Plain]

MCTexts == {Good, Plain, BadTokens, BadSyntax, BadSemantics, Unsupported}
MCDefect == [t \in MCTexts |->
  CASE t = BadTokens    -> "tokens"
    [] t = BadSyntax    -> "syntax"
    [] t = BadSemantics -> "semantic"
    [] t = Unsupported  -> "codegen"
    [] OTHER            -> "none"]
MCImports == [t \in MCTexts |-> IF t = Good THEN <<"lib.a7">> ELSE << >>]

A7(mode, file, out, doc) ==
  [tool |-> "a7", mode |-> mode, file |-> file, out |-> out, doc |-> doc]

MCCommands == {
  A7("compile", "main.a7", NoPath, AutoDoc),
  A7("compile", "main.a7", "lib.bak", NoPath),
  A7("compile", "main.a7", "other.zig", "alias.zig"),
  A7("compile", "other.a7", NoPath, "dir"),
  A7("compile", "other.a7", "save.txt", NoPath),
  A7("compile", "main.a7", "main.md", "main.md"),
  A7("compile", "gone.a7", NoPath, NoPath),
  A7("doc", "main.a7", NoPath, NoPath),
  A7("semantic", "main.a7", NoPath, NoPath),
  A7("ast", "main.a7", NoPath, "main.md")}
=============================================================================
