------------------------------ MODULE MCNative ------------------------------
(* A program and its module, which is a symbolic link to "lib.txt".         *)
(* "latest" is a symbolic link to the old executable "prog"; "main", the    *)
(* default executable, does not exist yet.                                  *)
EXTENDS Native

CONSTANTS iMain, iLib, iOld, Good, Plain, BadNative

MCPaths == {"main.a7", "lib.a7", "lib.txt", "main.zig", "main.md",
            "main", "prog", "latest"}
MCSources == {"main.a7", "lib.a7"}
MCDefaultOut == [p \in MCPaths |-> "main.zig"]
MCDefaultDoc == [p \in MCPaths |-> "main.md"]
MCDefaultExe == [p \in MCPaths |-> "main"]
MCExecutables == {"main", "prog", "latest"}
MCProgramStatus == {0, 7, -9}
MCDiskInodes == {iMain, iLib, iOld}
MCInitialLink ==
  [p \in MCPaths |-> IF p = "latest" THEN "prog"
                     ELSE IF p = "lib.a7" THEN "lib.txt" ELSE p]
MCInitialEntry ==
  [p \in MCPaths |->
     CASE p = "main.a7" -> iMain
       [] p = "lib.txt" -> iLib
       [] p = "prog"    -> iOld
       [] OTHER         -> Absent]
MCInitialData == [i \in MCDiskInodes |-> IF i = iMain THEN Good ELSE Plain]

MCTexts == {Good, Plain, BadNative}
MCDefect == [t \in MCTexts |-> IF t = BadNative THEN "native" ELSE "none"]
MCImports == [t \in MCTexts |-> IF t = Good THEN <<"lib.a7">> ELSE << >>]

Command(tool, out) ==
  [tool |-> tool, mode |-> "pipeline", file |-> "main.a7", out |-> out,
   doc |-> NoPath]

MCCommands ==
  {Command("check", NoPath), Command("run", NoPath),
   [tool |-> "a7", mode |-> "compile", file |-> "main.a7", out |-> NoPath, doc |-> NoPath]}
  \cup {Command("build", p) : p \in {NoPath, "lib.txt", "latest"}}
=============================================================================
