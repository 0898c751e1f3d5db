--------------------------- MODULE MCRecursionBan ---------------------------
(* Programs of six functions.  f and g take nothing, h is given a callback,  *)
(* k a caller of callbacks and a callback, s is a file-scope variable.       *)
EXTENDS RecursionBan

CONSTANT NestedPrograms     \* nested functions passed on, or in one another

Arity0 == {"main", "f", "g", "idle", "n", "m", "q"}
MCParams == [x \in Arity0 \cup {"h", "k"} |->
                CASE x = "h" -> <<"p">> [] x = "k" -> <<"c", "p">> [] OTHER -> <<>>]
MCTypeOf == [x \in Arity0 \cup {"a", "b", "s", "p", "h", "c", "k"} |->
                CASE x \in {"h", "c"} -> "fn(fn())" [] x = "k" -> "fn(fn(fn()), fn())"
                  [] OTHER -> "fn()"]
MCInitial == [x \in {"s"} |-> "idle"]

Run(x) == Call(x, <<>>)

\* Ways to reach x, and to prepare for it.
Reaching(x) ==
    {<<Run(x)>>,
     <<Block(<<Run(x)>>)>>,
     <<Run("s")>>,
     <<Call("h", <<x>>)>>,
     <<Call("k", <<"h", x>>)>>,
     <<Var("a", x), Block(<<Run("a")>>)>>,
     <<Var("a", "idle"), Block(<<Assign("a", x)>>), Run("a")>>,
     <<Var("a", x), Var("b", "a"), Call("h", <<"b">>)>>,
     <<Nested("n", <<Run(x)>>), Run("n")>>,
     <<Assign("s", x)>>}

\* Declarations that hide a top-level function, in their block only.
Hiding(x) ==
    {<<>>,
     <<Var(x, "idle")>>,
     <<Block(<<Var(x, "idle"), Run(x)>>)>>,
     <<Nested(x, <<>>)>>,
     <<Block(<<Nested(x, <<>>), Run(x)>>)>>,
     <<Nested("m", <<Run("q")>>), Nested("q", <<Block(<<Run("m")>>)>>), Run("m")>>,
     <<Nested("m", <<Run("q")>>), Nested("q", <<>>), Run("m")>>}

FlatPrograms ==
    {[x \in {"main", "f", "g", "h", "k", "idle"} |->
        CASE x = "main" -> main [] x = "f" -> hide \o f [] x = "g" -> g [] x = "h" -> h
          [] x = "k" -> k [] x = "idle" -> idle] :
        idle \in {<<>>, <<Run("f")>>},
        main \in {<<Run("f")>>, <<Call("k", <<"h", "f">>), Run("g")>>},
        hide \in Hiding("g"),
        f \in Reaching("g") \cup {<<>>, <<Call("h", <<"f">>)>>, <<Assign("s", "f")>>},
        g \in {<<>>} \cup Reaching("f") \cup Hiding("f"),
        h \in {<<Run("p")>>, <<Assign("s", "p")>>, <<Var("a", "p"), Run("a")>>,
               <<Block(<<Var("p", "idle"), Run("p")>>)>>, <<Run("f")>>},
        k \in {<<Call("c", <<"p">>)>>, <<Call("c", <<"idle">>)>>}}

\* Functions that only call each other by name.
DirectPieces(x, y) ==
    {<<>>, <<Run(x)>>, <<Block(<<Run(x)>>)>>, <<Nested(x, <<>>)>>,
     <<Block(<<Nested(x, <<>>), Run(x)>>)>>,
     <<Nested("n", <<Run(x)>>), Run("n")>>,
     <<Nested(x, <<Run("idle")>>), Run(x)>>,
     <<Nested("m", <<Run("q"), Block(<<Nested(x, <<>>), Run(x)>>)>>), Nested("q", <<Run(y)>>)>>}

DirectPrograms ==
    {[x \in {"main", "f", "g", "h", "k", "idle"} |->
        CASE x = "main" -> <<Run("f")>> [] x = "f" -> f \o more [] x = "g" -> g \o after
          [] OTHER -> <<>>] :
        f \in DirectPieces("g", "f"), g \in DirectPieces("f", "g"),
        more \in {<<>>, <<Run("g")>>, <<Run("idle")>>}, after \in {<<>>, <<Run("f")>>, <<Run("idle")>>}}

\* A nested function that is handed to h, stored in s or declares another one.
NestingPrograms ==
    {[x \in {"main", "f", "g", "h", "k", "idle"} |->
        CASE x = "main" -> main [] x = "f" -> f [] x = "h" -> <<Run("p")>>
          [] OTHER -> <<>>] :
        main \in {<<Run("f")>>, <<Run("f"), Run("g")>>},
        f \in {<<Nested("n", <<Block(inner)>>)>> \o outer :
                   inner \in {<<>>, <<Run("n")>>, <<Call("h", <<"n">>)>>, <<Run("g")>>,
                              <<Nested("m", <<Run("n")>>), Run("m")>>},
                   outer \in {<<Run("n")>>, <<Call("h", <<"n">>)>>, <<Assign("s", "n")>>}}}

MCPrograms == IF NestedPrograms THEN NestingPrograms ELSE FlatPrograms \cup DirectPrograms
=============================================================================
