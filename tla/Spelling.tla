------------------------------ MODULE Spelling ------------------------------
(***************************************************************************)
(* How a syntax tree is written, after the grammar and the table of        *)
(* precedences of docs/SPEC.md, with a parenthesis only where the grammar  *)
(* needs one.  The runs of the front end read these spellings back.        *)
(***************************************************************************)
EXTENDS Integers, Sequences

\* Section 12.4: from the operators that bind most tightly to the loosest.
Levels == <<{"*", "/", "%"}, {"+", "-"}, {"<<", ">>"}, {"<", ">", "<=", ">="}, {"==", "!="},
            {"&"}, {"^"}, {"|"}, {"and"}, {"or"}>>

\* How loosely a tree binds: primary and postfix expressions, unary ones, binary ones.
Looseness(n) ==
    CASE n.kind = "binary" -> CHOOSE i \in DOMAIN Levels : n.text[1] \in Levels[i]
      [] n.kind = "unary" -> 0
      [] OTHER -> -1

Pattern_ == {"literal_pattern", "tag_pattern", "enum_pattern", "name_pattern", "range_pattern"}

Paren(s) == <<"(">> \o s \o <<")">>

\* The pieces with "between" between them.
Join(pieces, between) ==
    LET upTo[i \in 0..Len(pieces)] ==
            IF i = 0 THEN <<>>
            ELSE IF i = 1 THEN pieces[1]
            ELSE upTo[i - 1] \o between \o pieces[i]
    IN upTo[Len(pieces)]

Words1(words) == [i \in DOMAIN words |-> <<words[i]>>]

Dotted(names) == Join(Words1(names), <<".">>)

\* An expression statement may not start like another statement, a constant
\* not like another definition.
StatementStarts == {"if", "match"}

DefinitionStarts == {"fn", "struct", "enum", "union", "import", "[", "ref", "i32", "bool", "string"}

Guarded(s, starts) == IF Head(s) \in starts THEN Paren(s) ELSE s

RECURSIVE Spell(_, _)

\* The spellings of trees in a row.
Each(kids) == [i \in DOMAIN kids |-> Spell(kids[i], FALSE)]

Spread(kids) == Join(Each(kids), <<>>)

\* An operand that binds no more loosely than "most".
Operand_(n, most, header) ==
    IF Looseness(n) > most THEN Paren(Spell(n, FALSE)) ELSE Spell(n, header)

Pat(n) == IF n.kind \in Pattern_ THEN Spell(n, FALSE) ELSE Paren(Spell(n, FALSE))

Lines(kids) == Join([i \in DOMAIN kids |-> Spell(kids[i], FALSE) \o <<"\n">>], <<>>)

Named_(n, rest) == IF n.text = <<>> THEN rest ELSE <<n.text[1], "::">> \o rest

\* The tokens of tree n; in a header, an open brace would be taken for the body.
Spell(n, header) ==
    LET k == n.kids
        S(i) == Spell(k[i], FALSE)
        H(i) == Spell(k[i], TRUE)
        P(i, most) == Operand_(k[i], most, header)
    IN
    CASE n.kind = "absent" -> <<>>
      [] n.kind = "list" -> Join(Each(k), <<",">>)
      \* types
      [] n.kind = "type_set" -> <<"@type_set">> \o Paren(S(1))
      [] n.kind = "ref_type" -> <<"ref">> \o S(1)
      [] n.kind = "slice_type" -> <<"[", "]">> \o S(1)
      [] n.kind = "array_type" -> <<"[">> \o S(1) \o <<"]">> \o S(2)
      [] n.kind = "fn_type" -> <<"fn">> \o Paren(S(1)) \o S(2)
      [] n.kind = "struct_type" ->
             LET s == <<"struct", "{">> \o S(1) \o <<"}">> IN IF header THEN Paren(s) ELSE s
      [] n.kind = "type_parameter" -> <<"$" \o n.text[1]>>
      [] n.kind = "primitive" -> n.text
      [] n.kind = "named_type" -> Dotted(n.text)
      [] n.kind = "generic_type" -> Dotted(n.text) \o Paren(S(1))
      \* expressions
      [] n.kind \in {"literal", "name", "literal_pattern", "name_pattern"} -> n.text
      [] n.kind = "binary" -> P(1, Looseness(n)) \o n.text \o P(2, Looseness(n) - 1)
      [] n.kind = "unary" -> n.text \o P(1, 0)
      [] n.kind = "call" -> P(1, -1) \o Paren(S(2))
      [] n.kind = "index" -> P(1, -1) \o <<"[">> \o S(2) \o <<"]">>
      [] n.kind = "slice" -> P(1, -1) \o <<"[">> \o S(2) \o <<"..">> \o S(3) \o <<"]">>
      [] n.kind = "access" -> P(1, -1) \o <<".">> \o n.text
      [] n.kind = "cast" -> <<"cast">> \o Paren(S(1) \o <<",">> \o S(2))
      [] n.kind = "intrinsic" -> n.text \o Paren(S(1))
      [] n.kind = "new" -> <<"new">> \o Paren(S(1))
      [] n.kind = "array" -> <<"[">> \o S(1) \o <<"]">>
      [] n.kind = "struct_init" ->
             LET s == Dotted(n.text) \o <<"{">> \o S(1) \o <<"}">> IN IF header THEN Paren(s) ELSE s
      [] n.kind = "generic_init" ->
             LET s == Dotted(n.text) \o Paren(S(1)) \o <<"{">> \o S(2) \o <<"}">>
             IN IF header THEN Paren(s) ELSE s
      [] n.kind = "inline_init" -> S(1) \o <<"{">> \o S(2) \o <<"}">>
      [] n.kind = "init" -> (IF n.text = <<>> THEN <<>> ELSE n.text \o <<":">>) \o S(1)
      [] n.kind = "if_expr" ->
             <<"if">> \o H(1) \o <<"{">> \o S(2) \o <<"}", "else">> \o
             (IF k[3].kind = "if_expr" THEN S(3) ELSE <<"{">> \o S(3) \o <<"}">>)
      [] n.kind \in {"match_expr", "match"} ->
             <<"match">> \o H(1) \o <<"{", "\n">> \o Lines(Tail(k)) \o <<"}">>
      [] n.kind = "case" -> <<"case">> \o S(1) \o <<":">> \o S(2)
      [] n.kind = "else" -> <<"else", ":">> \o S(1)
      \* patterns
      [] n.kind = "patterns" -> Join([i \in DOMAIN k |-> Pat(k[i])], <<",">>)
      [] n.kind = "range_pattern" -> Pat(k[1]) \o <<"..">> \o Pat(k[2])
      [] n.kind = "tag_pattern" ->
             <<".", n.text[1]>> \o (IF Len(n.text) = 1 THEN <<>> ELSE Paren(<<n.text[2]>>))
      [] n.kind = "enum_pattern" -> Dotted(n.text)
      \* definitions
      [] n.kind = "const" ->
             Named_(n, IF n.text = <<>> THEN S(1) ELSE Guarded(S(1), DefinitionStarts))
      [] n.kind = "alias" -> Named_(n, S(1))
      [] n.kind = "function" -> Named_(n, <<"fn">> \o Paren(S(1)) \o S(2) \o S(3) \o S(4))
      [] n.kind = "struct" -> Named_(n, <<"struct", "{">> \o S(1) \o <<"}">> \o S(2))
      [] n.kind = "enum" -> Named_(n, <<"enum", "{">> \o S(1) \o <<"}">>)
      [] n.kind = "union" ->
             LET tagged == n.text # <<>> /\ n.text[Len(n.text)] = "tag"
             IN Named_(n, <<"union">> \o (IF tagged THEN Paren(<<"tag">>) ELSE <<>>)
                          \o <<"{">> \o S(1) \o <<"}">> \o S(2))
      [] n.kind = "generic" -> n.text \o Paren(S(1)) \o <<"::">> \o S(2)
      [] n.kind = "where" -> <<"where">> \o Join(Each(k), <<",">>)
      [] n.kind \in {"bound", "generic_parameter", "parameter", "field"} ->
             LET variadic == n.kind = "parameter" /\ Len(n.text) = 2
                 name == IF n.kind = "generic_parameter" THEN <<"$" \o n.text[1]>>
                         ELSE IF variadic THEN <<n.text[1]>> ELSE n.text
             IN name \o (IF k = <<>> /\ ~variadic THEN <<>> ELSE <<":">>)
                     \o (IF variadic THEN <<"..">> ELSE <<>>) \o Spread(k)
      [] n.kind = "variant" -> n.text \o (IF k = <<>> THEN <<>> ELSE <<"=">> \o S(1))
      [] n.kind = "imported" -> n.text
      [] n.kind = "import_as" -> <<n.text[1], "::", "import", n.text[2]>>
      [] n.kind = "import" ->
             (IF Len(n.text) = 2 THEN <<"using">> ELSE <<>>) \o <<"import", n.text[Len(n.text)]>> \o
             (IF k = <<>> THEN <<>> ELSE <<"{">> \o S(1) \o <<"}">>)
      [] n.kind = "pub" -> <<"pub">> \o S(1)
      \* statements
      [] n.kind = "var" -> n.text \o <<":=">> \o S(1)
      [] n.kind = "typed_var" ->
             n.text \o <<":">> \o S(1) \o (IF Len(k) = 1 THEN <<>> ELSE <<"=">> \o S(2))
      [] n.kind = "expr" -> Guarded(Spell(k[1], header), StatementStarts)
      [] n.kind = "assign" -> Guarded(Spell(k[1], header), StatementStarts) \o n.text \o Spell(k[2], header)
      [] n.kind = "block" -> <<"{", "\n">> \o Lines(k) \o <<"}">>
      [] n.kind \in {"ret", "del", "defer"} -> <<n.kind>> \o Spread(k)
      [] n.kind \in {"fall", "jump"} -> IF n.kind = "fall" THEN <<"fall">> ELSE n.text
      [] n.kind = "labelled" -> n.text \o S(1)
      [] n.kind = "if" -> <<"if">> \o H(1) \o S(2) \o (IF Len(k) = 2 THEN <<>> ELSE <<"else">> \o S(3))
      [] n.kind = "while" -> <<"while">> \o H(1) \o S(2)
      [] n.kind = "forever" -> <<"for">> \o S(1)
      [] n.kind = "for" -> <<"for">> \o H(1) \o S(2)
      [] n.kind = "in" -> Join(Words1(n.text), <<",">>) \o <<"in">> \o H(1)
      [] n.kind = "counted" ->
             (IF k[1].kind = "var" THEN k[1].text \o <<":=">> \o Spell(k[1].kids[1], TRUE) ELSE H(1))
             \o <<";">> \o H(2) \o <<";">> \o H(3)

\* Tokens in a row as one source.
Written(words) ==
    LET upTo[i \in 0..Len(words)] ==
            IF i = 0 THEN "" ELSE upTo[i - 1] \o words[i] \o (IF words[i] = "\n" THEN "" ELSE " ")
    IN upTo[Len(words)]

\* The source of a program.
Program(trees) == Written(Lines(trees))

=============================================================================
