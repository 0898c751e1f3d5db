------------------------------- MODULE Parser -------------------------------
(***************************************************************************)
(* The parser of a7/parser.py on the tokens of the tokenizer: parse_a7.    *)
(*                                                                         *)
(* The code parses with suspended frames on work lists (_statement_work,   *)
(* _expression_work).  "work" is that list.  What a frame still has to do  *)
(* is a sequence of symbols:                                               *)
(*   - a token type: consume a token of that type,                         *)
(*   - the name of a frame: suspend, parse it, take its tree,              *)
(*   - the name of a choice: look ahead, go on with what it is there,      *)
(*   - "->kind": make a node of what the frame has read so far,            *)
(*   - and the few words of the actions below.                             *)
(* The rules give what a frame or a choice is at a token.  A tree has a    *)
(* kind, the names and operators read for it, and subtrees; spans are left *)
(* out.                                                                    *)
(***************************************************************************)
EXTENDS Tokenizer, TLC

CONSTANT MaxNesting

ASSUME NestingAssumption == MaxNesting \in Nat \ {0}

VARIABLES cursor, brackets, work, tried, declarations, parsing

parseVars == <<cursor, brackets, work, tried, declarations, parsing>>

frontVars == <<source, position, line, column, tokens, lexical,
               cursor, brackets, work, tried, declarations, parsing>>

---------------------------------------------------------------------------
(* Token classes. *)

PrimitiveTypes == {"i8", "i16", "i32", "i64", "u8", "u16", "u32", "u64", "isize", "usize",
                   "f32", "f64", "bool", "char", "string"}

TypeOnlyStarts == PrimitiveTypes \cup {"ref", "GENERIC"}

TypeStarts == TypeOnlyStarts \cup {"IDENT", "[", "fn", "struct"}

Literals == {"INT", "FLOAT", "CHAR", "STRING", "true", "false", "nil"}

AssignOps == {"=", "+=", "-=", "*=", "/=", "%=", "&=", "|=", "^=", "<<=", ">>="}

BinaryOps == {"*", "/", "%", "+", "-", "<<", ">>", "<", ">", "<=", ">=", "==", "!=",
              "&", "^", "|", "and", "or"}

\* get_binary_precedence
Precedence(op) ==
    CASE op \in {"*", "/", "%"} -> 12
      [] op \in {"+", "-"} -> 11
      [] op \in {"<<", ">>"} -> 10
      [] op \in {"<", ">", "<=", ">="} -> 9
      [] op \in {"==", "!="} -> 8
      [] op = "&" -> 7
      [] op = "^" -> 6
      [] op = "|" -> 5
      [] op = "and" -> 4
      [] op = "or" -> 3

UnaryOps == {"-", "not", "!", "~"}

Openers == {"(", "[", "{"}

Closers == {")", "]", "}"}

Closer(opener) ==
    CASE opener = "(" -> ")" [] opener = "[" -> "]" [] opener = "{" -> "}"

---------------------------------------------------------------------------
(* Tokens and brackets. *)

\* peek: the last token, "EOF", stands behind the end as well.
Peek(p) == tokens[IF p < Len(tokens) THEN p ELSE Len(tokens)]

T(p) == Peek(p).type

Value(p) == Peek(p).value

Adv(p) == IF p < Len(tokens) THEN p + 1 ELSE p

SkipEols(p) ==
    CHOOSE q \in p..Len(tokens) : T(q) # "EOL" /\ \A k \in p..(q - 1) : T(k) = "EOL"

\* _scan_brackets: the open brackets behind each token, a closer popping the
\* innermost one, whichever it is.
OpenBehind(open, p) ==
    IF T(p) \in Openers THEN Append(open, p)
    ELSE IF T(p) \in Closers /\ open # <<>> THEN SubSeq(open, 1, Len(open) - 1)
    ELSE open

\* The open brackets before each token.
ScanBrackets ==
    LET open[p \in 1..Len(tokens)] == IF p = 1 THEN <<>> ELSE OpenBehind(open[p - 1], p - 1)
    IN open

Depth(p) == Len(brackets[p])

\* close_at: the closer that pairs with the opener at p, or 0.
CloseAt(p) ==
    LET pops == {q \in (p + 1)..Len(tokens) :
                     /\ T(q) \in Closers
                     /\ brackets[q] = Append(brackets[p], p)}
        first == CHOOSE q \in pops : \A k \in pops : q <= k
    IN IF pops # {} /\ T(first) = Closer(T(p)) THEN first ELSE 0

NoHeader == -1

\* _should_parse_struct_literal
StructLiteralHere(p, header) == header = NoHeader \/ Depth(p) > header

\* Type arguments and the "{" of a struct literal may start at p.
LiteralFollows(p, header) ==
    /\ StructLiteralHere(p, header)
    /\ T(p) = "(" /\ CloseAt(p) # 0 /\ T(CloseAt(p) + 1) = "{"

\* "module.Name" is one name when a literal of that type follows.
QualifiedLiteral(p, header) ==
    /\ T(p + 1) = "." /\ T(p + 2) = "IDENT"
    /\ \/ T(p + 3) = "{" /\ StructLiteralHere(p + 3, header)
       \/ LiteralFollows(p + 3, header)

\* _bracket_starts_type: a type follows the bracket pairs at p.
BracketStartsType(p) ==
    LET starts[q \in p..Len(tokens)] ==
            IF T(q) # "[" THEN T(q) \in TypeStarts
            ELSE CloseAt(q) # 0 /\ starts[CloseAt(q) + 1]
    IN starts[p]

\* _is_fn_type_alias: without a named parameter, or without parameters and
\* without a body, it is the alias of a function type.
IsFnTypeAlias(p) ==
    LET inside == SkipEols(p + 2)
        Stops == {"{", "EOL", "EOF"}
        stop == CHOOSE q \in inside..Len(tokens) :
                    T(q) \in Stops /\ \A k \in inside..(q - 1) : T(k) \notin Stops
    IN /\ T(p + 1) = "("
       /\ CASE T(inside) = ")" -> \/ T(stop) = "EOF"
                                  \/ T(stop) = "EOL" /\ T(stop + 1) \notin {"{", "where"}
            [] T(inside) = "IDENT" -> T(SkipEols(inside + 1)) # ":"
            [] OTHER -> TRUE

\* _skip_where_bound: up to a comma, brace, closer or line break outside brackets.
BoundEnd(p) ==
    LET Ends(q) == \/ T(q) = "EOF"
                   \/ Depth(q) = Depth(p) /\ T(q) \in {",", "{", "EOL"} \cup Closers
    IN CHOOSE q \in p..Len(tokens) : Ends(q) /\ \A k \in p..(q - 1) : ~Ends(k)

\* _require_statement_end
StatementEnds(p) == T(p) \in {"EOL", "}", "EOF"} \/ (p > 1 /\ T(p - 1) = "EOL")

---------------------------------------------------------------------------
(* Trees and frames. *)

Node(kind, text, kids) == [kind |-> kind, text |-> text, kids |-> kids]

Absent == Node("absent", <<>>, <<>>)

Refused == <<"error">>

\* A list frame: its items, its closer and what separates the items
\* (_list_separator).  "line" lists take no line breaks, in "rows" a line
\* break separates, "strict" ones have no separator before the closer.
List(item, closer, mode) == [item |-> item, closer |-> closer, mode |-> mode]

Lists ==
    "Types" :> List("Type", ")", "line") @@
    "FnTypes" :> List("Type", ")", "free") @@
    "StructFields" :> List("Field", "}", "rows") @@
    "PublicFields" :> List("PublicField", "}", "rows") @@
    "Variants" :> List("Variant", "}", "rows") @@
    "Arguments" :> List("Argument", ")", "free") @@
    "Inits" :> List("Init", "}", "free") @@
    "Values" :> List("Positional", "}", "free") @@
    "Elements" :> List("Expression", "]", "free") @@
    "StrictTypes" :> List("Type", ")", "strict") @@
    "StrictValues" :> List("Expression", ")", "strict") @@
    "Parameters" :> List("Parameter", ")", "free") @@
    "GenericParameters" :> List("GenericParameter", ")", "line") @@
    "Names" :> List("Imported", "}", "line")

\* Where the next item or the closer is, or 0.
Separator(p, list) ==
    LET q == IF list.mode \in {"line", "strict"} THEN p ELSE SkipEols(p)
    IN CASE T(q) = "," /\ list.mode = "strict" -> IF T(q + 1) = list.closer THEN 0 ELSE q + 1
         [] T(q) = "," /\ list.mode = "line" -> q + 1
         [] T(q) = "," -> SkipEols(q + 1)
         [] T(q) = list.closer \/ (list.mode = "rows" /\ q # p) -> q
         [] OTHER -> 0

\* Frames that enter a nesting level, that start a header.
Nesting == {"Type", "Binary", "Unary", "IfExpr", "Statement"}

Headers == {"Header", "ForHeader"}

Items == {"Field", "PublicField", "Variant", "Argument", "Init", "Positional",
          "Parameter", "GenericParameter", "Imported"}

Frames == Nesting \cup Headers \cup Items \cup DOMAIN Lists \cup
          {"Expression", "Operand", "Primary", "MatchExpr", "Patterns", "Pattern",
           "PrimaryPattern", "CaseArm", "ElseArm", "CaseValue", "ElseValue", "WhereClause",
           "Bound", "Block", "Match", "Simple", "Declaration", "Named", "Generic",
           "Unnamed"}

---------------------------------------------------------------------------
(* Types. *)

TypeRule(p) ==
    CASE T(p) = "BUILTIN" /\ Value(p) = "@type_set" -> <<"BUILTIN", "(", "Types", "->type_set">>
      [] T(p) = "ref" -> <<"ref", "Type", "->ref_type">>
      [] T(p) = "[" -> IF T(p + 1) = "]" THEN <<"[", "]", "Type", "->slice_type">>
                       ELSE <<"[", "Expression", "]", "Type", "->array_type">>
      [] T(p) = "fn" -> <<"fn", "(", "FnTypes", "FnResult", "->fn_type">>
      [] T(p) = "struct" -> <<"struct", "{", "StructFields", "->struct_type">>
      [] T(p) = "GENERIC" -> <<"GENERIC", "->type_parameter">>
      [] T(p) = "IDENT" -> IF T(p + 1) = "." THEN <<"IDENT", ".", "IDENT", "TypeArguments">>
                           ELSE <<"IDENT", "TypeArguments">>
      [] T(p) \in PrimitiveTypes -> <<"any", "->primitive">>
      [] OTHER -> Refused

FnResultRule(p) ==
    IF T(p) \in {"EOL", "=", ")", "]", "}", "{", ",", "EOF"} THEN <<"absent">> ELSE <<"Type">>

TypeArgumentsRule(p) ==
    IF T(p) = "(" THEN <<"(", "Types", "->generic_type">> ELSE <<"->named_type">>

---------------------------------------------------------------------------
(* Expressions. *)

\* The loop of parse_binary_expression.
TailRule(p, least) ==
    IF T(p) \notin BinaryOps \/ Precedence(T(p)) < least THEN <<>>
    ELSE IF T(p + 1) \in {"EOF", "EOL", ")", "}", "]", ","} THEN Refused
    ELSE <<"any", "Operand", "->binary", "Tail">>

UnaryRule(p) ==
    IF T(p) \in UnaryOps THEN <<"any", "Unary", "->unary">> ELSE <<"Primary", "Postfix">>

\* The loop of parse_postfix_expression, behind "object".
PostfixRule(p, object) ==
    CASE T(p) = "(" -> IF object.kind = "new" THEN Refused
                       ELSE <<"(", "Arguments", "->call", "Postfix">>
      [] T(p) = "[" -> <<"[", "Index", "Postfix">>
      [] T(p) = "." -> <<".", "IDENT", "->access", "Postfix">>
      [] OTHER -> <<>>

IndexRule(p) ==
    IF T(p) = ".." THEN <<"absent", "..", "SliceEnd">> ELSE <<"Expression", "IndexEnd">>

IndexEndRule(p) == IF T(p) = ".." THEN <<"..", "SliceEnd">> ELSE <<"]", "->index">>

SliceEndRule(p) ==
    IF T(p) = "]" THEN <<"absent", "]", "->slice">> ELSE <<"Expression", "]", "->slice">>

\* _parse_call_argument
ArgumentRule(p) ==
    IF T(p) \in TypeOnlyStarts \cup {"fn"} \/ (T(p) = "[" /\ BracketStartsType(p))
    THEN <<"Type">>
    ELSE <<"Expression">>

NewRule(p) ==
    IF T(p + 1) = "(" THEN <<"new", "(", "Type", ")", "->new">> ELSE <<"new", "Type", "->new">>

\* Some intrinsics take types.
IntrinsicRule(p) ==
    CASE Value(p) = "@type_set" -> <<"BUILTIN", "(", "Types", "->type_set">>
      [] Value(p) \in {"@size_of", "@align_of", "@type_id", "@type_name"} ->
             <<"BUILTIN", "(", "StrictTypes", "->intrinsic">>
      [] OTHER -> <<"BUILTIN", "(", "StrictValues", "->intrinsic">>

ArrayRule == <<"[", "Elements", "->array">>

PrimaryRule(p, header) ==
    CASE T(p) \in Literals -> <<"any", "->literal">>
      [] T(p) = "struct" -> <<"Type", "InlineLiteral">>
      [] T(p) = "GENERIC" -> <<"GENERIC", "->name">>
      [] T(p) = "new" -> NewRule(p)
      [] T(p) = "[" -> ArrayRule
      [] T(p) = "BUILTIN" -> IntrinsicRule(p)
      [] T(p) = "IDENT" -> IF QualifiedLiteral(p, header) THEN <<"IDENT", ".", "IDENT", "Name">>
                           ELSE <<"IDENT", "Name">>
      [] T(p) = "(" -> <<"(", "Expression", ")">>
      [] T(p) = "if" -> <<"IfExpr">>
      [] T(p) = "match" -> <<"MatchExpr">>
      [] OTHER -> Refused

InlineLiteralRule(p) == IF T(p) = "{" THEN <<"{", "Fields", "->inline_init">> ELSE <<>>

\* parse_struct_literal: the first item decides whether fields are named.
FieldsRule(p) ==
    IF T(SkipEols(p)) = "IDENT" /\ T(SkipEols(p) + 1) = ":" THEN <<"Inits">> ELSE <<"Values">>

\* Behind a name, a generic literal may be tried.
Tries(p, header) == LiteralFollows(p, header) /\ p \notin tried

NameRule(p, text, header) ==
    IF text = <<"cast">> /\ T(p) = "(" THEN <<"(", "Type", ",", "Expression", ")", "->cast">>
    ELSE IF Tries(p, header) THEN <<"(", "Types", "{", "Fields", "->generic_init">>
    ELSE IF T(p) = "{" /\ StructLiteralHere(p, header) THEN <<"{", "Fields", "->struct_init">>
    ELSE <<"->name">>

\* An if expression has both branches, each one expression in braces.
IfExprRule ==
    <<"if", "Header", "{", "skip", "Expression", "skip", "}", "else", "ElseExpr", "->if_expr">>

ElseExprRule(p) ==
    IF T(p) = "if" THEN <<"IfExpr">> ELSE <<"{", "skip", "Expression", "skip", "}">>

---------------------------------------------------------------------------
(* Patterns and the arms of matches. *)

PrimaryPatternRule(p) ==
    CASE T(p) \in Literals -> <<"any", "->literal_pattern">>
      [] T(p) = "." -> IF T(p + 2) # "(" THEN <<".", "IDENT", "->tag_pattern">>
                       ELSE IF Value(p + 3) = "_" THEN Refused
                       ELSE <<".", "IDENT", "(", "IDENT", ")", "->tag_pattern">>
      [] T(p) = "IDENT" /\ T(p + 1) = "." ->
             IF T(p + 3) = "." THEN <<"IDENT", ".", "IDENT", ".", "IDENT", "->enum_pattern">>
             ELSE <<"IDENT", ".", "IDENT", "->enum_pattern">>
      [] T(p) = "IDENT" /\ T(p + 1) # "." -> <<"IDENT", "->name_pattern">>
      [] OTHER -> <<"Expression">>

RangeRule(p) == IF T(p) = ".." THEN <<"..", "PrimaryPattern", "->range_pattern">> ELSE <<>>

MorePatternsRule(p) ==
    IF T(p) = "," THEN <<",", "Pattern", "MorePatterns">> ELSE <<"->patterns">>

\* "else:" comes once and last; what is no arm is a fatal error.
ArmsRule(p, frame) ==
    LET value == frame.name = "MatchExpr"
        closed == frame.kids[Len(frame.kids)].kind = "else"
    IN CASE T(p) \in {"}", "EOF"} -> <<"}", IF value THEN "->match_expr" ELSE "->match">>
         [] T(p) \in {"case", "else"} /\ closed -> Refused
         [] T(p) = "case" /\ ~closed ->
                <<IF value THEN "CaseValue" ELSE "CaseArm", "skip", "Arms">>
         [] T(p) = "else" /\ ~closed ->
                <<IF value THEN "ElseValue" ELSE "ElseArm", "skip", "Arms">>
         [] OTHER -> <<"fatal">>

---------------------------------------------------------------------------
(* Definitions: functions, structs, enums, unions, aliases, constants. *)

WhereRule(p) == IF T(p) = "where" THEN <<"WhereClause">> ELSE <<"absent">>

BoundsRule(p) == IF T(p) \in {"{", "EOF"} THEN Refused ELSE <<"Bound", "MoreBounds">>

MoreBoundsRule(p) == IF T(p) = "," THEN <<",", "skip", "Bounds">> ELSE <<"->where">>

\* A bound "T: Set"; what else stands there is kept as an invalid bound.
BoundRule(p) == IF T(p) = "IDENT" THEN <<"IDENT", "skip", "Membership">> ELSE <<"skip", "Invalid">>

MembershipRule(p) == IF T(p) = ":" THEN <<":", "skip", "Type", "Bounded">> ELSE <<"Invalid">>

BoundedRule(p) ==
    IF T(p) \in {",", "{", "EOL", "EOF"} THEN <<"skip", "->bound">> ELSE <<"Invalid">>

FunctionRule ==
    <<"fn", "(", "Parameters", "Result", "skip", "Where", "skip", "Block", "->function">>

ResultRule(p) == IF T(p) \in TypeStarts THEN <<"Type">> ELSE <<"absent">>

ParameterTypeRule(p) ==
    CASE T(p) = ".." -> IF T(p + 1) \in {",", ")"} THEN <<"any", "->parameter">>
                        ELSE <<"any", "Type", "->parameter">>
      [] T(p) \in {",", ")"} -> Refused
      [] OTHER -> <<"Type", "->parameter">>

StructRule == <<"struct", "{", "PublicFields", "skip", "Where", "->struct">>

EnumRule == <<"enum", "{", "Variants", "->enum">>

UnionRule == <<"union", "Tag", "{", "StructFields", "skip", "Where", "->union">>

TagRule(p) ==
    CASE T(p) # "(" -> <<>>
      [] T(p) = "(" /\ Value(p + 1) = "tag" -> <<"(", "IDENT", ")">>
      [] OTHER -> <<"(", ")">>

VariantValueRule(p) == IF T(p) = "=" THEN <<"=", "Expression", "->variant">> ELSE <<"->variant">>

ConstraintRule(p) ==
    IF T(p) = ":" THEN <<":", "Type", "->generic_parameter">> ELSE <<"->generic_parameter">>

\* What stands behind "name ::", for the frame in which it stands.
DefinedRule(p, where) ==
    CASE T(p) = "fn" -> IF where # "Unnamed" /\ IsFnTypeAlias(p) THEN <<"Type", "->alias">>
                        ELSE FunctionRule
      [] T(p) = "struct" -> StructRule
      [] T(p) = "enum" -> EnumRule
      [] T(p) = "union" -> UnionRule
      [] T(p) = "import" /\ where = "Named" -> <<"import", "STRING", "->import_as">>
      [] T(p) \in TypeOnlyStarts \cup {"["} /\ where # "Unnamed" -> <<"Type", "->alias">>
      [] OTHER -> <<"Expression", "->const">>

InitialRule(p) == IF T(p) = "=" THEN <<"=", "Expression", "->typed_var">> ELSE <<"->typed_var">>

---------------------------------------------------------------------------
(* Statements. *)

StatementRule(p) ==
    CASE T(p) = "BUILTIN" /\ T(p + 1) \in {"for", "while"} -> <<"BUILTIN", "Statement", "->labelled">>
      [] T(p) = "ret" -> IF T(p + 1) \in {"EOL", "}"} THEN <<"ret", "->ret">>
                         ELSE <<"ret", "Expression", "->ret">>
      [] T(p) \in {"break", "continue"} -> IF T(p + 1) = "IDENT" THEN <<"any", "IDENT", "->jump">>
                                           ELSE <<"any", "->jump">>
      [] T(p) = "fall" -> <<"fall", "->fall">>
      [] T(p) = "match" -> <<"Match">>
      [] T(p) = "defer" -> <<"defer", "Statement", "->defer">>
      [] T(p) = "del" -> <<"del", "Expression", "->del">>
      [] T(p) = "if" -> <<"if", "Header", "Block", "Else", "->if">>
      [] T(p) = "while" -> <<"while", "Header", "Block", "->while">>
      [] T(p) = "for" -> IF T(p + 1) = "{" THEN <<"for", "Block", "->forever">>
                         ELSE <<"for", "ForHeader", "Block", "->for">>
      [] T(p) = "{" -> <<"Block">>
      [] T(p) = "IDENT" /\ T(p + 1) = ":=" -> <<"IDENT", ":=", "Expression", "->var">>
      [] T(p) = "IDENT" /\ T(p + 1) = ":" -> IF T(p + 2) \in {"for", "while"} THEN Refused
                                             ELSE <<"IDENT", ":", "Type", "Initial">>
      [] T(p) = "IDENT" /\ T(p + 1) = "::" -> <<"IDENT", "::", "Defined">>
      [] OTHER -> <<"Simple">>

\* Both branches are blocks; "else if" chains.
ElseRule(p) ==
    CASE T(p) # "else" -> <<>>
      [] T(p) = "else" /\ T(p + 1) \in {"if", "{"} -> <<"else", "Statement">>
      [] OTHER -> Refused

\* _parse_for_header
ForHeaderRule(p) ==
    CASE T(p) = "IDENT" /\ T(p + 1) = "," -> <<"IDENT", ",", "IDENT", "in", "Expression", "->in">>
      [] T(p) = "IDENT" /\ T(p + 1) = "in" -> <<"IDENT", "in", "Expression", "->in">>
      [] T(p) = "IDENT" /\ T(p + 1) = ":=" ->
             <<"IDENT", ":=", "Expression", "->var", "EOL", "Expression", "EOL", "Simple", "->counted">>
      [] T(p) = "IDENT" /\ T(p + 1) \notin {",", "in", ":="} ->
             <<"Simple", "EOL", "Expression", "EOL", "Simple", "->counted">>
      [] OTHER -> Refused

StatementsRule(p) ==
    IF T(p) \in {"}", "EOF"} THEN <<"}", "->block">>
    ELSE <<"Statement", "end", "skip", "Statements">>

\* parse_expression_or_assignment, behind the expression "target".
AssignedRule(p, target) ==
    CASE T(p) \notin AssignOps -> <<"->expr">>
      [] T(p) \in AssignOps /\ target.kind \in {"name", "access", "index"} ->
             <<"any", "Expression", "->assign">>
      [] OTHER -> Refused

---------------------------------------------------------------------------
(* Top-level declarations. *)

\* Mutant: "using" is a name wherever it stands.
NamesFirst(p) ==
    CASE T(p) = "import" -> <<"import", "STRING", "ImportList">>
      [] T(p) = "pub" -> IF T(p + 1) = "import" THEN Refused ELSE <<"pub", "Named", "->pub">>
      [] OTHER -> <<"Named">>

DeclarationRule(p) ==
    LET using(q) == T(q) = "IDENT" /\ Value(q) = "using" /\ T(q + 1) = "import"
    IN CASE T(p) = "import" -> <<"import", "STRING", "ImportList">>
         [] using(p) -> <<"IDENT", "import", "STRING", "ImportList">>
         [] T(p) = "pub" -> IF T(p + 1) = "import" \/ using(p + 1) THEN Refused
                            ELSE <<"pub", "Named", "->pub">>
         [] OTHER -> <<"Named">>

ImportListRule(p) == IF T(p) = "{" THEN <<"{", "Names", "->import">> ELSE <<"->import">>

NamedRule(p) ==
    CASE T(p) = "IDENT" /\ T(p + 1) = "::" -> <<"IDENT", "::", "Defined">>
      [] T(p) = "IDENT" /\ T(p + 1) = ":=" -> <<"IDENT", ":=", "Expression", "->var">>
      [] T(p) = "IDENT" /\ T(p + 1) = ":" -> <<"IDENT", ":", "Type", "Initial">>
      [] T(p) = "IDENT" /\ T(p + 1) = "(" -> <<"Generic">>
      [] OTHER -> Refused

---------------------------------------------------------------------------
(* The rules together. *)

ListRule(frame, p) ==
    LET list == Lists[frame.name]
    IN IF T(p) = list.closer THEN <<list.closer, "->list">> ELSE <<list.item, "separator", "More">>

\* What a frame does that starts at p.
FrameRule(name, p, header) ==
    CASE name \in DOMAIN Lists -> IF Lists[name].mode \in {"free", "rows"} THEN <<"skip", "More">>
                                  ELSE <<"More">>
      [] name = "Type" -> TypeRule(p)
      [] name \in {"Expression", "Header"} -> <<"Binary">>
      [] name \in {"Binary", "Operand"} -> <<"Unary", "Tail">>
      [] name = "Unary" -> UnaryRule(p)
      [] name = "Primary" -> PrimaryRule(p, header)
      [] name = "IfExpr" -> IfExprRule
      [] name = "MatchExpr" -> <<"match", "Header", "{", "skip", "Arms">>
      [] name = "Match" -> <<"match", "Header", "{", "skip", "Arms">>
      [] name = "CaseArm" -> <<"case", "Patterns", ":", "Statement", "->case">>
      [] name = "ElseArm" -> <<"else", ":", "Statement", "->else">>
      [] name = "CaseValue" -> <<"case", "Patterns", ":", "Expression", "->case">>
      [] name = "ElseValue" -> <<"else", ":", "Expression", "->else">>
      [] name = "Patterns" -> <<"Pattern", "MorePatterns">>
      [] name = "Pattern" -> <<"PrimaryPattern", "Range">>
      [] name = "PrimaryPattern" -> PrimaryPatternRule(p)
      [] name = "WhereClause" -> <<"where", "skip", "Bounds">>
      [] name = "Bound" -> BoundRule(p)
      [] name = "Block" -> <<"{", "skip", "Statements">>
      [] name = "Statement" -> StatementRule(p)
      [] name = "Simple" -> <<"Expression", "Assigned">>
      [] name = "ForHeader" -> ForHeaderRule(p)
      [] name = "Declaration" -> DeclarationRule(p)
      [] name = "Named" -> NamedRule(p)
      [] name = "Generic" -> <<"IDENT", "(", "GenericParameters", "::", "Unnamed", "->generic">>
      [] name = "Unnamed" -> <<"Defined">>
      [] name = "Field" -> <<"IDENT", ":", "Type", "->field">>
      [] name = "PublicField" -> IF T(p) = "pub" THEN <<"any", "IDENT", ":", "Type", "->field">>
                                 ELSE <<"IDENT", ":", "Type", "->field">>
      [] name = "Variant" -> <<"IDENT", "VariantValue">>
      [] name = "Argument" -> ArgumentRule(p)
      [] name = "Init" -> <<"IDENT", ":", "Expression", "->init">>
      [] name = "Positional" -> <<"Expression", "->init">>
      [] name = "Parameter" -> <<"IDENT", ":", "ParameterType">>
      [] name = "GenericParameter" -> <<"GENERIC", "Constraint">>
      [] name = "Imported" -> <<"IDENT", "->imported">>

Choices == {"More", "FnResult", "TypeArguments", "Tail", "Postfix", "Index", "IndexEnd",
            "SliceEnd", "InlineLiteral", "Fields", "Name", "ElseExpr", "Range",
            "MorePatterns", "Arms", "Where", "Bounds", "MoreBounds", "Membership",
            "Bounded", "Invalid", "Result", "ParameterType", "Tag", "VariantValue",
            "Constraint", "Defined", "Initial", "Else", "Statements", "Assigned", "ImportList"}

\* What a choice of a frame is at p.
ChoiceRule(name, p, frame) ==
    CASE name = "More" -> ListRule(frame, p)
      [] name = "FnResult" -> FnResultRule(p)
      [] name = "TypeArguments" -> TypeArgumentsRule(p)
      [] name = "Tail" -> TailRule(p, frame.least)
      [] name = "Postfix" -> PostfixRule(p, frame.kids[1])
      [] name = "Index" -> IndexRule(p)
      [] name = "IndexEnd" -> IndexEndRule(p)
      [] name = "SliceEnd" -> SliceEndRule(p)
      [] name = "InlineLiteral" -> InlineLiteralRule(p)
      [] name = "Fields" -> FieldsRule(p)
      [] name = "Name" -> NameRule(p, frame.text, frame.header)
      [] name = "ElseExpr" -> ElseExprRule(p)
      [] name = "Range" -> RangeRule(p)
      [] name = "MorePatterns" -> MorePatternsRule(p)
      [] name = "Arms" -> ArmsRule(p, frame)
      [] name = "Where" -> WhereRule(p)
      [] name = "Bounds" -> BoundsRule(p)
      [] name = "MoreBounds" -> MoreBoundsRule(p)
      [] name = "Membership" -> MembershipRule(p)
      [] name = "Bounded" -> BoundedRule(p)
      [] name = "Invalid" -> <<"to_bound_end", "->invalid_bound">>
      [] name = "Result" -> ResultRule(p)
      [] name = "ParameterType" -> ParameterTypeRule(p)
      [] name = "Tag" -> TagRule(p)
      [] name = "VariantValue" -> VariantValueRule(p)
      [] name = "Constraint" -> ConstraintRule(p)
      [] name = "Defined" -> DefinedRule(p, frame.name)
      [] name = "Initial" -> InitialRule(p)
      [] name = "Else" -> ElseRule(p)
      [] name = "Statements" -> StatementsRule(p)
      [] name = "Assigned" -> AssignedRule(p, frame.kids[1])
      [] name = "ImportList" -> ImportListRule(p)

---------------------------------------------------------------------------
(* The driver. *)

Top == work[Len(work)]

Symbol == Head(Top.todo)

\* The frame on top becomes "frame".
Become(frame) == work' = [work EXCEPT ![Len(work)] = frame]

\* The frame on top goes on, having done its first symbol.
GoOn == Become([Top EXCEPT !.todo = Tail(@)])

TreesUnchanged == UNCHANGED <<brackets, declarations, parsing>>

LexUnchanged == UNCHANGED <<source, position, line, column, tokens, lexical>>

Words == {"any", "skip", "separator", "end", "to_bound_end", "absent", "error", "fatal"}

IsFold(symbol) == Len(symbol) > 2 /\ SubSeq(symbol, 1, 2) = "->"

IsToken(symbol) == symbol \notin Frames \cup Choices \cup Words /\ ~IsFold(symbol)

\* The names and operators a tree keeps: "!" is the operator "not", and
\* "$" and "@" are dropped from type parameters and labels.
Kept(p) ==
    CASE T(p) \in {"IDENT", "STRING"} -> <<Value(p)>>
      [] T(p) = "GENERIC" -> <<SubSeq(Value(p), 2, Len(Value(p)))>>
      [] T(p) = "BUILTIN" -> IF Value(p) = "@type_set" THEN <<>> ELSE <<Value(p)>>
      [] OTHER -> <<>>

Failing ==
    \/ Symbol \in {"error", "fatal"}
    \/ IsToken(Symbol) /\ T(cursor) # Symbol
    \/ Symbol = "separator" /\ Separator(cursor, Lists[Top.name]) = 0
    \/ Symbol = "end" /\ ~StatementEnds(cursor)
    \/ Symbol \in Frames /\ Top.depth = MaxNesting
                         /\ Symbol \in Nesting \cup {"Operand"}

Busy == parsing = "parsing" /\ work # <<>>

Running == Busy /\ Top.todo # <<>> /\ ~Failing

\* consume()
Consume ==
    /\ Running /\ IsToken(Symbol)
    /\ cursor' = Adv(cursor)
    /\ Become([Top EXCEPT !.todo = Tail(@), !.text = @ \o Kept(cursor)])
    /\ UNCHANGED tried /\ TreesUnchanged /\ LexUnchanged

\* A token that the rule has seen, kept by its text.
ConsumeAny ==
    /\ Running /\ Symbol = "any"
    /\ cursor' = Adv(cursor)
    /\ Become([Top EXCEPT !.todo = Tail(@),
                          !.text = Append(@, IF T(cursor) = "!" THEN "not" ELSE Value(cursor))])
    /\ UNCHANGED tried /\ TreesUnchanged /\ LexUnchanged

\* skip_terminators, _list_separator and _skip_where_bound move the cursor.
Move ==
    /\ Running /\ Symbol \in {"skip", "separator", "to_bound_end", "end"}
    /\ cursor' = CASE Symbol = "skip" -> SkipEols(cursor)
                   [] Symbol = "separator" -> Separator(cursor, Lists[Top.name])
                   [] Symbol = "to_bound_end" -> BoundEnd(cursor)
                   [] Symbol = "end" -> cursor
    /\ GoOn
    /\ UNCHANGED tried /\ TreesUnchanged /\ LexUnchanged

\* A look ahead; the start of a generic literal is remembered for a retry.
Choose ==
    /\ Running /\ Symbol \in Choices
    /\ Become([Top EXCEPT !.todo = ChoiceRule(Symbol, cursor, Top) \o Tail(@),
                          !.retry = IF /\ Symbol = "Name" /\ Top.text # <<"cast">>
                                       /\ Tries(cursor, Top.header)
                                    THEN cursor ELSE @])
    /\ UNCHANGED <<cursor, tried>> /\ TreesUnchanged /\ LexUnchanged

\* A frame is suspended for another one.  The right operand of an operator
\* takes operators that bind more tightly only.
Suspend ==
    /\ Running /\ Symbol \in Frames
    /\ \E header \in {IF Symbol \in Headers THEN Depth(cursor) ELSE Top.header} :
           work' = Append([work EXCEPT ![Len(work)].todo = Tail(@)],
                          [name |-> Symbol,
                           todo |-> FrameRule(Symbol, cursor, header),
                           text |-> <<>>,
                           kids |-> <<>>,
                           least |-> IF Symbol = "Operand"
                                     THEN Precedence(Top.text[Len(Top.text)]) + 1 ELSE 0,
                           depth |-> IF Symbol \in Nesting \cup {"Operand"}
                                     THEN Top.depth + 1 ELSE Top.depth,
                           header |-> header,
                           retry |-> 0])
    /\ UNCHANGED <<cursor, tried>> /\ TreesUnchanged /\ LexUnchanged

\* A node of what the frame has read.
Fold ==
    /\ Running /\ (IsFold(Symbol) \/ Symbol = "absent")
    /\ Become(IF Symbol = "absent" THEN [Top EXCEPT !.todo = Tail(@), !.kids = Append(@, Absent)]
              ELSE [Top EXCEPT !.todo = Tail(@), !.text = <<>>,
                               !.kids = <<Node(SubSeq(Symbol, 3, Len(Symbol)), Top.text, Top.kids)>>])
    /\ UNCHANGED <<cursor, tried>> /\ TreesUnchanged /\ LexUnchanged

\* A finished frame hands its tree to the one that waits for it.
Resume ==
    /\ Busy /\ Len(work) > 1 /\ Top.todo = <<>>
    /\ work' = [SubSeq(work, 1, Len(work) - 1)
                    EXCEPT ![Len(work) - 1].kids = Append(@, Top.kids[1])]
    /\ UNCHANGED <<cursor, tried>> /\ TreesUnchanged /\ LexUnchanged

\* An error, unless it is fatal, ends at the innermost generic literal that
\* is being tried, which is then parsed as a plain name.
Retry ==
    /\ Busy /\ Top.todo # <<>> /\ Failing /\ Symbol # "fatal"
    /\ \E i \in DOMAIN work :
           /\ work[i].retry # 0 /\ \A j \in (i + 1)..Len(work) : work[j].retry = 0
           /\ cursor' = work[i].retry
           /\ tried' = tried \cup {work[i].retry}
           /\ work' = Append(SubSeq(work, 1, i - 1),
                             [work[i] EXCEPT !.todo = <<"Name">>, !.kids = <<>>, !.retry = 0])
    /\ TreesUnchanged /\ LexUnchanged

\* The first other error is the result: no partial tree is used.
Reject ==
    /\ Busy /\ Top.todo # <<>> /\ Failing
    /\ Symbol = "fatal" \/ \A i \in DOMAIN work : work[i].retry = 0
    /\ parsing' = "rejected"
    /\ UNCHANGED <<cursor, brackets, work, tried, declarations>> /\ LexUnchanged

StartParser ==
    /\ lexical.state = "done" /\ parsing = "idle"
    /\ brackets' = ScanBrackets
    /\ cursor' = SkipEols(1)
    /\ parsing' = "parsing"
    /\ UNCHANGED <<work, tried, declarations>> /\ LexUnchanged

\* One turn of the loop of parse().
StartDeclaration ==
    /\ parsing = "parsing" /\ work = <<>> /\ T(cursor) # "EOF"
    /\ work' = <<[name |-> "Declaration",
                  todo |-> DeclarationRule(cursor) \o <<"end", "skip">>,
                  text |-> <<>>, kids |-> <<>>, least |-> 0, depth |-> 0,
                  header |-> NoHeader, retry |-> 0]>>
    /\ UNCHANGED <<cursor, tried>> /\ TreesUnchanged /\ LexUnchanged

FinishDeclaration ==
    /\ Busy /\ Len(work) = 1 /\ Top.todo = <<>>
    /\ declarations' = Append(declarations, Top.kids[1])
    /\ work' = <<>>
    /\ UNCHANGED <<cursor, brackets, tried, parsing>> /\ LexUnchanged

FinishProgram ==
    /\ parsing = "parsing" /\ work = <<>> /\ T(cursor) = "EOF"
    /\ parsing' = "parsed"
    /\ UNCHANGED <<cursor, brackets, work, tried, declarations>> /\ LexUnchanged

InitParse ==
    /\ cursor = 0
    /\ brackets = <<>>
    /\ work = <<>>
    /\ tried = {}
    /\ declarations = <<>>
    /\ parsing = "idle"

NextParse ==
    \/ StartParser
    \/ StartDeclaration
    \/ Consume
    \/ ConsumeAny
    \/ Move
    \/ Choose
    \/ Suspend
    \/ Fold
    \/ Resume
    \/ Retry
    \/ Reject
    \/ FinishDeclaration
    \/ FinishProgram

NextFront == (NextLex /\ UNCHANGED parseVars) \/ NextParse

=============================================================================
