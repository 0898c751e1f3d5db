----------------------------- MODULE Tokenizer -----------------------------
(***************************************************************************)
(* The tokenizer of a7/tokens.py: one action for each branch of the loop   *)
(* of tokenize(), which skips blanks and then reads one token or comment   *)
(* or gives up with an error.                                              *)
(*                                                                         *)
(* A source is a string.  Two characters that no A7 token contains stand   *)
(* for the letters outside ASCII (isalpha() is true of them, isascii() is  *)
(* not): "\f" for one up to code point 255 and "?" for one above.          *)
(* Operators, punctuation and keywords are tokens whose type is their      *)
(* text; the type of both terminators is "EOL".                            *)
(***************************************************************************)
EXTENDS Integers, Sequences, FiniteSets

CONSTANTS MaxIdentifier, MaxNumber, MaxString

ASSUME LimitsAssumption ==
    {MaxIdentifier, MaxNumber, MaxString} \subseteq Nat \ {0}

VARIABLES source, position, line, column, tokens, lexical

lexVars == <<source, position, line, column, tokens, lexical>>

---------------------------------------------------------------------------
(* Characters and tables. *)

None == ""

Digits == {"0", "1", "2", "3", "4", "5", "6", "7", "8", "9"}

HexDigits == Digits \cup {"a", "b", "c", "d", "e", "f", "A", "B", "C", "D", "E", "F"}

Letters ==
    {"a", "b", "c", "d", "e", "f", "A", "B", "C", "D", "E", "F", "g", "h", "i", "j", "k", "l", "m", "n", "o", "p", "q", "r", "s", "t", "u", "v", "w",
     "x", "y", "z", "G", "H", "I", "J", "K", "L", "M", "N", "O", "P", "Q", "R", "S", "T",
     "U", "V", "W", "X", "Y", "Z"}

NameChars == Letters \cup Digits \cup {"_"}

\* What isalnum() lets through after "@" and "$".
WideNameChars == NameChars \cup {"\f", "?"}

Escapes == {"n", "t", "r", "\\", "'", "\"", "0"}

KEYWORDS ==
    {"and", "as", "bool", "break", "case", "char", "continue", "del", "defer", "else", "enum",
     "f32", "f64", "fall", "false", "float", "fn", "for", "if", "import", "in", "int", "i8",
     "i16", "i32", "i64", "isize", "let", "match", "new", "nil", "not", "or", "pub", "ref",
     "ret", "string", "struct", "true", "union", "u8", "u16", "u32", "u64", "uint", "usize",
     "where", "while"}

Operators ==
    {"<<=", ">>=", "::", ":=", "==", "!=", "<=", ">=", "<<", ">>", "+=", "-=", "*=", "/=",
     "%=", "&=", "|=", "^=", "..", "+", "-", "*", "/", "%", "=", "<", ">", "&", "|", "^",
     "~", "!", ";", ":", ",", ".", "(", ")", "[", "]", "{", "}"}

---------------------------------------------------------------------------
(* Reading ahead in the source: positions count the characters before them. *)

CharAt(i) == IF i < Len(source) THEN SubSeq(source, i + 1, i + 1) ELSE None

Slice(from, to) == SubSeq(source, from + 1, to)

\* The end of the run of characters of "class" that starts at i.
EndOf(class, i) ==
    CHOOSE j \in i..Len(source) :
        /\ CharAt(j) \notin class
        /\ \A k \in i..(j - 1) : CharAt(k) \in class

\* The end of the line i is on.
LineEnd(i) ==
    CHOOSE j \in i..Len(source) :
        /\ CharAt(j) \in {"\n", None}
        /\ \A k \in i..(j - 1) : CharAt(k) # "\n"

\* advance() up to p: a newline starts the next line at column 1.
Newlines(p) == {k \in position..(p - 1) : CharAt(k) = "\n"}

LineOfLast(p) == line + (IF Newlines(p) = {} THEN 0 ELSE 1)

LineAt(p) == line + Cardinality(Newlines(p))

ColumnAt(p) ==
    IF Newlines(p) = {} THEN column + (p - position)
    ELSE p - (CHOOSE k \in Newlines(p) : \A j \in Newlines(p) : j <= k)

MoveTo(p) ==
    /\ position' = p
    /\ line' = LineAt(p)
    /\ column' = ColumnAt(p)

\* Where the next token or comment starts: after blanks.
Start == EndOf({" ", "\r"}, position)

---------------------------------------------------------------------------
(* The outcomes of one turn of the loop. *)

Reading == lexical.state = "reading"

Token(type, from, to) ==
    [type |-> type, value |-> Slice(from, to), line |-> LineAt(from), column |-> ColumnAt(from)]

\* Of adjacent terminators only the first is a token.
AddToken(token) ==
    tokens' = IF token.type = "EOL" /\ tokens # <<>> /\ tokens[Len(tokens)].type = "EOL"
              THEN tokens
              ELSE Append(tokens, token)

Emit(type, to) ==
    /\ AddToken(Token(type, Start, to))
    /\ MoveTo(to)
    /\ UNCHANGED <<source, lexical>>

\* An error is reported at the character "at" and ends the tokenizing.
Refuse(kind, at) ==
    /\ lexical' = [state |-> "error", kind |-> kind, line |-> LineAt(at), column |-> ColumnAt(at)]
    /\ MoveTo(at)
    /\ UNCHANGED <<source, tokens>>

---------------------------------------------------------------------------
(* Comments. *)

\* Positions at which a comment opened at i is at depth 0 again; the text
\* "/*" and "*/" are read two characters at a time, from the left.
BlockEnd(i) ==
    LET depth[j \in i..Len(source)] ==
            \* <<depth before j, TRUE if j is the second character of a mark>>
            IF j = i THEN <<0, FALSE>>
            ELSE LET before == depth[j - 1]
                     mark == CharAt(j - 1) \o CharAt(j)
                 IN CASE before[2] -> <<before[1], FALSE>>
                      [] mark = "/*" -> <<before[1] + 1, TRUE>>
                      [] mark = "*/" -> <<before[1] - 1, TRUE>>
                      [] OTHER -> <<before[1], FALSE>>
        closed == {j \in (i + 3)..Len(source) : depth[j] = <<0, FALSE>> /\ depth[j - 1][2]}
    IN IF closed = {} THEN 0
       ELSE CHOOSE j \in closed : \A k \in closed : j <= k

LineComment ==
    /\ CharAt(Start) = "#" \/ CharAt(Start) \o CharAt(Start + 1) = "//"
    /\ MoveTo(LineEnd(Start))
    /\ UNCHANGED <<source, tokens, lexical>>

BlockComment ==
    /\ CharAt(Start) = "/" /\ CharAt(Start + 1) = "*"
    /\ IF BlockEnd(Start) = 0
       THEN Refuse("NOT_CLOSED_COMMENT", Start)
       ELSE MoveTo(BlockEnd(Start)) /\ UNCHANGED <<source, tokens, lexical>>

IsComment ==
    \/ CharAt(Start) = "#"
    \/ CharAt(Start) = "/" /\ CharAt(Start + 1) \in {"/", "*"}

---------------------------------------------------------------------------
(* Numbers. *)

\* int() and float() take an underscore between digits only; after 0x, 0b
\* and 0o also before the first one.
Underscored(from, to, digits) ==
    \A k \in from..(to - 1) : CharAt(k) = "_" =>
        /\ k + 1 < to /\ CharAt(k + 1) \in digits
        /\ k > from /\ CharAt(k - 1) \in digits

\* _require_number_boundary: "0X2A" stays the number 0 and a name.
Glued(from, to) ==
    \/ /\ CharAt(to) \in NameChars
       /\ ~(Slice(from, to) = "0" /\ CharAt(to) \in {"X", "B", "O"})
    \/ CharAt(to) = "." /\ CharAt(to + 1) \in Digits

Number(type, to, wellFormed) ==
    CASE to - Start > MaxNumber -> Refuse("TOO_LONG_NUMBER", Start)
      [] ~wellFormed \/ Glued(Start, to) -> Refuse("INVALID_NUMBER", Start)
      [] OTHER -> Emit(type, to)

BaseDigits(base) ==
    CASE base = "b" -> {"0", "1"}
      [] base = "x" -> HexDigits
      [] base = "o" -> Digits \ {"8", "9"}

BasedNumber ==
    /\ CharAt(Start) = "0" /\ CharAt(Start + 1) \in {"b", "x", "o"}
    /\ LET digits == BaseDigits(CharAt(Start + 1))
           to == EndOf(digits \cup {"_"}, Start + 2)
       IN IF \A k \in (Start + 2)..(to - 1) : CharAt(k) = "_"
          THEN Refuse("INVALID_BASED_NUMBER", Start)
          ELSE Number("INT", to, Underscored(Start + 1, to, digits \cup {CharAt(Start + 1)}))

\* The end of the integer part, of the fraction (a second dot makes a
\* range) and of the exponent's digits.
DecimalEnd(i) == EndOf(Digits \cup {"_"}, i)

FractionEnd(i) ==
    IF CharAt(i) = "." /\ CharAt(i + 1) # "." THEN DecimalEnd(i + 1) ELSE i

ExponentStart(i) == IF CharAt(i + 1) \in {"+", "-"} THEN i + 2 ELSE i + 1

DecimalNumber ==
    /\ \/ CharAt(Start) \in Digits
       \/ CharAt(Start) = "." /\ CharAt(Start + 1) \in Digits
    /\ ~(CharAt(Start) = "0" /\ CharAt(Start + 1) \in {"b", "x", "o"})
    /\ LET whole == DecimalEnd(Start)
           fraction == FractionEnd(whole)
           power == ExponentStart(fraction)
       IN IF CharAt(fraction) \in {"e", "E"}
          THEN IF CharAt(power) \notin Digits
               THEN Refuse("INVALID_SCIENTIFIC_NOTATION", power)
               ELSE Number("FLOAT", DecimalEnd(power), Underscored(Start, DecimalEnd(power), Digits))
          ELSE Number(IF fraction = whole THEN "INT" ELSE "FLOAT", fraction,
                      Underscored(Start, fraction, Digits))

---------------------------------------------------------------------------
(* Strings and characters. *)

\* The number of characters of the escape at i; 0 when there is none such.
EscapeLength(i) ==
    CASE CharAt(i + 1) \in Escapes -> 2
      [] CharAt(i + 1) = "x" /\ {CharAt(i + 2), CharAt(i + 3)} \subseteq HexDigits -> 4
      [] OTHER -> 0

\* Scanning a string from i: where it stops and at what.
StringStop(i) ==
    LET inEscape[j \in i..Len(source)] ==
            \* characters of an escape that are still to come at j
            IF j = i THEN 0
            ELSE IF inEscape[j - 1] > 0 THEN inEscape[j - 1] - 1
            ELSE IF CharAt(j - 1) = "\\" THEN EscapeLength(j - 1) - 1
            ELSE 0
        stops == {j \in i..Len(source) :
                      /\ inEscape[j] = 0
                      /\ \/ CharAt(j) \in {"\"", None}
                         \/ CharAt(j) = "\\" /\ EscapeLength(j) = 0}
    IN CHOOSE j \in stops : \A k \in stops : j <= k

StringLiteral ==
    /\ CharAt(Start) = "\""
    /\ LET stop == StringStop(Start + 1)
       IN CASE None \in {CharAt(stop), CharAt(stop + 1)} /\ CharAt(stop) # "\""
                 -> Refuse("NOT_CLOSED_STRING", Start)
            [] CharAt(stop) = "\\" -> Refuse("INVALID_ESCAPE_CHAR", stop)
            [] stop + 1 - Start > MaxString -> Refuse("TOO_LONG_STRING", Start)
            [] OTHER -> Emit("STRING", stop + 1)

\* A character literal whose one character ends at "to".
ClosedChar(to) ==
    IF CharAt(to) = "'" THEN Emit("CHAR", to + 1)
    ELSE IF \E k \in to..(LineEnd(to) - 1) : CharAt(k) = "'"
         THEN Refuse("INVALID_CHARACTER", Start)
         ELSE Refuse("NOT_CLOSED_CHAR", Start)

CharLiteral ==
    /\ CharAt(Start) = "'"
    /\ LET char == CharAt(Start + 1)
       IN CASE char \in {None, "\n"} -> Refuse("NOT_CLOSED_CHAR", Start)
            [] char = "'" -> Refuse("INVALID_CHARACTER", Start)
            [] char = "\\" /\ CharAt(Start + 2) \in {None, "\n"} -> Refuse("NOT_CLOSED_CHAR", Start)
            [] char = "\\" /\ EscapeLength(Start + 1) = 0
                 -> Refuse("INVALID_ESCAPE_CHAR", Start + 1)
            [] char = "\\" /\ EscapeLength(Start + 1) # 0
                 -> ClosedChar(Start + 1 + EscapeLength(Start + 1))
            [] char = "?" -> Refuse("INVALID_CHARACTER", Start + 1)
            [] OTHER -> ClosedChar(Start + 2)

---------------------------------------------------------------------------
(* Names, operators and the ends. *)

Identifier ==
    /\ CharAt(Start) \in Letters \cup {"_"}
    /\ LET to == EndOf(NameChars, Start)
           text == Slice(Start, to)
       IN IF to - Start > MaxIdentifier
          THEN Refuse("TOO_LONG_IDENTIFIER", Start)
          ELSE Emit(IF text \in KEYWORDS THEN text ELSE "IDENT", to)

Builtin ==
    /\ CharAt(Start) = "@"
    /\ IF CharAt(Start + 1) \in WideNameChars
       THEN Emit("BUILTIN", EndOf(WideNameChars, Start + 1))
       ELSE Refuse("INVALID_CHARACTER", Start)

GenericType ==
    /\ CharAt(Start) = "$"
    /\ IF CharAt(Start + 1) \in Letters \cup {"\f", "?"}
       THEN Emit("GENERIC", EndOf(WideNameChars, Start + 1))
       ELSE Refuse("INVALID_GENERIC_SYNTAX", Start)

\* The longest operator that starts here, or 0.
OperatorLength ==
    LET lengths == {n \in 1..3 : Start + n <= Len(source) /\ Slice(Start, Start + n) \in Operators}
    IN IF lengths = {} THEN 0 ELSE CHOOSE n \in lengths : \A m \in lengths : m <= n

OperatorOrStray ==
    /\ CharAt(Start) \notin Letters \cup Digits \cup {"_", "\"", "'", "@", "$", "\n", "\t", None}
    /\ ~IsComment
    /\ ~(CharAt(Start) = "." /\ CharAt(Start + 1) \in Digits)
    /\ CASE CharAt(Start) = "." /\ CharAt(Start + 1) = "." /\ CharAt(Start + 2) = "."
              -> Refuse("UNSUPPORTED", Start)
         [] OperatorLength = 0 -> Refuse("INVALID_CHARACTER", Start)
         [] CharAt(Start) = ";" -> Emit("EOL", Start + 1)
         [] OTHER -> Emit(Slice(Start, Start + OperatorLength), Start + OperatorLength)

Newline ==
    /\ CharAt(Start) = "\n"
    /\ Emit("EOL", Start + 1)

Tab ==
    /\ CharAt(Start) = "\t"
    /\ Refuse("TABS_UNSUPPORTED", Start)

EndOfSource ==
    /\ CharAt(Start) = None
    /\ tokens' = Append(tokens, Token("EOF", Start, Start))
    /\ MoveTo(Start)
    /\ lexical' = [state |-> "done"]
    /\ UNCHANGED source

---------------------------------------------------------------------------

InitLex ==
    /\ position = 0
    /\ line = 1
    /\ column = 1
    /\ tokens = <<>>
    /\ lexical = [state |-> "reading"]

NextLex ==
    /\ Reading
    /\ \/ Newline
       \/ LineComment
       \/ BlockComment
       \/ BasedNumber
       \/ DecimalNumber
       \/ StringLiteral
       \/ CharLiteral
       \/ Identifier
       \/ Builtin
       \/ GenericType
       \/ OperatorOrStray
       \/ Tab
       \/ EndOfSource

=============================================================================
