-------------------------------- MODULE Lexer --------------------------------
(***************************************************************************)
(* The lexer of GQL text (src/parser/lexer.c, include/parser/gql_lexer.h): *)
(* what one call of lex_one takes from a position of the text, and what    *)
(* the text of a token decodes to.                                         *)
(*                                                                         *)
(* A text is a string and a position a number in 1..Len(text)+1.  A token  *)
(* is [kind, text, next]: its kind, its characters and the position after  *)
(* it.  The kind of a keyword or an operator is its spelling; the kinds of *)
(* the others are the TOK_ names without the prefix.  A literal quoted by  *)
(* double quotes has a kind of its own, for the parser reads it as a name  *)
(* as well (token_is_name).  Words are ASCII and spelled as the keyword    *)
(* table spells them, a grave accent is written ^ (SANY has no string with  *)
(* one), and lines and columns are left out.                               *)
(***************************************************************************)
EXTENDS Naturals, Sequences, FiniteSetsExt

(* The table of keywords: those that may also be names, and the others. *)
NonReserved == {
  "ACYCLIC", "BINDING", "BINDINGS", "CONNECTING", "DESTINATION", "DIFFERENT", "DIRECTED",
  "EDGE", "EDGES", "ELEMENT", "ELEMENTS", "FIRST", "GRAPH", "GROUPS", "KEEP", "LABEL",
  "LABELED", "LABELS", "LAST", "NFC", "NFD", "NFKC", "NFKD", "NO", "NODE", "NORMALIZED",
  "ONLY", "ORDINALITY", "PROPERTY", "READ", "RELATIONSHIP", "RELATIONSHIPS", "REPEATABLE",
  "SHORTEST", "SIMPLE", "SOURCE", "TABLE", "TO", "TRAIL", "TRANSACTION", "TYPE",
  "UNDIRECTED", "VERTEX", "WALK", "WITHOUT", "WRITE", "ZONE" }

ReservedWords == {
  "ABS", "ACOS", "ALL", "ALL_DIFFERENT", "AND", "ANY", "ARRAY", "AS", "ASC", "ASCENDING",
  "ASIN", "AT", "ATAN", "AVG", "BIG", "BIGINT", "BINARY", "BOOL", "BOOLEAN", "BOTH",
  "BTRIM", "BY", "BYTE_LENGTH", "BYTES", "CALL", "CARDINALITY", "CASE", "CAST", "CEIL",
  "CEILING", "CHAR", "CHAR_LENGTH", "CHARACTER_LENGTH", "CHARACTERISTICS", "CLOSE",
  "COALESCE", "COLLECT_LIST", "COMMIT", "COPY", "COS", "COSH", "COT", "COUNT", "CREATE",
  "CURRENT_DATE", "CURRENT_GRAPH", "CURRENT_PROPERTY_GRAPH", "CURRENT_SCHEMA",
  "CURRENT_TIME", "CURRENT_TIMESTAMP", "DATE", "DATETIME", "DAY", "DEC", "DECIMAL",
  "DEGREES", "DELETE", "DESC", "DESCENDING", "DETACH", "DISTINCT", "DOUBLE", "DROP",
  "DURATION", "DURATION_BETWEEN", "ELEMENT_ID", "ELSE", "END", "EXCEPT", "EXISTS", "EXP",
  "FILTER", "FINISH", "FLOAT", "FLOAT16", "FLOAT32", "FLOAT64", "FLOAT128", "FLOAT256",
  "FLOOR", "FOR", "FROM", "GROUP", "HAVING", "HOME_GRAPH", "HOME_PROPERTY_GRAPH",
  "HOME_SCHEMA", "HOUR", "IF", "IMPLIES", "IN", "INSERT", "INT", "INTEGER", "INT8",
  "INTEGER8", "INT16", "INTEGER16", "INT32", "INTEGER32", "INT64", "INTEGER64", "INT128",
  "INTEGER128", "INT256", "INTEGER256", "INTERSECT", "INTERVAL", "IS", "LEADING", "LEFT",
  "LET", "LIKE", "LIMIT", "LIST", "LN", "LOCAL", "LOCAL_DATETIME", "LOCAL_TIME",
  "LOCAL_TIMESTAMP", "LOG", "LOG10", "LOWER", "LTRIM", "MATCH", "MAX", "MIN", "MINUTE",
  "MOD", "MONTH", "NEXT", "NODETACH", "NORMALIZE", "NOT", "NOTHING", "NULL", "NULLS",
  "NULLIF", "OCTET_LENGTH", "OF", "OFFSET", "OPTIONAL", "OR", "ORDER", "OTHERWISE",
  "PARAMETER", "PARAMETERS", "PATH", "PATH_LENGTH", "PATHS", "PERCENTILE_CONT",
  "PERCENTILE_DISC", "POWER", "PRECISION", "PROPERTY_EXISTS", "RADIANS", "REAL", "RECORD",
  "REMOVE", "REPLACE", "RESET", "RETURN", "RIGHT", "ROLLBACK", "RTRIM", "SAME", "SCHEMA",
  "SECOND", "SELECT", "SESSION", "SESSION_USER", "SET", "SIGNED", "SIN", "SINH", "SIZE",
  "SKIP", "SMALL", "SMALLINT", "SQRT", "START", "STDDEV_POP", "STDDEV_SAMP", "STRING",
  "SUM", "TAN", "TANH", "THEN", "TIME", "TIMESTAMP", "TRAILING", "TRIM", "TYPED", "UBIGINT",
  "UINT", "UINT8", "UINT16", "UINT32", "UINT64", "UINT128", "UINT256", "UNION", "UNSIGNED",
  "UPPER", "USE", "USMALLINT", "VALUE", "VARBINARY", "VARCHAR", "VARIABLE", "WHEN", "WHERE",
  "WITH", "XOR", "YEAR", "YIELD", "ZONED", "ZONED_DATETIME", "ZONED_TIME" }

Prereserved == {
  "ABSTRACT", "AGGREGATE", "AGGREGATES", "ALTER", "CATALOG", "CLEAR", "CLONE", "CONSTRAINT",
  "CURRENT_ROLE", "CURRENT_USER", "DATA", "DIRECTORY", "DRYRUN", "EXACT", "EXISTING",
  "FUNCTION", "GQLSTATUS", "GRANT", "INSTANT", "INFINITY", "NUMBER", "NUMERIC", "ON",
  "OPEN", "PARTITION", "PROCEDURE", "PRODUCT", "PROJECT", "QUERY", "RECORDS", "REFERENCE",
  "RENAME", "REVOKE", "SUBSTRING", "SYSTEM_USER", "TEMPORAL", "UNIQUE", "UNIT", "VALUES" }

Reserved == ReservedWords \union Prereserved

-----------------------------------------------------------------------------
(* Characters *)

Digits == {"0", "1", "2", "3", "4", "5", "6", "7", "8", "9"}
HexDigits == Digits \union {"a", "b", "c", "d", "e", "f", "A", "B", "C", "D", "E", "F"}
Letters == {"a", "b", "c", "d", "e", "f", "g", "h", "i", "j", "k", "l", "m",
            "n", "o", "p", "q", "r", "s", "t", "u", "v", "w", "x", "y", "z",
            "A", "B", "C", "D", "E", "F", "G", "H", "I", "J", "K", "L", "M",
            "N", "O", "P", "Q", "R", "S", "T", "U", "V", "W", "X", "Y", "Z", "_"}
WordCharacters == Letters \union Digits
Blanks == {" ", "\t", "\n", "\r", "\f"}
Single == "'"
Double == "\""
Accent == "^"
Delimiters == {Single, Double, Accent}
Escape == "\\"

(* The character at a position; there is none past the end (peek_byte gives -1). *)
NoChar == ""
Char(text, i) == IF i \in 1 .. Len(text) THEN SubSeq(text, i, i) ELSE NoChar

(* The first position from i on whose character is not in S. *)
Span(text, i, S) == CHOOSE j \in i .. Len(text) + 1 :
                      Char(text, j) \notin S /\ \A m \in i .. j - 1 : Char(text, m) \in S

Token(kind, text, from, next) ==
  [kind |-> kind, text |-> SubSeq(text, from, next - 1), next |-> next]

-----------------------------------------------------------------------------
(* The end of a /* comment: past the first star and solidus, or the end. *)
CommentEnd(text, i) ==
  LET ends == {j \in i .. Len(text) - 1 : SubSeq(text, j, j + 1) = "*/"}
  IN  IF ends = {} THEN Len(text) + 1 ELSE Min(ends) + 2

(* Where a scan comes to rest that goes from position j to step[j]. *)
Scan(step, from) ==
  LET rest[j \in DOMAIN step] == IF step[j] = j THEN j ELSE rest[step[j]] IN rest[from]

(* The first position from i on that is neither blank nor in a comment. *)
SkipBlanksAndComments(text, i) ==
  LET two(j) == IF j < Len(text) THEN SubSeq(text, j, j + 1) ELSE NoChar
      line_end(j) == Min({m \in j .. Len(text) + 1 : Char(text, m) \in {"\n", "\r", NoChar}})
  IN  Scan([j \in 1 .. Len(text) + 1 |->
              CASE Char(text, j) = NoChar -> j
                [] Char(text, j) \in Blanks -> j + 1
                [] two(j) = "/*" -> CommentEnd(text, j + 2)
                [] two(j) \in {"//", "--"} -> line_end(j + 2)
                [] OTHER -> j], i)

(* Past the delimiter that closes what was opened before i, 0 if none does: *)
(* a doubled delimiter and whatever follows a reverse solidus are inside.   *)
QuoteEnd(text, i, delimiter) ==
  LET end == Scan([j \in 1 .. Len(text) + 2 |->
                     LET c == Char(text, j) IN
                     CASE c = NoChar \/ (c = delimiter /\ Char(text, j + 1) # delimiter) -> j
                       [] c \in {delimiter, Escape} -> j + 2
                       [] OTHER -> j + 1], i)
  IN  IF Char(text, end) = NoChar THEN 0 ELSE end + 1

LexString(text, i, delimiter) ==
  LET end == QuoteEnd(text, i + 1, delimiter) IN
  IF end = 0 THEN Token("ERROR", text, i, Len(text) + 1)
  ELSE Token(CASE delimiter = Accent -> "DELIM_IDENT"
               [] delimiter = Double -> "DOUBLE_QUOTED"
               [] OTHER -> "STR_LIT", text, i, end)

LexByteString(text, i) ==
  LET end == Min({j \in i + 2 .. Len(text) + 1 : Char(text, j) \in {Single, NoChar}})
      digits == {Char(text, j) : j \in i + 2 .. end - 1}
  IN  IF end = Len(text) + 1 THEN Token("ERROR", text, i, end)
      ELSE Token(IF digits \subseteq HexDigits \union {" "} THEN "BYTE_STRING" ELSE "ERROR",
                 text, i, end + 1)

LexIdentifier(text, i) ==
  LET next == Span(text, i, WordCharacters)
      word == SubSeq(text, i, next - 1)
  IN  Token(CASE word \in {"TRUE", "FALSE", "UNKNOWN"} -> "BOOLEAN_LITERAL"
              [] word \in NonReserved \union Reserved -> word
              [] OTHER -> "IDENT", text, i, next)

(* A number: a prefix and at least one digit of its base, or a decimal     *)
(* with an optional fraction, exponent and suffix.  is_float is a kind     *)
(* here, FLOAT_LIT for INT_LIT.                                            *)
RadixDigits == [x |-> HexDigits, X |-> HexDigits, o |-> Digits \ {"8", "9"},
                O |-> Digits \ {"8", "9"}, b |-> {"0", "1"}, B |-> {"0", "1"}]

LexNumber(text, i) ==
  IF Char(text, i) = "0" /\ Char(text, i + 1) \in DOMAIN RadixDigits
  THEN LET allowed == RadixDigits[Char(text, i + 1)]
           next == Span(text, i + 2, allowed \union {"_"})
           any == \E j \in i + 2 .. next - 1 : Char(text, j) # "_"
       IN  Token(IF any THEN "INT_LIT" ELSE "ERROR", text, i, next)
  ELSE LET whole == Span(text, i, Digits \union {"_"})
           point == Char(text, whole) = "."
           fraction == IF point THEN Span(text, whole + 1, Digits \union {"_"}) ELSE whole
           exponent == Char(text, fraction) \in {"e", "E"}
           sign == IF Char(text, fraction + 1) \in {"+", "-"} THEN 1 ELSE 0
           power == IF exponent THEN Span(text, fraction + 1 + sign, Digits) ELSE fraction
           suffix == Char(text, power) \in {"F", "f", "D", "d"}
           next == IF suffix \/ Char(text, power) \in {"M", "m"} THEN power + 1 ELSE power
       IN  Token(IF point \/ exponent \/ suffix THEN "FLOAT_LIT" ELSE "INT_LIT", text, i, next)

(* The end of a quoted parameter name: a doubled delimiter closes it. *)
ParamEnd(text, i, delimiter) ==
  LET end == Scan([j \in 1 .. Len(text) + 2 |->
                     CASE Char(text, j) \in {delimiter, NoChar} -> j
                       [] Char(text, j) = Escape -> j + 2
                       [] OTHER -> j + 1], i)
  IN  IF Char(text, end) = NoChar THEN Len(text) + 1 ELSE end + 1

LexParam(text, i) ==
  LET name == IF Char(text, i + 1) = "$" THEN i + 2 ELSE i + 1
      c == Char(text, name)
      next == CASE c \in Delimiters -> ParamEnd(text, name + 1, c)
                [] c \in Letters -> Span(text, name, WordCharacters)
                [] OTHER -> name
  IN  Token("PARAM", text, i, next)

(* The operators in the order lex_one tries them. *)
Operators3 == << "|+|", "]~>", "]->", "<~[", "<->", "<~/", "<-/", "<-[", "/->", "/~>" >>
Operators2 == << "||", "::", "$$", "..", ">=", "<-", "<~", "<=", "<>", "->", "-[", "-/",
                 "]-", "]~", "=>", "/-", "/~", "~[", "~>", "~/" >>
Operators1 == << "&", "*", ":", ",", "@", "=", "!", ">", "{", "[", "(", "<", "-", "%",
                 ".", "+", "?", "}", "]", ")", "/", "~", "|", ";" >>

\* Seeded bug: the operators of two characters are tried before the longer ones.
Operators_ShortFirst == Operators2 \o Operators3 \o Operators1
Operators == Operators3 \o Operators2 \o Operators1

(* The kinds of tokens that are neither words nor operators. *)
NamedKinds ==
  {"ERROR", "EOF", "DELIM_IDENT", "DOUBLE_QUOTED", "STR_LIT", "BYTE_STRING",
   "BOOLEAN_LITERAL", "IDENT", "INT_LIT", "FLOAT_LIT", "PARAM"}

ASSUME OperatorAssumption ==
  /\ \A n \in DOMAIN Operators3 : Len(Operators3[n]) = 3
  /\ \A n \in DOMAIN Operators2 : Len(Operators2[n]) = 2
  /\ \A n \in DOMAIN Operators1 : Len(Operators1[n]) = 1
  /\ \A n \in DOMAIN Operators : Operators[n] \notin NonReserved \union Reserved \union NamedKinds

StandsAt(text, i, s) == i + Len(s) - 1 <= Len(text) /\ SubSeq(text, i, i + Len(s) - 1) = s

LexOperator(text, i) ==
  LET tries == {n \in DOMAIN Operators : StandsAt(text, i, Operators[n])}
  IN  IF tries = {} THEN Token("ERROR", text, i, i + 1)
      ELSE LET s == Operators[Min(tries)] IN Token(s, text, i, i + Len(s))

(* lex_one: the token that starts at the first position from from on that is *)
(* neither blank nor in a comment.                                             *)
LexOne(text, from) ==
  LET i == SkipBlanksAndComments(text, from)
      c == Char(text, i)
      d == Char(text, i + 1)
  IN  CASE c = NoChar -> [kind |-> "EOF", text |-> NoChar, next |-> i]
        [] c \in {"x", "X"} /\ d = Single -> LexByteString(text, i)
        [] c = "@" /\ d \in Delimiters -> LexString(text, i + 1, d)
        [] c \in Delimiters -> LexString(text, i, c)
        [] c = "$" -> LexParam(text, i)
        [] c \in Digits -> LexNumber(text, i)
        [] c \in Letters -> LexIdentifier(text, i)
        [] OTHER -> LexOperator(text, i)

-----------------------------------------------------------------------------
(* What quoted text decodes to: escapes, and doubled delimiters as one.  The *)
(* code points of the escapes u and U are left symbolic, "U+" before the      *)
(* digits; without their digits they give a question mark and take the        *)
(* character that is not one.                                                 *)
Escapes == [t |-> "\t", n |-> "\n", r |-> "\r", f |-> "\f", b |-> "U+0008"]

DecodeQuoted(quoted) ==
  LET inside(j) == IF j < Len(quoted) THEN Char(quoted, j) ELSE ""
      delimiter == Char(quoted, 1)
      decoded[i \in 1 .. Len(quoted) + 2] ==
        LET c == inside(i)
            e == inside(i + 1)
            count == IF e = "u" THEN 4 ELSE 6
            stop == Span(quoted, i + 2, HexDigits)
        IN  CASE c = "" \/ (c = Escape /\ e = "") -> ""
              [] c = Escape /\ e \in {"u", "U"} ->
                   IF stop - i - 2 >= count
                   THEN ("U+" \o SubSeq(quoted, i + 2, i + 1 + count)) \o decoded[i + 2 + count]
                   ELSE "?" \o decoded[stop + 1]
              [] c = Escape -> (IF e \in DOMAIN Escapes THEN Escapes[e] ELSE e) \o decoded[i + 2]
              [] c = delimiter /\ e = delimiter -> delimiter \o decoded[i + 2]
              [] OTHER -> c \o decoded[i + 1]
  IN  decoded[2]

DecodedText(token) ==
  IF token.kind \in {"STR_LIT", "DOUBLE_QUOTED", "DELIM_IDENT"}
  THEN DecodeQuoted(token.text) ELSE token.text

(* The value of a number: its base and its digits, without what             *)
(* parse_number_literal drops from every number before it converts it.      *)
Dropped == {"_", "M", "m", "F", "f", "D", "d"}

Clean(s) ==
  LET clean[i \in 1 .. Len(s) + 1] ==
        CASE i > Len(s) -> ""
          [] Char(s, i) \in Dropped -> clean[i + 1]
          [] OTHER -> Char(s, i) \o clean[i + 1]
  IN  clean[1]

NumberValue(token) ==
  LET s == Clean(token.text) IN
  CASE token.kind = "FLOAT_LIT" -> << "FLOAT", s >>
    [] SubSeq(s, 1, Min({2, Len(s)})) \in {"0x", "0X"} -> << "HEX", SubSeq(s, 3, Len(s)) >>
    [] SubSeq(s, 1, Min({2, Len(s)})) \in {"0o", "0O"} -> << "OCTAL", SubSeq(s, 3, Len(s)) >>
    [] SubSeq(s, 1, Min({2, Len(s)})) \in {"0b", "0B"} -> << "BINARY", SubSeq(s, 3, Len(s)) >>
    [] OTHER -> << "INTEGER", s >>
=============================================================================
