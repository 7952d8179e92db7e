------------------------------- MODULE Lexer --------------------------------
(***************************************************************************)
(* src/bootstrap/lexer.cpp and token_supplier.cpp: a source file becomes   *)
(* an array of tokens.                                                     *)
(*                                                                         *)
(* The source is a sequence of characters and of words: a word stands for  *)
(* the letters of a keyword or of the name of a builtin.  A token has its  *)
(* kind, the part from..to of the source it was read from, its location    *)
(* and, if an integer, its value; the values of floats, characters and     *)
(* strings are left out.  IntMax stands for the largest u64.  A file does  *)
(* not end with a single quote: the code would read past its end.          *)
(***************************************************************************)
EXTENDS Integers, Sequences, SequencesExt, FiniteSets, FiniteSetsExt

CONSTANTS
    Sources,            \* source files
    IntMax,
    TabWidth            \* TAB_WIDTH

ASSUME LexerAssumption == IntMax \in Nat \ {0} /\ TabWidth \in Nat \ {0}

VARIABLES
    source,
    z,                  \* the lexer: i (current), line, column
    tokens              \* token_cache_ of the file
vars == <<source, z, tokens>>

(* The words of each length. *)
WordsOf ==
    <<{}, {"fn", "if", "or"}, {"and", "asm", "for", "pub", "try", "var"}, {"else", "enum", "null",
      "test", "true", "type"}, {"align", "break", "catch", "const", "defer", "error", "false", "union",
      "while", "other"}, {"c_char", "export", "extern", "inline", "opaque", "orelse", "packed",
      "resume", "return", "struct", "switch", "import", "sizeOf"}, {"anytype", "noalias", "suspend",
      "alignOf", "ptrCast", "intCast"}, {"anyframe", "callconv", "comptime", "continue", "errdefer",
      "noinline", "noreturn", "volatile", "offsetOf", "ptrToInt", "intToPtr"}, {"addrspace",
      "allowzero", "nosuspend", "undefined", "floatCast", "enumToInt", "intToEnum"}, {"intToFloat"},
      {"linksection", "threadlocal", "unreachable"}, {}, {}, {"usingnamespace"}>>
Words == UNION Range(WordsOf)
Size(c) == IF c \in Words THEN CHOOSE n \in DOMAIN WordsOf : c \in WordsOf[n] ELSE 1

Decimal == {"0", "1", "2"}
Hex == Decimal \cup {"D", "F", "a", "e"}
Letters == {"D", "F", "a", "e", "x", "p", "u", "l", "n"}
IdentifierChar == Decimal \cup Letters \cup {"_"} \cup Words
DigitValue(c) == CASE c = "0" -> 0 [] c = "1" -> 1 [] c = "2" -> 2 [] c = "a" -> 10 [] c = "D" -> 13 [] c = "e" -> 14 [] c = "F" -> 15

C(i) == IF i <= Len(source) THEN source[i] ELSE "end"
(* The end of the run of characters of S that starts at i. *)
Run(i, S) == Min({j \in i..Len(source) + 1 : C(j) \notin S})
(* Characters in the source between i and j. *)
Width(i, j) == FoldFunction(LAMBDA c, n : Size(c) + n, 0, SubSeq(source, i, j - 1))

(* The keyword table, in its order. *)
keywords ==
    <<"addrspace", "align", "allowzero", "and", "anyframe", "anytype", "asm", "c_char", "break",
      "callconv", "catch", "comptime", "const", "continue", "defer", "else", "enum", "errdefer",
      "error", "export", "extern", "false", "fn", "for", "if", "inline", "linksection", "noalias",
      "noinline", "noreturn", "nosuspend", "null", "opaque", "or", "orelse", "packed", "pub", "resume",
      "return", "struct", "suspend", "switch", "test", "threadlocal", "true", "try", "type",
      "undefined", "union", "unreachable", "usingnamespace", "var", "volatile", "while">>
(* Keywords in ASCII order: break is smaller than c_char. *)
Rank(word) == CASE word = "break" -> 8 [] word = "c_char" -> 9
                [] OTHER -> CHOOSE k \in DOMAIN keywords : keywords[k] = word
(* Binary search; TRUE: the word is a keyword. *)
RECURSIVE search(_, _, _)
search(word, left, right) ==
    LET mid == left + (right - left) \div 2
    IN  /\ left <= right
        /\ \/ keywords[mid] = word
           \/ Rank(word) < Rank(keywords[mid]) /\ search(word, left, mid - 1)
           \/ Rank(word) > Rank(keywords[mid]) /\ search(word, mid + 1, right)
lookupIdentifier(word) == search(word, 1, Len(keywords))

(* The names after @, with the length the code expects. *)
Builtins == [import |-> 6, sizeOf |-> 6, alignOf |-> 7, ptrCast |-> 7, intCast |-> 7, floatCast |-> 9, offsetOf |-> 8,
             enumToInt |-> 9, ptrToInt |-> 8, intToPtr |-> 9, intToEnum |-> 9, intToFloat |-> 10]

(* Mutant: the test for overflow forgets the digit. *)
parseIntegerLoose(start, end) ==
    LET hex == C(start) = "0" /\ C(start + 1) = "x"
        base == IF hex THEN 16 ELSE 10
        digits == SelectSeq(SubSeq(source, start + (IF hex THEN 2 ELSE 0), end - 1), LAMBDA c : c # "_")
    IN  FoldLeft(LAMBDA n, c : IF n = -1 \/ n > IntMax \div base THEN -1 ELSE n * base + DigitValue(c), 0, digits)

(* The value, -1: it overflows. *)
parseInteger(start, end) ==
    LET hex == C(start) = "0" /\ C(start + 1) = "x"
        base == IF hex THEN 16 ELSE 10
        digits == SelectSeq(SubSeq(source, start + (IF hex THEN 2 ELSE 0), end - 1), LAMBDA c : c # "_")
    IN  FoldLeft(LAMBDA n, c : IF n = -1 \/ n > (IntMax - DigitValue(c)) \div base THEN -1
                               ELSE n * base + DigitValue(c), 0, digits)

(* The end of a decimal float; an e with no digits after it is not part    *)
(* of it.                                                                  *)
parseDecimalFloat(start) ==
    LET digits(i) == Run(i, Decimal \cup {"_"})
        whole == digits(start)
        fraction == IF C(whole) = "." THEN digits(whole + 1) ELSE whole
        sign == IF C(fraction + 1) \in {"+", "-"} THEN fraction + 2 ELSE fraction + 1
    IN  IF C(fraction) = "e" /\ C(sign) \in Decimal THEN digits(sign) ELSE fraction

Token(k, from, to, line, col, value) ==
    [k |-> k, from |-> from, to |-> to, line |-> line, col |-> col, value |-> value]
(* The lexer after a token that ends before j, with the column moved by n. *)
Read(s, k, j, n, value) ==
    [z |-> [s EXCEPT !.i = j, !.column = @ + n], token |-> Token(k, s.i, j, s.line, s.column, value)]

(* A hexadecimal float; the column stays when it is not one. *)
parseHexFloat(s) ==
    LET whole == Run(s.i + 2, Hex)
        fraction == IF C(whole) = "." THEN Run(whole + 1, Hex) ELSE whole
        sign == IF C(fraction + 1) \in {"+", "-"} THEN fraction + 2 ELSE fraction + 1
        end == Run(sign, Decimal)
    IN  IF C(fraction) # "p" THEN Read(s, "error", fraction, 0, 0)
        ELSE IF C(sign) \notin Decimal THEN Read(s, "error", sign, 0, 0)
        ELSE Read(s, "float", end, Width(s.i, end), 0)

(* u, ul, l, lu *)
suffixEnd(i) == CASE C(i) = "u" -> IF C(i + 1) = "l" THEN i + 2 ELSE i + 1
                  [] C(i) = "l" -> IF C(i + 1) = "u" THEN i + 2 ELSE i + 1
                  [] OTHER -> i
lexNumericLiteral(s) ==
    LET hex == C(s.i) = "0" /\ C(s.i + 1) = "x"
        end == IF hex THEN Run(s.i + 2, Hex \cup {"_"}) ELSE Run(s.i, Decimal \cup {"_"})
        float == (C(end) = "." /\ C(end + 1) # ".") \/ C(end) = "e"
        floatEnd == parseDecimalFloat(s.i)
        value == parseInteger(s.i, end)
        j == suffixEnd(end)
    IN  IF hex /\ C(Run(s.i + 2, Hex)) \in {".", "p"} THEN parseHexFloat(s)
        ELSE IF float THEN Read(s, "float", floatEnd, Width(s.i, floatEnd), 0)
        ELSE Read(s, IF value = -1 THEN "error" ELSE "int", j, Width(s.i, j), value)

(* After a backslash at i: whether it is an escape, and the place where    *)
(* reading stopped.  A Unicode escape that is too large or a surrogate is  *)
(* refused before its closing brace.                                       *)
parseEscapeSequence(i) ==
    LET c == C(i + 1)
        digits == Run(i + 3, Hex) - (i + 3)
        close == i + 3 + (IF digits > 6 THEN 6 ELSE digits)
        value == FoldLeft(LAMBDA n, d : n * 16 + DigitValue(d), 0, SubSeq(source, i + 3, close - 1))
        hex == IF C(i + 2) \in Hex THEN (IF C(i + 3) \in Hex THEN 2 ELSE 1) ELSE 0
    IN  CASE c \in {"n", "\\", "'", "\""} -> [ok |-> TRUE, i |-> i + 2]
          [] c = "x" -> [ok |-> hex = 2, i |-> i + 2 + hex]
          [] c = "u" -> IF C(i + 2) # "{" THEN [ok |-> FALSE, i |-> i + 2]
                        ELSE IF /\ digits > 0 /\ C(close) = "}"
                                /\ value <= 1114111 /\ value \notin 55296..57343
                             THEN [ok |-> TRUE, i |-> close + 1]
                             ELSE [ok |-> FALSE, i |-> close]
          [] OTHER -> [ok |-> FALSE, i |-> i + 1]

(* s.i is after the opening quote; so is the location of the token. *)
lexCharLiteral(s) ==
    LET e == parseEscapeSequence(s.i)
        escaped == C(s.i) = "\\"
        end == IF escaped THEN e.i ELSE s.i + 1
    IN  IF C(s.i) = "'" THEN Read(s, "error", s.i + 1, 1, 0)
        ELSE IF (escaped /\ ~e.ok) \/ C(end) # "'" THEN Read(s, "error", end, Width(s.i, end), 0)
        ELSE Read(s, "char", end + 1, Width(s.i, end + 1), 0)

(* The characters of a string from i; the column counts escapes twice and  *)
(* newlines not at all.                                                    *)
RECURSIVE stringEnd(_, _)
stringEnd(s, first) ==
    LET e == parseEscapeSequence(s.i)
    IN  CASE C(s.i) = "\"" -> Read(s, "string", s.i + 1, Width(first, s.i + 1), 0)
          [] C(s.i) = "end" -> Read(s, "error", s.i, 0, 0)
          [] C(s.i) = "\\" /\ C(s.i + 1) = "\n" ->
               stringEnd([s EXCEPT !.i = @ + 2, !.line = @ + 1, !.column = 1], first)
          [] C(s.i) = "\\" /\ C(s.i + 1) # "\n" ->
               IF e.ok THEN stringEnd([s EXCEPT !.i = e.i, !.column = @ + Width(s.i, e.i)], first)
               ELSE Read(s, "error", e.i, Width(s.i, e.i), 0)
          [] OTHER -> stringEnd([s EXCEPT !.i = @ + 1], first)
lexStringLiteral(s) ==
    LET r == stringEnd(s, s.i)
    IN  [r EXCEPT !.token.from = s.i, !.token.line = s.line, !.token.col = s.column]

lexIdentifierOrKeyword(s) ==
    LET end == Run(s.i, IdentifierChar)
        keyword == end = s.i + 1 /\ C(s.i) \in Range(keywords) /\ lookupIdentifier(C(s.i))
    IN  Read(s, IF keyword THEN "keyword" ELSE "identifier", end, Width(s.i, end), 0)
lexBuiltin(s) ==
    LET end == Run(s.i + 1, IdentifierChar)
        name == C(s.i + 1)
        known == end = s.i + 2 /\ name \in DOMAIN Builtins /\ Builtins[name] = Width(s.i + 1, end)
    IN  Read(s, IF known THEN "builtin" ELSE "error", end, Width(s.i, end), 0)

(* How many characters match() takes for an operator that starts with c;   *)
(* 0: none does.                                                           *)
operatorLength(c, c2, c3) ==
    LET second(S) == IF c2 \in S THEN 2 ELSE 1
        doubled(S) == IF c2 = c THEN (IF c3 \in S THEN 3 ELSE 2) ELSE second({"="})
    IN  CASE c \in {"+", "*"} -> second({"=", "%"})
          [] c = "-" -> second({">", "=", "%"})
          [] c = "=" -> second({"=", ">"})
          [] c \in {"/", "!", "%", "&", "^"} -> second({"="})
          [] c \in {"<", ">"} -> doubled({"="})
          [] c = "|" -> second({"|", "="})
          [] c = "." -> IF c2 = "." THEN doubled({"."}) ELSE second({"*", "?"})
          [] c \in {";", "(", ")", "{", "}", "[", "]", ":", ",", "~", "?"} -> 1
          [] OTHER -> 0

(* Mutant: the column goes on counting over a newline. *)
NewlineOnly(s) == [s EXCEPT !.i = @ + 1, !.line = @ + 1]

Newline(s) == [s EXCEPT !.i = @ + 1, !.line = @ + 1, !.column = 1]
Step(s, n) == [s EXCEPT !.i = @ + n, !.column = @ + Width(s.i, s.i + n)]
(* Mutant: a block comment does not nest. *)
blockCommentFlat(s, nesting) ==
    LET RECURSIVE close(_)
        close(t) == IF C(t.i) = "end" \/ (C(t.i) = "*" /\ C(t.i + 1) = "/") THEN Step(t, IF C(t.i) = "*" THEN 2 ELSE 0)
                    ELSE close(IF C(t.i) = "\n" THEN Newline(t) ELSE Step(t, 1))
    IN  [z |-> close(s), nesting |-> 0]

(* Past a block comment, which may hold others: how many are still open. *)
RECURSIVE blockComment(_, _)
blockComment(s, nesting) ==
    LET pair == <<C(s.i), C(s.i + 1)>>
    IN  CASE nesting = 0 \/ C(s.i) = "end" -> [z |-> s, nesting |-> nesting]
          [] nesting > 0 /\ pair = <<"/", "*">> -> blockComment(Step(s, 2), nesting + 1)
          [] nesting > 0 /\ pair = <<"*", "/">> -> blockComment(Step(s, 2), nesting - 1)
          [] OTHER -> blockComment(IF C(s.i) = "\n" THEN Newline(s) ELSE Step(s, 1), nesting)

RECURSIVE lexToken(_)
lexToken(s) ==
    LET c == C(s.i)
        n == operatorLength(c, C(s.i + 1), C(s.i + 2))
        line == Run(s.i, (Range(source) \cup {c}) \ {"\n"})
        after == blockComment(Step(s, 2), 1)
    IN  CASE c = " " -> lexToken(Step(s, 1))
          [] c = "\t" -> lexToken([s EXCEPT !.i = @ + 1, !.column = ((@ - 1) \div TabWidth + 1) * TabWidth + 1])
          [] c = "\n" -> lexToken(Newline(s))
          [] c = "end" -> Read(s, "eof", s.i, 0, 0)
          [] c \in Decimal -> lexNumericLiteral(s)
          [] c = "/" /\ C(s.i + 1) = "/" -> lexToken(Step(s, line - s.i))
          [] c = "/" /\ C(s.i + 1) = "*" ->
               IF after.nesting = 0 THEN lexToken(after.z)
               ELSE [z |-> after.z, token |-> Token("eof", after.z.i, after.z.i, s.line, s.column, 0)]
          [] c = "@" -> lexBuiltin(s)
          [] c = "'" -> lexCharLiteral(Step(s, 1))
          [] c = "\"" -> lexStringLiteral(Step(s, 1))
          [] c \in IdentifierChar \ Decimal -> lexIdentifierOrKeyword(s)
          [] OTHER -> IF n > 0 THEN Read(s, "op", s.i + n, n, 0) ELSE Read(s, "error", s.i + 1, 1, 0)
-----------------------------------------------------------------------------
Init == /\ source \in Sources
        /\ z = [i |-> 1, line |-> 1, column |-> 1]
        /\ tokens = <<>>

AtEnd == tokens # <<>> /\ Last(tokens).k = "eof"
(* One turn of TokenSupplier::tokenizeAndCache. *)
nextToken ==
    LET r == lexToken(z)
    IN  /\ ~AtEnd
        /\ z' = r.z
        /\ tokens' = Append(tokens, r.token)
        /\ UNCHANGED source
Cached == AtEnd /\ UNCHANGED vars

Next == nextToken \/ Cached
Spec == Init /\ [][Next]_vars
-----------------------------------------------------------------------------
(* The grammar of what is not a token. *)
RECURSIVE Blank(_), Block(_), Inner(_)
Opens(t) == IsPrefix(<<"/", "*">>, t)
Blank(t) ==
    \/ t = <<>>
    \/ Head(t) \in {" ", "\t", "\n"} /\ Blank(Tail(t))
    \/ /\ IsPrefix(<<"/", "/">>, t)
       /\ \E k \in 2..Len(t) : /\ "\n" \notin Range(SubSeq(t, 1, k))
                               /\ k = Len(t) \/ t[k + 1] = "\n"
                               /\ Blank(SubSeq(t, k + 1, Len(t)))
    \/ Opens(t) /\ \E k \in 4..Len(t) : Block(SubSeq(t, 1, k)) /\ Blank(SubSeq(t, k + 1, Len(t)))
Block(t) == Len(t) >= 4 /\ Opens(t) /\ IsSuffix(<<"*", "/">>, t) /\ Inner(SubSeq(t, 3, Len(t) - 2))
Inner(t) ==
    \/ t = <<>>
    \/ Opens(t) /\ \E k \in 4..Len(t) : Block(SubSeq(t, 1, k)) /\ Inner(SubSeq(t, k + 1, Len(t)))
    \/ ~Opens(t) /\ ~IsPrefix(<<"*", "/">>, t) /\ Inner(Tail(t))

(* What lies before a token: blanks and comments, nothing else; a token is *)
(* never empty, so that reading ends.                                      *)
GapsIgnored ==
    \A k \in DOMAIN tokens :
        LET t == tokens[k]
            before == IF k = 1 THEN 1 ELSE tokens[k - 1].to
            quoted == t.from > before /\ source[t.from - 1] \in {"'", "\""}
            gap == SubSeq(source, before, t.from - (IF quoted THEN 2 ELSE 1))
        IN  /\ t.k # "eof" => t.to > before /\ Blank(gap)
            /\ t.k = "eof" => \/ Blank(gap)
                              \/ \E j \in DOMAIN gap : Opens(SubSeq(gap, j, Len(gap)))

(* The operators of lexer.hpp and of docs/design/Lexer.md.  The lexer has  *)
(* no rule for the operator **, TOKEN_STAR2: it gives two stars, which     *)
(* the parser needs for a pointer to a pointer.                            *)
OperatorSpellings ==
    {<<c>> : c \in {"+", "-", "*", "/", "=", "!", "<", ">", "%", "&", "^", "|", ".", ";", "(", ")", "{", "}", "[", "]",
                    ":", ",", "~", "?"}}
      \cup {<<c, "=">> : c \in {"+", "-", "*", "/", "=", "!", "<", ">", "%", "&", "^", "|"}}
      \cup {<<c, "%">> : c \in {"+", "-", "*"}}
      \cup {<<"-", ">">>, <<"=", ">">>, <<"|", "|">>, <<"<", "<">>, <<">", ">">>, <<"<", "<", "=">>, <<">", ">", "=">>,
            <<".", ".">>, <<".", ".", ".">>, <<".", "*">>, <<".", "?">>, <<"*", "*">>}
LexedSpellings == OperatorSpellings \ {<<"*", "*">>}
RECURSIVE Positional(_, _)
Positional(ds, base) == IF ds = <<>> THEN 0 ELSE Positional(Front(ds), base) * base + DigitValue(Last(ds))
(* An operator is the longest one the lexer has at its place, one of all   *)
(* the documented ones but TOKEN_STAR2, and an integer has the value of    *)
(* its digits or, exactly when that is too large, is an error (match,      *)
(* parseInteger).                                                          *)
LongestRead ==
    \A t \in Range(tokens) :
        LET text == SubSeq(source, t.from, t.to - 1)
            hex == IsPrefix(<<"0", "x">>, text)
            ds == SelectSeq(IF hex THEN SubSeq(text, 3, Len(text)) ELSE text, LAMBDA c : c \in Hex)
            number == Positional(ds, IF hex THEN 16 ELSE 10)
        IN  /\ t.k = "op" => /\ text \in LexedSpellings
                             /\ \A j \in t.to..Len(source) : SubSeq(source, t.from, j) \notin LexedSpellings
            /\ t.k = "int" => t.value = number /\ number <= IntMax
            /\ t.k = "error" /\ t.value = -1 => number > IntMax

(* docs/design/Lexer.md:112 lists TOKEN_STAR2, **, as implemented, and     *)
(* lexer.hpp:193 declares it: every documented operator is lexed as one.   *)
DocumentedOperatorsRead ==
    \A t \in Range(tokens) :
        t.k = "op" => \A j \in t.to..Len(source) : SubSeq(source, t.from, j) \notin OperatorSpellings

(* The location of a source position: newlines before it, and columns      *)
(* since the last one.                                                     *)
RECURSIVE ColumnAt(_)
ColumnAt(i) ==
    IF i = 1 \/ source[i - 1] = "\n" THEN 1
    ELSE IF source[i - 1] = "\t" THEN ((ColumnAt(i - 1) - 1) \div TabWidth + 1) * TabWidth + 1
    ELSE ColumnAt(i - 1) + Size(source[i - 1])
LineAt(i) == 1 + Cardinality({j \in 1..i - 1 : source[j] = "\n"})
(* Where the column is known to drift: newlines and tabs in literals,     *)
(* escapes in strings, tabs in comments, a hexadecimal float that is not   *)
(* one.                                                                    *)
Drifts(k) == \/ tokens[k].k \in {"string", "char"} /\ {"\\", "\n", "\t"} \cap Range(SubSeq(source, tokens[k].from, tokens[k].to)) # {}
             \/ tokens[k].k = "error"
             \/ "\t" \in Range(source) /\ "/" \in Range(source)
(* A token's line and column are those of its first character (after the   *)
(* quote), unless something before it makes the column drift.              *)
LocationsExact ==
    \A k \in DOMAIN tokens :
        (tokens[k].k # "eof" /\ \A j \in 1..k - 1 : ~Drifts(j))
          => tokens[k].line = LineAt(tokens[k].from) /\ tokens[k].col = ColumnAt(tokens[k].from)

(* The tokens cover the source but for its blanks and comments, and each   *)
(* has the location it was read from (nextToken, advance,                  *)
(* tokenizeAndCache).                                                      *)
TokensExact == GapsIgnored /\ LocationsExact
=============================================================================
