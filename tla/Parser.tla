------------------------------- MODULE Parser -------------------------------
(***************************************************************************)
(* src/bootstrap/parser.cpp: recursive descent over an array of tokens.    *)
(*                                                                         *)
(* A token is its spelling.  A node has a kind k, names and operators v    *)
(* and children c.  The parser p has the index of the current token, the   *)
(* recursion depth, what it did to the symbol table (the current level and *)
(* the symbols inserted, each with its level), the names of the error sets *)
(* and of the generic functions it catalogued, and the node n it built     *)
(* last.  error() ends the program: a failed parser stays at the last      *)
(* token, and what is built from it is never used.                         *)
(***************************************************************************)
EXTENDS Integers, Sequences, SequencesExt

CONSTANTS
    Names, Numbers, Strings,        \* tokens of identifiers, integers, string literals
    MaxDepth                        \* MAX_PARSER_RECURSION_DEPTH

VARIABLE tokens                     \* ends with "eof"

N(k, v, c) == [k |-> k, v |-> v, c |-> c]
Null == N("null", <<>>, <<>>)
TypeName(x) == N("type_name", <<x>>, <<>>)

Start == [ok |-> TRUE, i |-> 1, d |-> 0, n |-> Null, level |-> 1, syms |-> <<>>, sets |-> <<>>,
          generics |-> {}]

peekAhead(p, n) == IF p.i + n <= Len(tokens) THEN tokens[p.i + n] ELSE "eof"
peek(p) == peekAhead(p, 0)
peekNext(p) == peekAhead(p, 1)
advance(p) == [p EXCEPT !.i = @ + 1]
error(p) == [p EXCEPT !.ok = FALSE, !.i = Len(tokens), !.n = Null]
expect(p, t) == IF peek(p) = t THEN advance(p) ELSE error(p)
expectIn(p, ts) == IF peek(p) \in ts THEN advance(p) ELSE error(p)
skip(p, t) == IF peek(p) = t THEN advance(p) ELSE p       \* match, its result not used
createNode(p, k, v, c) == [p EXCEPT !.n = N(k, v, c)]
Enter(p) == IF p.d = MaxDepth THEN error(p) ELSE [p EXCEPT !.d = @ + 1]
Leave(p) == [p EXCEPT !.d = @ - 1]
insertSymbol(p, x) == [p EXCEPT !.syms = Append(@, <<x, p.level>>)]

Literals == Numbers \cup Strings \cup {"null", "undefined", "true", "false", "unreachable", "1.5", "'c'"}
Unary == {"-", "+", "!", "~", "&"}
Compound == {"+=", "-=", "*=", "/=", "%=", "&=", "|=", "^=", "<<=", ">>="}
Casts == {"@ptrCast", "@intCast", "@floatCast", "@intToFloat"}
OneType == {"@sizeOf", "@alignOf"}
OneExpr == {"@enumToInt", "@ptrToInt"}
TypeAndExpr == {"@intToPtr", "@intToEnum"}
TypeWords == Names \cup {"noreturn", "type", "anytype", "c_char"}

get_token_precedence(t) ==
    CASE t \in {"*", "*%", "/", "%"} -> 10
      [] t \in {"+", "+%", "-", "-%"} -> 9
      [] t \in {"<<", ">>"} -> 8
      [] t = "&" -> 7
      [] t = "^" -> 6
      [] t = "|" -> 5
      [] t \in {"==", "!=", "<", ">", "<=", ">="} -> 4
      [] t = "and" -> 3
      [] t = "or" -> 2
      [] t \in {"orelse", "catch", "||", "..", "..."} -> 1
      [] OTHER -> -1

(* A parser goes down through one of these productions, which are one      *)
(* recursion: almost every one reaches every other.                        *)
RECURSIVE descend(_, _, _)
expression(p) == descend("expression", p, <<>>)
precedence(p, min) == descend("precedence", p, <<min>>)
typeOf(p) == descend("type", p, <<>>)
container(p) == descend("container", p, <<>>)
list(kind, close, p) == descend("list", p, <<kind, close, <<>>>>)
statement(p) == descend("statement", p, <<>>)
topLevelItem(p) == descend("item", p, <<>>)

RECURSIVE climb(_, _), parseUnaryExpr(_), postfix(_), typeOperators(_), memberTypes(_), parseBlockStatement(_),
          statements(_, _), items(_, _, _), constQualifiers(_)

(* |name|, when it is there *)
capture(p) == IF peek(p) = "|" THEN expect(expectIn(advance(p), Names), "|") ELSE p
captured(p) == IF peek(p) = "|" THEN <<peekNext(p)>> ELSE <<"">>
(* Mutant: the closing parenthesis may be missing. *)
parenthesizedOpen(p) == LET e == expression(expect(p, "(")) IN skip(e, ")")

(* ( expression ) *)
parenthesized(p) == LET e == expression(expect(p, "(")) IN expect(e, ")")

parseFnType(p) ==
    LET ps == list("type", ")", expect(expect(p, "fn"), "("))
        r == typeOf(ps)
    IN  createNode(r, "fn_type", <<>>, <<r.n>> \o ps.n)

(* [*]T, [n]T and []T; *T *)
parseArrayType(p) ==
    LET many == peekNext(p) = "*" /\ peekAhead(p, 2) = "]"
        size == IF many \/ peekNext(p) = "]" THEN [advance(p) EXCEPT !.n = Null]
                ELSE expression(advance(p))
        q == IF many THEN advance(advance(advance(p))) ELSE expect(size, "]")
        t == typeOf(skip(q, "const"))
        const == IF peek(q) = "const" THEN "const" ELSE ""
    IN  IF many THEN createNode(t, "pointer_type", <<const, "many">>, <<t.n>>)
        ELSE createNode(t, "array_type", <<const>>, <<size.n, t.n>>)
parsePointerType(p) ==
    LET q == expect(p, "*")
        t == typeOf(skip(q, "const"))
    IN  createNode(t, "pointer_type", <<IF peek(q) = "const" THEN "const" ELSE "", "one">>, <<t.n>>)

parseErrorSetDefinition(p) ==
    LET q == expect(p, "error")
        tags == IF peek(q) = "{" THEN list("name", "}", advance(q)) ELSE [q EXCEPT !.n = <<>>]
    IN  createNode([tags EXCEPT !.sets = Append(@, "")], "error_set", <<>>, tags.n)

memberTypes(p) ==
    IF peek(p) # "." THEN p
    ELSE LET q == expectIn(advance(p), Names)
         IN  memberTypes(createNode(q, "member", <<peekNext(p)>>, <<p.n>>))
constQualifiers(p) == IF peek(p) = "const" THEN constQualifiers(advance(p)) ELSE p
(* E!T and E || F *)
typeOperators(p) ==
    IF peek(p) \notin {"!", "||"} THEN p
    ELSE LET t == typeOf(advance(p))
         IN  typeOperators(createNode(t, IF peek(p) = "!" THEN "error_union" ELSE "merge", <<>>, <<p.n, t.n>>))

parseStructDeclaration(p) ==
    LET fs == list("field_or_element", "}", expect(expect(p, "struct"), "{"))
    IN  createNode(fs, "struct", <<>>, fs.n)
(* union, union(enum), union(T) *)
parseUnionDeclaration(p) ==
    LET q == expect(p, "union")
        inferred == peek(q) = "(" /\ peekNext(q) = "enum"
        tag == IF peek(q) # "(" THEN [q EXCEPT !.n = Null]
               ELSE IF inferred THEN expect([advance(advance(q)) EXCEPT !.n = TypeName("enum")], ")")
               ELSE expect(typeOf(advance(q)), ")")
        fs == list(IF peek(q) = "(" THEN "tagged_field" ELSE "field", "}", expect(tag, "{"))
    IN  createNode(fs, "union", <<>>, <<tag.n>> \o fs.n)
parseEnumDeclaration(p) ==
    LET q == expect(p, "enum")
        backing == IF peek(q) = "(" THEN expect(typeOf(advance(q)), ")") ELSE [q EXCEPT !.n = Null]
        ms == list("member", "}", expect(backing, "{"))
    IN  createNode(ms, "enum", <<>>, <<backing.n>> \o ms.n)

parseContainer(p) == CASE peek(p) = "struct" -> parseStructDeclaration(p)
                       [] peek(p) = "union" -> parseUnionDeclaration(p)
                       [] peek(p) = "enum" -> parseEnumDeclaration(p)

parseType(p0) ==
    LET p == constQualifiers(Enter(p0))
        t == peek(p)
        left == CASE t = "*" -> parsePointerType(p)
                  [] t = "[" -> parseArrayType(p)
                  [] t = "!" -> LET e == typeOf(advance(p)) IN createNode(e, "error_union", <<>>, <<Null, e.n>>)
                  [] t = "?" -> LET e == typeOf(advance(p)) IN createNode(e, "optional", <<>>, <<e.n>>)
                  [] t = "fn" -> parseFnType(p)
                  [] t = "error" -> parseErrorSetDefinition(p)
                  [] t \in {"struct", "union", "enum"} -> container(p)
                  [] t \in TypeWords -> memberTypes(createNode(advance(p), "type_name", <<t>>, <<>>))
                  [] OTHER -> error(p)
    IN  Leave(typeOperators(left))

(* One element of a list that parseItems reads. *)
parseParam(p0) ==
    LET p == skip(p0, "comptime")
        comptime == IF peek(p0) = "comptime" THEN "comptime" ELSE ""
        q == expect(expectIn(p, Names), ":")
        t == IF peek(q) \in {"type", "anytype"} THEN createNode(advance(q), "type_name", <<peek(q)>>, <<>>)
             ELSE typeOf(q)
        word == expectIn(advance(p), Names)
    IN  IF peek(p) = "anytype"
          THEN createNode(word, "param", <<comptime, peekNext(p), "">>, <<TypeName("anytype")>>)
          ELSE createNode(t, "param", <<comptime, peek(p), ":">>, <<t.n>>)
parseField(p, tagged) ==
    LET name == expectIn(p, Names)
        q == IF peek(name) = ":" THEN typeOf(advance(name))
             ELSE IF tagged THEN [name EXCEPT !.n = TypeName("void")] ELSE error(name)
        r == IF peek(q) = "=" THEN error(q) ELSE q
    IN  createNode(r, "field", <<peek(p), IF peek(name) = ":" THEN ":" ELSE "">>, <<q.n>>)
(* .name = value; .name; value *)
parseNamedInitializer(p, positional) ==
    LET named == peek(p) = "." /\ peekNext(p) \in Names
        q == expectIn(expect(p, "."), Names)
        v == IF peek(q) = "=" THEN expression(advance(q)) ELSE [q EXCEPT !.n = Null]
        e == expression(p)
    IN  IF positional /\ ~named THEN createNode(e, "positional", <<>>, <<e.n>>)
        ELSE createNode(v, "named", <<peekNext(p)>>, <<v.n>>)
(* items => |capture| body; the comma belongs to the prong *)
parseSwitchProng(p) ==
    LET is == IF peek(p) = "else" THEN [advance(p) EXCEPT !.n = <<>>] ELSE items(p, "=>", <<>>)
        q == expect(is, "=>")
        body == expression(capture(q))
    IN  createNode(body, "prong", captured(q), <<body.n>> \o is.n)
(* at least one expression *)
items(p, end, ns) ==
    LET e == expression(p)
        all == Append(ns, e.n)
    IN  IF peek(e) = "," /\ peekNext(e) # end THEN items(advance(e), end, all)
        ELSE [skip(e, ",") EXCEPT !.n = all]

parseItem(kind, p) ==
    CASE kind = "expr" -> expression(p)
      [] kind = "type" -> typeOf(p)
      [] kind = "name" -> createNode(expectIn(p, Names), "name", <<peek(p)>>, <<>>)
      [] kind = "initializer" -> parseNamedInitializer(p, TRUE)
      [] kind = "field_initializer" -> parseNamedInitializer(p, FALSE)
      [] kind = "param" -> parseParam(p)
      [] kind = "prong" -> parseSwitchProng(p)
      [] kind = "member" ->
           LET name == expectIn(p, Names)
               v == IF peek(name) = "=" THEN expression(advance(name)) ELSE [name EXCEPT !.n = Null]
           IN  createNode(v, "enum_member", <<peek(p)>>, <<v.n>>)
      [] kind \in {"field", "tagged_field"} -> parseField(p, kind = "tagged_field")
      [] kind = "field_or_element" ->
           IF peek(p) \in {"fn", "pub"} THEN error(p)
           ELSE IF peek(p) \in Names /\ peekNext(p) = ":" THEN parseField(p, FALSE)
           ELSE LET t == typeOf(p)
                    r == IF peek(t) = "=" THEN error(t) ELSE t
                IN  createNode(r, "element", <<>>, <<t.n>>)

(* Elements with commas between them, one more allowed after the last      *)
(* (not after parameters), up to the token that closes the list.           *)
parseItems(kind, close, p, ns) ==
    IF peek(p) \in {close, "eof"} THEN [expect(p, close) EXCEPT !.n = ns]
    ELSE LET item == parseItem(kind, p)
             all == Append(ns, item.n)
         IN  IF peek(item) = "," /\ ~(kind = "param" /\ peekNext(item) = close)
               THEN descend("list", advance(item), <<kind, close, all>>)
               ELSE [expect(item, close) EXCEPT !.n = all]

parseStructInitializer(p) ==
    LET fs == list("initializer", "}", expect(p, "{"))
    IN  createNode(fs, "struct_init", <<>>, <<p.n>> \o fs.n)
parseAnonymousLiteral(p) ==
    LET q == expect(p, "{")
        fields == /\ peek(q) = "."
                  /\ \/ peekNext(q) \in Names /\ peekAhead(q, 2) \in {"=", ",", "}"}
                     \/ peekNext(q) \in Numbers /\ peekAhead(q, 2) = "="
        l == list(IF fields THEN "field_initializer" ELSE "expr", "}", q)
    IN  IF fields THEN createNode(l, "struct_init", <<>>, <<Null>> \o l.n)
        ELSE createNode(l, "tuple", <<>>, l.n)

parseSwitch(p, kind) ==
    LET c == parenthesized(expect(p, "switch"))
        ps == list("prong", "}", expect(c, "{"))
        elses == {i \in DOMAIN ps.n : Len(ps.n[i].c) = 1}
    IN  IF ps.n = <<>> \/ \E i, j \in elses : i # j THEN error(ps)
        ELSE createNode(ps, kind, <<>>, <<c.n>> \o ps.n)

parseIfExpression(p) ==
    LET c == parenthesized(expect(p, "if"))
        a == expression(capture(c))
        b == expression(expect(a, "else"))
    IN  createNode(b, "if_expr", captured(c), <<c.n, a.n, b.n>>)
parseReturnExpr(p) ==
    LET q == expect(p, "return")
        e == IF peek(q) \in {";", "}", ",", ")", "=>"} THEN [q EXCEPT !.n = Null] ELSE expression(q)
    IN  createNode(e, "return", <<>>, <<e.n>>)
(* break, continue, with a label *)
parseJumpExpr(p) ==
    LET q == advance(p)
        r == IF peek(q) = ":" THEN expectIn(advance(q), Names) ELSE q
    IN  createNode(r, peek(p), <<IF peek(q) = ":" THEN peekNext(q) ELSE "">>, <<>>)

(* @name(...) *)
parseBuiltinCall(p) ==
    LET t == peek(p)
        q == expect(advance(p), "(")
        a == IF t \in OneExpr THEN expression(q) ELSE typeOf(q)
        b == IF t \in Casts \cup TypeAndExpr THEN expression(expect(a, ",")) ELSE a
        field == expectIn(expect(a, ","), Strings)
        args == IF t \in OneType \cup OneExpr THEN <<a.n>> ELSE <<a.n, b.n>>
    IN  IF t = "@import" THEN createNode(expect(expectIn(q, Strings), ")"), "import", <<peek(q)>>, <<>>)
        ELSE IF t = "@offsetOf"
          THEN createNode(expect(field, ")"), "offset_of", <<peekNext(a)>>, <<a.n>>)
        ELSE IF t \in Casts THEN createNode(expect(b, ")"), "cast", <<t>>, args)
        ELSE createNode(expect(b, ")"), "builtin", <<t>>, args)
Builtins == Casts \cup OneType \cup OneExpr \cup TypeAndExpr \cup {"@import", "@offsetOf"}

parsePrimaryExpr(p) ==
    LET t == peek(p)
        next == peekNext(p)
    IN  CASE t \in Literals -> createNode(advance(p), "literal", <<t>>, <<>>)
          [] t \in Names -> createNode(advance(p), "ident", <<t>>, <<>>)
          [] t = "(" -> LET e == parenthesized(p) IN createNode(e, "paren", <<>>, <<e.n>>)
          [] t = "{" -> parseBlockStatement(p)
          [] t = "." -> IF next = "{" THEN parseAnonymousLiteral(advance(p))
                        ELSE IF next \in Names \cup Numbers
                          THEN createNode(advance(advance(p)), "tag", <<next>>, <<>>)
                        ELSE error(p)
          [] t = "if" -> parseIfExpression(p)
          [] t = "error" -> IF next = "." THEN createNode(expectIn(advance(advance(p)), Names), "error_literal",
                                                          <<peekAhead(p, 2)>>, <<>>)
                            ELSE parseErrorSetDefinition(p)
          [] t = "switch" -> parseSwitch(p, "switch_expr")
          [] t = "return" -> parseReturnExpr(p)
          [] t \in {"break", "continue"} -> parseJumpExpr(p)
          [] t \in {"struct", "union", "enum"} -> container(p)
          [] t \in Builtins -> parseBuiltinCall(p)
          [] t = "[" -> parseArrayType(p)
          [] t = "*" -> parsePointerType(p)
          [] OTHER -> error(p)

(* The operators after a primary expression p.n.  A slice is recognised by *)
(* .. as the first or the second token in the brackets.                    *)
postfix(p) ==
    LET q == advance(p)
        args == list("expr", ")", q)
        from == IF peek(q) = ".." THEN [q EXCEPT !.n = Null] ELSE precedence(q, 2)
        dots == expect(from, "..")
        to == IF peek(dots) = "]" THEN [dots EXCEPT !.n = Null] ELSE precedence(dots, 2)
        index == expression(q)
    IN  CASE peek(p) = "(" -> postfix(createNode(args, "call", <<>>, <<p.n>> \o args.n))
          [] peek(p) = "[" ->
               IF peek(q) = ".." \/ (peek(q) # "]" /\ peekNext(q) = "..")
                 THEN postfix(createNode(expect(to, "]"), "slice", <<>>, <<p.n, from.n, to.n>>))
                 ELSE postfix(createNode(expect(index, "]"), "access", <<>>, <<p.n, index.n>>))
          [] peek(p) = "." ->
               postfix(createNode(expectIn(q, Names \cup Numbers), "member", <<peek(q)>>, <<p.n>>))
          [] peek(p) = "{" /\ p.n.k \in {"ident", "type_name", "member", "tag", "array_type", "pointer_type"} ->
               postfix(parseStructInitializer(p))
          [] peek(p) = ".*" -> postfix(createNode(q, "deref", <<>>, <<p.n>>))
          [] OTHER -> p
parsePostfixExpression(p) == LET e == parsePrimaryExpr(Enter(p)) IN Leave(postfix(e))

(* Prefix operators, the innermost last; no try among them. *)
RECURSIVE prefixed(_)
prefixed(p) ==
    IF peek(p) \in Unary
      THEN LET e == prefixed(advance(p)) IN createNode(e, "unary", <<peek(p)>>, <<e.n>>)
      ELSE parsePostfixExpression(p)
parseUnaryExpr(p0) ==
    LET p == Enter(p0)
        e == parseUnaryExpr(advance(p))
    IN  IF peek(p) = "try" THEN Leave(createNode(e, "try", <<>>, <<e.n>>))
        ELSE Leave(prefixed(p))

(* Mutant: catch and orelse group to the left. *)
climbLeft(p, min) ==
    LET op == peek(p)
        prec == get_token_precedence(op)
        c == advance(p)
        r == precedence(IF op = "catch" THEN capture(c) ELSE c, prec + 1)
    IN  IF prec < min THEN p
        ELSE climb(CASE op = "catch" -> createNode(r, "catch", captured(c), <<p.n, r.n>>)
                     [] op = "orelse" -> createNode(r, "orelse", <<>>, <<p.n, r.n>>)
                     [] op = "||" -> createNode(r, "merge", <<>>, <<p.n, r.n>>)
                     [] OTHER -> createNode(r, "binary", <<op>>, <<p.n, r.n>>), min)

climb(p, min) ==
    LET op == peek(p)
        prec == get_token_precedence(op)
        c == advance(p)
        rightAssociative == op \in {"catch", "orelse"}
        r == precedence(IF op = "catch" THEN capture(c) ELSE c,
                                 IF rightAssociative THEN prec ELSE prec + 1)
        both == <<p.n, r.n>>
    IN  IF prec < min THEN p
        ELSE climb(CASE op = "catch" -> createNode(r, "catch", captured(c), both)
                     [] op = "orelse" -> createNode(r, "orelse", <<>>, both)
                     [] op = "||" -> createNode(r, "merge", <<>>, both)
                     [] op \in {"..", "..."} -> createNode(r, "range", <<op>>, both)
                     [] OTHER -> createNode(r, "binary", <<op>>, both), min)
parsePrecedenceExpr(p, min) == LET left == parseUnaryExpr(Enter(p)) IN Leave(climb(left, min))

(* parseAssignmentExpression *)
parseExpression(p) ==
    LET left == precedence(Enter(p), 1)
        right == expression(advance(left))
    IN  Leave(IF peek(left) = "=" THEN createNode(right, "assign", <<>>, <<left.n, right.n>>)
              ELSE IF peek(left) \in Compound
                THEN createNode(right, "compound", <<peek(left)>>, <<left.n, right.n>>)
              ELSE left)
-----------------------------------------------------------------------------
(* var and const; flags: pub, extern, export *)
parseVarDecl(p, flags) ==
    LET name == expectIn(advance(p), Names)
        t == IF peek(name) # ":" THEN [name EXCEPT !.n = Null]
             ELSE IF peekNext(name) \in {"struct", "union", "enum"} THEN container(advance(name))
             ELSE typeOf(advance(name))
        e == IF peek(t) = "=" THEN expression(advance(t)) ELSE [t EXCEPT !.n = Null]
        named == IF e.n.k = "error_set" THEN [e EXCEPT !.sets[Len(e.sets)] = peekNext(p)] ELSE e
        r == expect(IF t.n = Null /\ e.n = Null THEN error(named) ELSE named, ";")
    IN  createNode(insertSymbol(r, peekNext(p)), "var_decl", flags \o <<peek(p), peekNext(p)>>, <<t.n, e.n>>)

parseIfStatement(p) ==
    LET c == parenthesized(expect(p, "if"))
        a == statement(capture(c))
        b == IF peek(a) = "else" THEN statement(advance(a)) ELSE [a EXCEPT !.n = Null]
    IN  createNode(b, "if", captured(c), <<c.n, a.n, b.n>>)
parseWhileStatement(p, label) ==
    LET c == parenthesized(expect(p, "while"))
        v == capture(c)
        iter == IF peek(v) = ":" THEN parenthesized(advance(v)) ELSE [v EXCEPT !.n = Null]
        body == statement(iter)
    IN  createNode(body, "while", <<label>> \o captured(c), <<c.n, iter.n, body.n>>)
(* for (e) |item, index| *)
parseForStatement(p, label) ==
    LET e == parenthesized(expect(p, "for"))
        item == expectIn(expect(e, "|"), Names)
        index == IF peek(item) = "," THEN expectIn(advance(item), Names) ELSE item
        body == statement(expect(index, "|"))
    IN  createNode(body, "for", <<label, peekNext(e), IF peek(item) = "," THEN peekNext(item) ELSE "">>,
                   <<e.n, body.n>>)
Deferred(p) == LET s == statement(advance(p)) IN createNode(s, peek(p), <<>>, <<s.n>>)
parseComptimeBlock(p) ==
    LET e == expression(expect(expect(p, "comptime"), "{"))
    IN  createNode(expect(e, "}"), "comptime", <<>>, <<e.n>>)

parseStatement(p) ==
    LET t == peek(p)
        loop == advance(advance(p))
        e == expression(p)
    IN  IF t \in Names /\ peekNext(p) = ":"
          THEN IF peek(loop) = "while" THEN parseWhileStatement(loop, t)
               ELSE IF peek(loop) = "for" THEN parseForStatement(loop, t) ELSE error(p)
        ELSE CASE t \in {"const", "var"} -> parseVarDecl(p, <<"", "", "">>)
               [] t \in {"defer", "errdefer"} -> Deferred(p)
               [] t = "return" -> expect(parseReturnExpr(p), ";")
               [] t \in {"break", "continue"} -> expect(parseJumpExpr(p), ";")
               [] t = "comptime" -> parseComptimeBlock(p)
               [] t = "if" -> parseIfStatement(p)
               [] t = "for" -> parseForStatement(p, "")
               [] t = "while" -> parseWhileStatement(p, "")
               [] t = "switch" -> parseSwitch(p, "switch")
               [] t = "{" -> parseBlockStatement(p)
               [] t = ";" -> createNode(advance(p), "empty", <<>>, <<>>)
               [] OTHER -> IF peek(e) = ";" THEN createNode(advance(e), "expr_stmt", <<>>, <<e.n>>) ELSE e

(* A statement after which another may follow. *)
Complete(n) == n.k \in {"if", "while", "for", "block", "expr_stmt", "var_decl", "empty", "defer", "errdefer",
                        "return", "break", "continue", "switch"}
               \/ n = N("literal", <<"unreachable">>, <<>>)
statements(p, ns) ==
    IF peek(p) \in {"}", "eof"} THEN [expect(p, "}") EXCEPT !.n = ns]
    ELSE LET s == statement(p)
             next == IF peek(s) = "}" \/ Complete(s.n) THEN s ELSE error(s)
         IN  statements(next, Append(ns, s.n))

(* Mutant: the scope of a block is not left. *)
parseBlockUnscoped(p) ==
    LET q == expect(Enter(p), "{")
        ss == statements([q EXCEPT !.level = @ + 1], <<>>)
    IN  createNode(Leave(ss), "block", <<>>, ss.n)

parseBlockStatement(p) ==
    LET q == expect(Enter(p), "{")
        ss == statements([q EXCEPT !.level = @ + 1], <<>>)
    IN  createNode([Leave(ss) EXCEPT !.level = p.level], "block", <<>>, ss.n)

parseFnDecl(p, flags) ==
    LET name == expectIn(expect(p, "fn"), Names)
        ps == list("param", ")", expect(insertSymbol(name, peekNext(p)), "("))
        generic == \E i \in DOMAIN ps.n : ps.n[i].v[1] = "comptime" \/ ps.n[i].c[1].v \in {<<"type">>, <<"anytype">>}
        q == IF ps.ok /\ generic THEN [ps EXCEPT !.generics = @ \cup {peekNext(p)}] ELSE ps
        extern == flags[2] = "extern"
        arrow == skip(q, "->")
        r == IF peek(q) = "{" \/ (extern /\ peek(q) = ";") THEN [q EXCEPT !.n = TypeName("void")]
             ELSE typeOf(arrow)
        body == IF extern THEN expect([r EXCEPT !.n = Null], ";") ELSE parseBlockStatement(r)
    IN  createNode(body, "fn_decl", flags \o <<peekNext(p)>>, <<r.n, body.n>> \o ps.n)

parseTopLevelItem(p) ==
    LET a == skip(p, "pub")
        b == skip(a, "extern")
        c == skip(b, "export")
        q == IF peek(a) = "extern" /\ peek(c) \in Strings THEN advance(c) ELSE c
        flags == <<IF peek(p) = "pub" THEN "pub" ELSE "", IF peek(a) = "extern" THEN "extern" ELSE "",
                   IF peek(b) = "export" THEN "export" ELSE "">>
    IN  CASE peek(q) = "fn" -> parseFnDecl(q, flags)
          [] peek(q) \in {"var", "const"} -> parseVarDecl(q, flags)
          [] peek(q) \in {"struct", "union"} -> expect(container(q), ";")
          [] OTHER -> error(q)

descend(what, p, args) ==
    CASE what = "expression" -> parseExpression(p)
      [] what = "precedence" -> parsePrecedenceExpr(p, args[1])
      [] what = "type" -> parseType(p)
      [] what = "container" -> parseContainer(p)
      [] what = "list" -> parseItems(args[1], args[2], p, args[3])
      [] what = "statement" -> parseStatement(p)
      [] what = "item" -> parseTopLevelItem(p)

RECURSIVE topLevelItems(_, _)
topLevelItems(p, ns) ==
    IF peek(p) = "eof" THEN createNode(p, "block", <<>>, ns)
    ELSE LET d == topLevelItem(p) IN topLevelItems(d, Append(ns, d.n))
parse == topLevelItems(Start, <<>>)
=============================================================================
