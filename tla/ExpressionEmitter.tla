------------------------- MODULE ExpressionEmitter --------------------------
(***************************************************************************)
(* src/bootstrap/codegen.cpp, emitExpression: the C tokens of an           *)
(* expression (nodes as in Parser), and how C groups them.                 *)
(*                                                                         *)
(* Types are left out: the operand of @intCast is taken to need a checked  *)
(* conversion, that of the other numeric casts to be widened; a cast's     *)
(* type in parentheses is the one token (T).                               *)
(***************************************************************************)
EXTENDS Integers, Sequences, SequencesExt

getTokenSpelling(op) ==
    CASE op = "and" -> "&&" [] op = "or" -> "||" [] op = "+%" -> "+" [] op = "-%" -> "-" [] op = "*%" -> "*"
      [] OTHER -> op

requiresParentheses(n) ==
    n.k \notin {"ident", "literal", "paren", "call", "builtin", "access", "member", "tag"}

(* A prefix operator is written with no space after it: C's lexer takes    *)
(* two equal ones for one.                                                 *)
Prefixed(op, ts) ==
    IF op = Head(ts) /\ op \in {"-", "+", "&"}
      THEN <<CASE op = "-" -> "--" [] op = "+" -> "++" [] op = "&" -> "&&">> \o Tail(ts)
      ELSE <<op>> \o ts

RECURSIVE emitExpression(_), emitList(_)
emitList(ns) == IF Len(ns) <= 1 THEN FlattenSeq([i \in DOMAIN ns |-> emitExpression(ns[i])])
                ELSE emitExpression(Head(ns)) \o <<",">> \o emitList(Tail(ns))

(* Mutant: the base of a postfix operator is written as it is. *)
emitBaseBare(n) == emitExpression(n)

emitBaseWithParens(n) ==
    IF requiresParentheses(n) THEN <<"(">> \o emitExpression(n) \o <<")">> ELSE emitExpression(n)

emitLiteral(t) == CASE t = "true" -> "1" [] t \in {"false", "undefined"} -> "0" [] t = "null" -> "((void*)0)"
                    [] t = "unreachable" -> "__bootstrap_panic()" [] OTHER -> t

emitExpression(n) ==
    LET c == n.c
        infix(op) == emitExpression(c[1]) \o <<op>> \o emitExpression(c[2])
    IN  CASE n.k = "literal" -> <<emitLiteral(n.v[1])>>
          [] n.k = "ident" -> n.v
          [] n.k = "paren" -> <<"(">> \o emitExpression(c[1]) \o <<")">>
          [] n.k = "error_literal" -> n.v
          [] n.k = "unary" -> Prefixed(getTokenSpelling(n.v[1]), emitExpression(c[1]))
          [] n.k = "deref" -> Prefixed("*", emitExpression(c[1]))
          [] n.k = "binary" -> infix(getTokenSpelling(n.v[1]))
          [] n.k = "cast" -> IF n.v[1] = "@intCast" THEN <<"convert", "(">> \o emitExpression(c[2]) \o <<")">>
                             ELSE <<"(T)">> \o emitExpression(c[2])
          [] n.k = "builtin" -> <<"(T)">> \o emitExpression(Last(c))
          [] n.k = "access" -> emitBaseWithParens(c[1]) \o <<"[">> \o emitExpression(c[2]) \o <<"]">>
          [] n.k = "member" -> emitBaseWithParens(c[1]) \o <<".">> \o n.v
          [] n.k = "call" -> emitBaseWithParens(c[1]) \o <<"(">> \o emitList(Tail(c)) \o <<")">>
          [] n.k = "assign" -> IF c[1].v = <<"_">> THEN <<"(T)", "(">> \o emitExpression(c[2]) \o <<")">>
                               ELSE infix("=")
          [] n.k = "compound" -> <<"(T)", "(">> \o infix(n.v[1]) \o <<")">>

Emitted == {"literal", "ident", "paren", "error_literal", "unary", "deref", "binary", "cast", "builtin", "access",
            "member", "call", "assign", "compound"}
-----------------------------------------------------------------------------
(* What an expression means: its grouping, parentheses left out. *)
M(k, c) == [k |-> k, c |-> c]
RECURSIVE Meaning(_), Meanings(_)
Meanings(ns) == [i \in DOMAIN ns |-> Meaning(ns[i])]
Meaning(n) ==
    LET c == n.c
    IN  CASE n.k = "literal" -> M(emitLiteral(n.v[1]), <<>>)
          [] n.k \in {"ident", "error_literal"} -> M(n.v[1], <<>>)
          [] n.k = "paren" -> Meaning(c[1])
          [] n.k \in {"unary", "binary"} -> M(getTokenSpelling(n.v[1]), Meanings(c))
          [] n.k = "deref" -> M("*", Meanings(c))
          [] n.k = "cast" /\ n.v[1] = "@intCast" -> M("call", <<M("convert", <<>>), Meaning(c[2])>>)
          [] n.k \in {"cast", "builtin"} -> M("(T)", <<Meaning(Last(c))>>)
          [] n.k = "member" -> M(n.v[1], <<M(".", <<Meaning(c[1])>>)>>)
          [] n.k \in {"access", "call"} -> M(n.k, Meanings(c))
          [] n.k = "assign" -> IF c[1].v = <<"_">> THEN M("(T)", <<Meaning(c[2])>>) ELSE M("=", Meanings(c))
          [] n.k = "compound" -> M("(T)", <<M(n.v[1], Meanings(c))>>)

(* C's grammar of expressions. *)
CPrecedence(t) ==
    CASE t \in {"*", "/", "%"} -> 10 [] t \in {"+", "-"} -> 9 [] t \in {"<<", ">>"} -> 8
      [] t \in {"<", ">", "<=", ">="} -> 7 [] t \in {"==", "!="} -> 6 [] t = "&" -> 5 [] t = "^" -> 4
      [] t = "|" -> 3 [] t = "&&" -> 2 [] t = "||" -> 1
      [] t \in {"=", "+=", "-=", "*=", "/=", "%=", "&=", "|=", "^=", "<<=", ">>="} -> 0 [] OTHER -> -1
CPrefix == {"-", "+", "!", "~", "&", "*", "--", "++", "&&", "(T)"}
RECURSIVE CExpr(_, _, _), CClimb(_, _, _, _), CUnary(_, _), CPostfix(_, _, _), CArgs(_, _, _)
At(ts, i) == IF i <= Len(ts) THEN ts[i] ELSE ""
R(n, i) == [n |-> n, i |-> i]
CExpr(ts, i, min) == LET l == CUnary(ts, i) IN CClimb(ts, l.n, l.i, min)
CClimb(ts, l, i, min) ==
    LET prec == CPrecedence(At(ts, i))
        r == CExpr(ts, i + 1, IF prec = 0 THEN 0 ELSE prec + 1)
    IN  IF prec < min THEN R(l, i) ELSE CClimb(ts, M(ts[i], <<l, r.n>>), r.i, min)
CUnary(ts, i) ==
    IF At(ts, i) \in CPrefix THEN LET e == CUnary(ts, i + 1) IN R(M(ts[i], <<e.n>>), e.i)
    ELSE IF At(ts, i) = "(" THEN LET e == CExpr(ts, i + 1, 0) IN CPostfix(ts, e.n, e.i + 1)
    ELSE CPostfix(ts, M(At(ts, i), <<>>), i + 1)
CArgs(ts, i, ns) ==
    IF At(ts, i) = ")" THEN R(ns, i + 1)
    ELSE LET e == CExpr(ts, i, 0)
         IN  CArgs(ts, IF At(ts, e.i) = "," THEN e.i + 1 ELSE e.i, Append(ns, e.n))
CPostfix(ts, n, i) ==
    LET index == CExpr(ts, i + 1, 0)
        args == CArgs(ts, i + 1, <<>>)
    IN  CASE At(ts, i) = "[" -> CPostfix(ts, M("access", <<n, index.n>>), index.i + 1)
          [] At(ts, i) = "(" -> CPostfix(ts, M("call", <<n>> \o args.n), args.i)
          [] At(ts, i) = "." -> CPostfix(ts, M(ts[i + 1], <<M(".", <<n>>)>>), i + 2)
          [] OTHER -> R(n, i)
CMeaning(ts) == CExpr(ts, 1, 0).n
=============================================================================
