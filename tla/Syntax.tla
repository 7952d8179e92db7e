------------------------------- MODULE Syntax -------------------------------
(***************************************************************************)
(* From source to tree to C expression.  A program is written out from its *)
(* tree, one token of it may be lost, and it is parsed; its expressions    *)
(* are emitted and read again as C groups them.                            *)
(*                                                                         *)
(* Written is the grammar the other way round: the tokens of a node.       *)
(***************************************************************************)
EXTENDS Parser, ExpressionEmitter, FiniteSets

CONSTANT Trees      \* source files

VARIABLES
    tree,           \* what was written
    lost,           \* the index of the token that was lost, 0: none
    phase,          \* "written", "parsed"
    parser          \* the parser after parse
vars == <<tokens, tree, lost, phase, parser>>

RECURSIVE Written(_), List(_)
(* A node where a statement is expected. *)
Statement(n) == Written(n) \o (IF n.k \in {"return", "break", "continue"} THEN <<";">> ELSE <<>>)
(* Children with commas between them. *)
List(ns) == IF ns = <<>> THEN <<>>
            ELSE IF Len(ns) = 1 THEN Written(ns[1])
            ELSE Written(Head(ns)) \o <<",">> \o List(Tail(ns))
Words(v) == SelectSeq(v, LAMBDA x : x # "")
Captured(x) == IF x = "" THEN <<>> ELSE <<"|", x, "|">>
Label(x) == IF x = "" THEN <<>> ELSE <<x, ":">>
After(t, n) == IF n = Null THEN <<>> ELSE <<t>> \o Written(n)
All(ns) == FlattenSeq([i \in DOMAIN ns |-> Statement(ns[i])])

WrittenType(n) ==
    LET c == n.c
    IN  CASE n.k = "type_name" -> n.v
          [] n.k = "pointer_type" -> (IF n.v[2] = "many" THEN <<"[", "*", "]">> ELSE <<"*">>)
                                       \o Words(<<n.v[1]>>) \o Written(c[1])
          [] n.k = "array_type" -> <<"[">> \o Written(c[1]) \o <<"]">> \o Words(n.v) \o Written(c[2])
          [] n.k = "optional" -> <<"?">> \o Written(c[1])
          [] n.k = "error_union" -> Written(c[1]) \o <<"!">> \o Written(c[2])
          [] n.k = "fn_type" -> <<"fn", "(">> \o List(Tail(c)) \o <<")">> \o Written(c[1])
          [] n.k = "error_set" -> <<"error", "{">> \o List(c) \o <<"}">>
          [] n.k = "struct" -> <<"struct", "{">> \o List(c) \o <<"}">>
          [] n.k \in {"union", "enum"} ->
               <<n.k>> \o (IF c[1] = Null THEN <<>> ELSE <<"(">> \o Written(c[1]) \o <<")">>)
                 \o <<"{">> \o List(Tail(c)) \o <<"}">>
          [] n.k = "name" -> n.v
          [] n.k = "element" -> Written(c[1])
          [] n.k = "enum_member" -> n.v \o After("=", c[1])
          [] n.k = "field" -> IF n.v[2] = "" THEN <<n.v[1]>> ELSE n.v \o Written(c[1])
          [] n.k = "param" -> IF n.v[3] = "" THEN Words(<<n.v[1], "anytype", n.v[2]>>)
                              ELSE Words(n.v) \o Written(c[1])
TypeKinds == {"type_name", "pointer_type", "array_type", "optional", "error_union", "fn_type", "error_set",
              "struct", "union", "enum", "name", "element", "enum_member", "field", "param"}

WrittenExpr(n) ==
    LET c == n.c
        infix(op) == Written(c[1]) \o op \o Written(c[2])
    IN  CASE n.k \in {"literal", "ident"} -> n.v
          [] n.k = "paren" -> <<"(">> \o Written(c[1]) \o <<")">>
          [] n.k = "tag" -> <<".">> \o n.v
          [] n.k = "error_literal" -> <<"error", ".">> \o n.v
          [] n.k = "struct_init" -> (IF c[1] = Null THEN <<".">> ELSE Written(c[1]))
                                      \o <<"{">> \o List(Tail(c)) \o <<"}">>
          [] n.k = "named" -> <<".">> \o n.v \o After("=", c[1])
          [] n.k = "positional" -> Written(c[1])
          [] n.k = "tuple" -> <<".", "{">> \o List(c) \o <<"}">>
          [] n.k = "import" -> <<"@import", "(">> \o n.v \o <<")">>
          [] n.k = "offset_of" -> <<"@offsetOf", "(">> \o Written(c[1]) \o <<",">> \o n.v \o <<")">>
          [] n.k \in {"cast", "builtin"} -> n.v \o <<"(">> \o List(c) \o <<")">>
          [] n.k = "call" -> Written(c[1]) \o <<"(">> \o List(Tail(c)) \o <<")">>
          [] n.k = "access" -> Written(c[1]) \o <<"[">> \o Written(c[2]) \o <<"]">>
          [] n.k = "slice" -> Written(c[1]) \o <<"[">> \o Written(c[2]) \o <<"..">> \o Written(c[3]) \o <<"]">>
          [] n.k = "member" -> Written(c[1]) \o <<".">> \o n.v
          [] n.k = "deref" -> Written(c[1]) \o <<".*">>
          [] n.k = "unary" -> n.v \o Written(c[1])
          [] n.k = "try" -> <<"try">> \o Written(c[1])
          [] n.k = "catch" -> infix(<<"catch">> \o Captured(n.v[1]))
          [] n.k = "orelse" -> infix(<<"orelse">>)
          [] n.k = "merge" -> infix(<<"||">>)
          [] n.k \in {"binary", "compound", "range"} -> infix(n.v)
          [] n.k = "assign" -> infix(<<"=">>)
          [] n.k = "if_expr" -> <<"if", "(">> \o Written(c[1]) \o <<")">> \o Captured(n.v[1]) \o Written(c[2])
                                  \o <<"else">> \o Written(c[3])
          [] n.k = "prong" -> (IF Len(c) = 1 THEN <<"else">> ELSE List(Tail(c))) \o <<"=>">>
                                \o Captured(n.v[1]) \o Written(c[1])
          [] n.k \in {"switch", "switch_expr"} ->
               <<"switch", "(">> \o Written(c[1]) \o <<")", "{">> \o List(Tail(c)) \o <<"}">>
          [] n.k = "return" -> <<"return">> \o Written(c[1])
          [] n.k \in {"break", "continue"} -> <<n.k>> \o (IF n.v[1] = "" THEN <<>> ELSE <<":", n.v[1]>>)
          [] n.k = "block" -> <<"{">> \o All(c) \o <<"}">>
          [] n.k = "null" -> <<>>
StmtKinds == {"expr_stmt", "empty", "var_decl", "fn_decl", "if", "while", "for", "defer", "errdefer",
              "comptime"}
WrittenStmt(n) ==
    LET c == n.c
    IN  CASE n.k = "expr_stmt" -> Written(c[1]) \o <<";">>
          [] n.k = "empty" -> <<";">>
          [] n.k = "var_decl" -> Words(n.v) \o After(":", c[1]) \o After("=", c[2]) \o <<";">>
          [] n.k = "fn_decl" ->
               Words(SubSeq(n.v, 1, 3)) \o <<"fn", n.v[4], "(">> \o List(SubSeq(c, 3, Len(c))) \o <<")">>
                 \o (IF c[1] = TypeName("void") THEN <<>> ELSE Written(c[1]))
                 \o (IF c[2] = Null THEN <<";">> ELSE Written(c[2]))
          [] n.k = "if" -> <<"if", "(">> \o Written(c[1]) \o <<")">> \o Captured(n.v[1]) \o Statement(c[2])
                             \o (IF c[3] = Null THEN <<>> ELSE <<"else">> \o Statement(c[3]))
          [] n.k = "while" ->
               Label(n.v[1]) \o <<"while", "(">> \o Written(c[1]) \o <<")">> \o Captured(n.v[2])
                 \o (IF c[2] = Null THEN <<>> ELSE <<":", "(">> \o Written(c[2]) \o <<")">>) \o Statement(c[3])
          [] n.k = "for" ->
               Label(n.v[1]) \o <<"for", "(">> \o Written(c[1]) \o <<")", "|", n.v[2]>>
                 \o (IF n.v[3] = "" THEN <<>> ELSE <<",", n.v[3]>>) \o <<"|">> \o Statement(c[2])
          [] n.k \in {"defer", "errdefer"} -> <<n.k>> \o Statement(c[1])
          [] n.k = "comptime" -> <<"comptime", "{">> \o Written(c[1]) \o <<"}">>
Written(n) == CASE n.k \in TypeKinds -> WrittenType(n)
                [] n.k \in StmtKinds -> WrittenStmt(n)
                [] OTHER -> WrittenExpr(n)

File(n) == FlattenSeq([i \in DOMAIN n.c |-> Written(n.c[i])
                                              \o (IF n.c[i].k \in {"struct", "union"} THEN <<";">> ELSE <<>>)])
-----------------------------------------------------------------------------
Init ==
    /\ tree \in Trees
    /\ tokens = Append(File(tree), "eof")
    /\ lost = 0
    /\ phase = "written"
    /\ parser = Start

(* One token of the file is missing. *)
Lose ==
    /\ phase = "written"
    /\ lost = 0
    /\ \E i \in 1..Len(tokens) - 1 :
         /\ lost' = i
         /\ tokens' = RemoveAt(tokens, i)
    /\ UNCHANGED <<tree, phase, parser>>

Parse ==
    /\ phase = "written"
    /\ phase' = "parsed"
    /\ parser' = parse
    /\ UNCHANGED <<tokens, tree, lost>>

Finished == phase = "parsed" /\ UNCHANGED vars

Next == Lose \/ Parse \/ Finished
Spec == Init /\ [][Next]_vars
-----------------------------------------------------------------------------
Parsed == phase = "parsed" /\ parser.ok
(* Lists may end with a comma. *)
Closers == {")", "}", "=>"}
WithoutLastCommas(ts) ==
    LET kept == {i \in DOMAIN ts : ~(ts[i] = "," /\ i < Len(ts) /\ ts[i + 1] \in Closers)}
    IN  [i \in 1..Cardinality(kept) |-> ts[CHOOSE j \in kept : Cardinality({k \in kept : k < j}) = i - 1]]

(* What is accepted is in the tree: of a file with a token missing either  *)
(* an error is reported or no other token is dropped.                      *)
NothingDropped == Parsed => File(parser.n) = WithoutLastCommas(Front(tokens))

(* Declarations in a node at a level, in the order they end. *)
RECURSIVE Declared(_, _), DeclaredAll(_, _)
DeclaredAll(ns, level) == FlattenSeq([i \in DOMAIN ns |-> Declared(ns[i], level)])
Declared(n, level) ==
    CASE n.k = "var_decl" -> DeclaredAll(n.c, level) \o <<<<Last(n.v), level>>>>
      [] n.k = "fn_decl" -> <<<<Last(n.v), level>>>> \o DeclaredAll(n.c, level)
      [] n.k = "block" -> DeclaredAll(n.c, level + 1)
      [] OTHER -> DeclaredAll(n.c, level)

(* A file that is written out is read as what was written: precedence,     *)
(* associativity, lookahead and optional parts.  Of any file accepted, the *)
(* symbols were inserted at the level of the block they are declared in,   *)
(* and the levels and the recursion depth end where they began             *)
(* (parsePrecedenceExpr, parsePostfixExpression, parseAnonymousLiteral,    *)
(* parseBlockStatement, parseVarDecl, parseFnDecl).                        *)
ReadAsWritten ==
    /\ phase = "parsed" /\ lost = 0 => parser.ok /\ parser.n = tree
    /\ Parsed => parser.syms = DeclaredAll(parser.n.c, 1) /\ parser.level = 1 /\ parser.d = 0

RECURSIVE Inside(_)
Inside(n) == {n} \cup UNION {Inside(c) : c \in Range(n.c)}
(* The expressions of a file that the emitter takes as a whole. *)
Expressions(n) == {e \in {Last(s.c) : s \in {t \in Inside(n) : t.k \in {"expr_stmt", "var_decl"}}} :
                      /\ {x.k : x \in Inside(e)} \subseteq Emitted \cup {"type_name"}
                      /\ \A x \in Inside(e) : x.k = "builtin" => x.v[1] \notin OneType}
Comparison == {"==", "!=", "<", ">", "<=", ">="}
Bitwise == {"&", "^", "|"}
(* No comparison of an unparenthesised bitwise operation or comparison, no *)
(* cast of an unparenthesised operation, no operator doubled.              *)
GroupsAsInC(e) ==
    \A n \in Inside(e) :
        /\ n.k = "binary" /\ n.v[1] \in Comparison =>
             \A i \in {1, 2} : n.c[i].k = "binary" => n.c[i].v[1] \notin Comparison \cup Bitwise
        /\ n.k \in {"cast", "builtin"} => Last(n.c).k \notin {"binary", "assign"}
        /\ n.k = "unary" => n.c[1].v # n.v \/ n.v[1] \in {"!", "~"}

(* C groups an emitted expression as the source does, where no comparison  *)
(* has a bare bitwise operand, no cast a bare binary one and no prefix     *)
(* operator is doubled (emitBinaryOp, emitUnaryOp, emitCast, emitAccess,   *)
(* requiresParentheses).                                                   *)
GroupedAlike ==
    Parsed => \A e \in Expressions(parser.n) : GroupsAsInC(e) => CMeaning(emitExpression(e)) = Meaning(e)
=============================================================================
