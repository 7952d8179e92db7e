---------------------------- MODULE SyntaxTrees ----------------------------
(***************************************************************************)
(* Files for Syntax: every pair of operators one inside the other, every   *)
(* form of statement, type and declaration.  The constructors put          *)
(* parentheses where the grammar asks for them.                            *)
(***************************************************************************)
EXTENDS Parser

Lit(x) == N("literal", <<x>>, <<>>)
Id(x) == N("ident", <<x>>, <<>>)
a == Id("a")
b == Id("b")
Paren(e) == N("paren", <<>>, <<e>>)
Level(e) == CASE e.k \in {"assign", "compound", "return", "if_expr"} -> 0
              [] e.k \in {"catch", "orelse", "merge", "range"} -> 1
              [] e.k = "binary" -> get_token_precedence(e.v[1])
              [] e.k \in {"unary", "try"} -> 11
              [] OTHER -> 12
Bound(e, level) == IF Level(e) >= level THEN e ELSE Paren(e)

Ops == {"*", "-", "+%", "<<", "&", "^", "|", "==", "<", "and", "or"}
Precedence(op) == CASE op = "*" -> 10 [] op \in {"-", "+%"} -> 9 [] op = "<<" -> 8 [] op = "&" -> 7 [] op = "^" -> 6
                    [] op = "|" -> 5 [] op \in {"==", "<"} -> 4 [] op = "and" -> 3 [] op = "or" -> 2
At2(e, level) == IF (e.k = "binary" /\ Precedence(e.v[1]) < level) \/ (e.k # "binary" /\ Level(e) < level)
                   THEN Paren(e) ELSE e
Bin(op, x, y) == N("binary", <<op>>, <<At2(x, Precedence(op)), At2(y, Precedence(op) + 1)>>)
Un(op, x) == N("unary", <<op>>, <<IF x.k = "try" THEN Paren(x) ELSE At2(x, 11)>>)
Try(x) == N("try", <<>>, <<At2(x, 11)>>)
Deref(x) == N("deref", <<>>, <<At2(x, 12)>>)
Member(x) == N("member", <<"b">>, <<At2(x, 12)>>)
Access(x, y) == N("access", <<>>, <<At2(x, 12), y>>)
Slice(x, y, z) == N("slice", <<>>, <<At2(x, 12), y, z>>)
Call(x, args) == N("call", <<>>, <<At2(x, 12)>> \o args)
Right(e) == IF e.k \in {"return", "if_expr"} THEN e ELSE At2(e, 1)
Left(e) == IF e.k \in {"catch", "orelse"} THEN Paren(e) ELSE At2(e, 1)
Catch(x, v, y) == N("catch", <<v>>, <<Left(x), Right(y)>>)
Orelse(x, y) == N("orelse", <<>>, <<Left(x), Right(y)>>)
Merge(x, y) == N("merge", <<>>, <<Left(x), At2(y, 2)>>)
Span(x, y) == N("range", <<"..">>, <<Left(x), At2(y, 2)>>)
Assign(x, y) == N("assign", <<>>, <<At2(x, 1), y>>)
Add(x, y) == N("compound", <<"+=">>, <<At2(x, 1), y>>)
Cast(t, x) == N("cast", <<t>>, <<TypeName("T"), x>>)
Ret(x) == N("return", <<>>, <<x>>)
IfExpr(v, x, y) == N("if_expr", <<v>>, <<a, x, y>>)

(* Every operator on names. *)
Simple ==
    {Bin(op, a, b) : op \in Ops} \cup {Un(op, a) : op \in {"-", "!", "&"}} \cup {Cast("@intCast", a), Cast("@ptrCast", a)}
      \cup {Try(a), Deref(a), Member(a), Access(a, b), Slice(a, b, b), Call(a, <<b>>), Catch(a, "b", b),
            Orelse(a, b), Merge(a, b), Assign(a, b), Add(a, b), IfExpr("", a, b), Ret(a)}
(* One operator in another, or two in a third. *)
Nested ==
    LET S == Simple \cup {Lit("1")}
    IN  {Bin(op, x, b) : op \in Ops, x \in S} \cup {Bin(op, a, x) : op \in Ops, x \in S}
          \cup {Un(op, x) : op \in {"-", "!", "&"}, x \in S} \cup {Cast(t, x) : t \in {"@intCast", "@ptrCast"}, x \in S}
          \cup {Bin(op, Bin(l, a, b), Bin(r, a, b)) : op, l, r \in {"*", "-", "&", "==", "and", "or"}}
          \cup UNION {{Try(x), Deref(x), Member(x), Access(x, b), Access(a, x), Slice(x, Null, b), Slice(a, b, At2(x, 2)),
                       Slice(x, b, Null), Call(x, <<>>), Call(a, <<x, b>>), Catch(x, "", b), Catch(a, "b", x),
                       Orelse(x, b), Orelse(a, x), Merge(x, b), Merge(a, x), Span(x, b), Assign(x, b), Assign(a, x),
                       Add(a, x), IfExpr("b", x, b), IfExpr("", a, x), Ret(x)} : x \in S}
(* The other forms. *)
Named(x) == N("named", <<"a">>, <<x>>)
Positional(x) == N("positional", <<>>, <<x>>)
Prong(v, body, is) == N("prong", <<v>>, <<body>> \o is)
Block(ss) == N("block", <<>>, ss)
Stmt(e) == N("expr_stmt", <<>>, <<e>>)
Forms ==
    {N("tag", <<"a">>, <<>>), N("error_literal", <<"a">>, <<>>), N("import", <<"\"s\"">>, <<>>),
     N("offset_of", <<"\"s\"">>, <<TypeName("T")>>), N("builtin", <<"@sizeOf">>, <<TypeName("T")>>),
     N("builtin", <<"@enumToInt">>, <<a>>), N("builtin", <<"@intToEnum">>, <<TypeName("T"), a>>),
     N("struct_init", <<>>, <<Id("T"), Named(a), Named(b)>>), N("struct_init", <<>>, <<Null, Named(a), Named(Null)>>),
     N("struct_init", <<>>, <<Id("T"), Positional(a), Positional(b)>>),
     N("tuple", <<>>, <<a, b>>), N("tuple", <<>>, <<>>), N("tuple", <<>>, <<b, N("tag", <<"a">>, <<>>)>>),
     N("tuple", <<>>, <<Member(N("tag", <<"a">>, <<>>))>>),
     N("switch_expr", <<>>, <<a, Prong("", b, <<Lit("1"), b>>), Prong("b", Block(<<Stmt(a)>>), <<>>)>>),
     N("switch_expr", <<>>, <<a, Prong("", Ret(Null), <<Span(Lit("1"), b)>>)>>),
     N("error_set", <<>>, <<N("name", <<"a">>, <<>>), N("name", <<"b">>, <<>>)>>)}
Types ==
    LET t == TypeName("T")
        pointer(x) == N("pointer_type", <<"", "one">>, <<x>>)
        field(x) == N("field", <<"a", ":">>, <<x>>)
    IN  {t, pointer(t), pointer(pointer(t)), N("pointer_type", <<"const", "many">>, <<t>>),
         N("array_type", <<"">>, <<Lit("1"), pointer(t)>>), N("array_type", <<"const">>, <<Null, t>>),
         N("optional", <<>>, <<pointer(t)>>), N("error_union", <<>>, <<t, N("optional", <<>>, <<t>>)>>),
         N("merge", <<>>, <<t, t>>), N("member", <<"a">>, <<t>>),
         N("fn_type", <<>>, <<t, pointer(t), t>>), N("struct", <<>>, <<field(t), field(pointer(t))>>),
         N("struct", <<>>, <<N("element", <<>>, <<t>>), N("element", <<>>, <<pointer(t)>>)>>),
         N("union", <<>>, <<Null, field(t)>>),
         N("union", <<>>, <<TypeName("enum"), field(t), N("field", <<"b", "">>, <<TypeName("void")>>)>>),
         N("enum", <<>>, <<Null, N("enum_member", <<"a">>, <<Lit("1")>>), N("enum_member", <<"b">>, <<Null>>)>>),
         N("enum", <<>>, <<t, N("enum_member", <<"a">>, <<Null>>)>>)}
Var(word, t, e) == N("var_decl", <<"", "", "", word, "b">>, <<t, e>>)
Loop(label, body) == {N("while", <<label, "">>, <<a, Null, body>>), N("while", <<label, "b">>, <<a, Add(b, a), body>>),
                      N("for", <<label, "b", "">>, <<a, body>>), N("for", <<label, "b", "a">>, <<a, body>>)}
Statements ==
    LET S == {Stmt(a), Block(<<Var("var", TypeName("T"), a)>>), Ret(a), N("break", <<"">>, <<>>),
              N("continue", <<"f">>, <<>>)}
        C == {N("if", <<"">>, <<a, s, Null>>) : s \in S} \cup UNION {Loop("f", s) : s \in S}
    IN  S \cup C \cup UNION {Loop("", s) : s \in S \cup C} \cup {N("if", <<"b">>, <<a, Block(<<s>>), s>>) : s \in S \cup C}
          \cup {N("defer", <<>>, <<s>>) : s \in S} \cup {N("errdefer", <<>>, <<s>>) : s \in S}
          \cup {N("empty", <<>>, <<>>), Ret(Null), Var("const", Null, a),
                N("switch", <<>>, <<a, Prong("", Block(<<Var("var", Null, a), Stmt(b)>>), <<b>>), Prong("", b, <<>>)>>)}

Fn(flags, ret, ss, ps) == N("fn_decl", flags \o <<"f">>, <<ret, Block(ss)>> \o ps)
Plain == <<"", "", "">>
Param(comptime, t) == N("param", <<comptime, "a", ":">>, <<t>>)
Top(t) == N("var_decl", <<"pub", "", "", "const", "T">>, <<Null, t>>)
AsStatement(e) == e.k \notin {"if_expr", "return", "switch_expr"}
Bodies == {<<Stmt(e)>> : e \in {x \in Nested : AsStatement(x)}} \cup {<<s, Stmt(b)>> : s \in Statements}
            \cup {<<N("comptime", <<>>, <<a>>)>>}
            \cup {<<Var("var", Null, e)>> : e \in Forms \cup {x \in Nested : ~AsStatement(x)}}
Trees ==
    {Block(<<Fn(Plain, TypeName("void"), ss, <<>>)>>) : ss \in Bodies}
      \cup {Block(<<Top(t)>>) : t \in {x \in Types : x.k \in {"struct", "union", "enum"}}}
      \cup {Block(<<Var("var", t, a), Var("const", t, Lit("undefined"))>>) : t \in Types}
      \cup {Block(<<Fn(<<"pub", "", "export">>, t, <<Ret(b)>>, <<Param("", t), Param("comptime", TypeName("type"))>>)>>) :
              t \in {x \in Types : x.k \notin {"struct", "union", "enum"}}}
      \cup {Block(<<N("fn_decl", <<"", "extern", "", "f">>,
                      <<TypeName("T"), Null, N("param", <<"", "a", "">>, <<TypeName("anytype")>>)>>),
                    N("struct", <<>>, <<N("field", <<"a", ":">>, <<TypeName("T")>>)>>)>>)}
=============================================================================
