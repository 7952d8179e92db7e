------------------------- MODULE MCStaticAnalyzers --------------------------
(***************************************************************************)
(* Small functions: two pointers p and q, a local value l, a pointer       *)
(* parameter g, a struct s with a pointer field.                           *)
(***************************************************************************)
EXTENDS AnalyzerReports, Functions

MCNames == {"p", "q", "g", "l", "s", "s.ptr", "i"}
MCLocals == {"p", "q", "g", "l", "s", "i"}
MCParams == {"g"}
MCPointers == {"p", "q", "g", "i"}
MCBaseOf(x) == IF x = "s.ptr" THEN "s" ELSE x

P == Id("p")
FieldPtr == Field(Id("s"), "s.ptr")
Fn(ss) == Block(ss)
NewP == Decl("p", Alloc(TRUE))

(* Allocation: three steps on an allocated p, and every kind of end. *)
Steps == {Free("p", 1), Assign(P, Alloc(TRUE)), Assign(P, NullLit), Defer(Free("p", 2)),
          ErrDefer(Free("p", 3)), Defer(Assign(P, NullLit)), Transfer("p"), Compound("p")}
Ends == {<<>>, <<Return(None, FALSE, 9)>>, <<Return(None, TRUE, 9)>>, <<Return(P, FALSE, 9)>>}
Straight == {Fn(<<NewP, a, b>> \o e) : a, b \in Steps, e \in Ends}
    \cup {Fn(<<NewP, a, b, c>>) : a \in {Defer(Free("p", 2)), ErrDefer(Free("p", 3)), Assign(P, Alloc(FALSE))}, b, c \in Steps}
    \cup {Fn(<<Decl("p", None), a, b>>) : a, b \in Steps}
    \cup {Fn(<<NewP, Decl("q", c), Free("q", 4), b>>) : b \in Steps, c \in {P, Cast(P), NullLit}}
    \cup {Fn(<<Assign(FieldPtr, e), Free("s.ptr", 4), Assign(FieldPtr, P), b>>) :
            b \in {Free("s.ptr", 5), Free("p", 1)}, e \in {Alloc(TRUE), Call}}

Inner == {Block(<<>>), Block(<<Free("p", 1)>>), Block(<<Assign(P, Alloc(TRUE))>>),
          Block(<<Defer(Free("p", 2)), Assign(P, Alloc(TRUE))>>),
          Block(<<Free("p", 1), Return(None, FALSE, 8)>>),
          Block(<<Return(None, TRUE, 8)>>)}
Forked(a, b) == {If(AnyCond, "", a, b), If(AnyCond, "", a, None), Switch(<<a, b>>),
                 Switch(<<a, b, Block(<<>>)>>), While(AnyCond, a), For("i", a)}
Pre == {<<>>, <<Free("p", 3)>>, <<Defer(Free("p", 4))>>, <<ErrDefer(Free("p", 4))>>}
(* Not both branches return: nothing that follows is dead code. *)
EndsInReturn(a) == \E i \in DOMAIN a.ss : a.ss[i].k = "return"
Branched == UNION {{Fn(<<NewP>> \o pre \o <<f>> \o post) :
                      pre \in Pre, post \in {<<>>, <<Free("p", 5)>>}} :
                     f \in UNION {Forked(a, b) : a \in Inner, b \in {c \in Inner : ~EndsInReturn(c)}}}

(* Null states: a pointer of every state, a statement, a dereference. *)
Values == {None, NullLit, AddrOf(Id("l")), Id("g"), Call}
UseP(n) == Use(Deref(P, n))
Conds == {AnyCond, Cmp("p", TRUE), Cmp("p", FALSE), Cmp("g", FALSE)}
Bodies == {Block(<<UseP(1)>>), Block(<<Assign(P, NullLit)>>), Block(<<Assign(P, AddrOf(Id("l")))>>),
           Block(<<Assign(P, Id("g")), UseP(2)>>), Block(<<Return(P, FALSE, 3)>>)}
NullSteps ==
    UNION {{If(c, "", a, None), While(c, a), For("i", Block(<<a, Assign(P, Id("i"))>>))} :
             c \in Conds, a \in Bodies}
    \cup UNION {{If(c, "", a, b) : c \in Conds, b \in Bodies \ {a}} : a \in Bodies}
    \cup {If(Cmp("p", FALSE), "q", Block(<<Use(Deref(Id("q"), 4))>>), b) : b \in {None} \cup Bodies}
    \cup {Block(<<a, b>>) : a, b \in Bodies}
    \cup {Compound("p"), Assign(Deref(P, 5), Call)}
Nulls == {Fn(<<Decl("p", v), s, UseP(6)>>) : v \in Values, s \in NullSteps}

(* Provenance: where p comes from, what is returned. *)
Sources == {NullLit, AddrOf(Id("l")), AddrOf(Field(Id("s"), "s.f")), SliceOf(Id("l")), Id("g"),
            AddrOf(Field(Id("g"), "g.f")), AddrOf(Deref(Id("g"), 7)), Call, Cast(AddrOf(Id("l")))}
Results == {P, Id("g"), AddrOf(Id("l")), AddrOf(Field(P, "p.f")), AddrOf(Deref(P, 7)), Cast(P),
            AddrOf(Field(Id("s"), "s.f")), Call}
Returns == {Fn(<<Decl("p", a), Return(r, FALSE, 9)>>) : a \in Sources, r \in Results}
    \cup {Fn(<<Decl("p", a), Decl("q", P), Assign(P, b), Return(r, FALSE, 9)>>) :
            a, b \in Sources, r \in {Id("q"), P, AddrOf(Field(Id("q"), "q.f"))}}

MCFunctions == Straight \cup Branched \cup Nulls \cup Returns

(* Their nodes, to the depth of the deepest one. *)
Kids(n) == CASE n.k = "block" -> Range(n.ss)
             [] n.k = "switch" -> Range(n.prongs)
             [] n.k = "if" -> {n.then, n.else}
             [] n.k \in {"while", "for"} -> {n.body}
             [] n.k \in {"defer", "errdefer"} -> {n.s}
             [] n.k = "assign" -> {n.lv, n.e}
             [] n.k \in {"addr", "deref", "field", "slice", "cast", "decl", "use", "return"} -> {n.e}
             [] OTHER -> {}
Deeper(S) == S \cup UNION {Kids(n) : n \in S}
MCAST == Deeper(Deeper(Deeper(Deeper(Deeper(Deeper(Deeper(Deeper(Deeper(MCFunctions)))))))))
=============================================================================
