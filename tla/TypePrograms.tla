---------------------------- MODULE TypePrograms ----------------------------
(***************************************************************************)
(* Small programs for CBackend: one module whose three types and one       *)
(* function refer to each other in every way of a small menu and are met   *)
(* in several orders, and two modules with or without an import cycle,     *)
(* with public and private functions over the same special types.          *)
(***************************************************************************)
EXTENDS MetadataPreparation

Ptr(t) == Type("ptr", "", << t >>)
Opt(t) == Type("opt", "", << t >>)
Eu(t) == Type("eu", "", << t >>)
Arr(t) == Type("arr", "", << t >>)
Slice(t) == Type("slice", "", << t >>)
Tuple(t) == Type("tuple", "", << t, Prim >>)
Fn(t) == Type("fn", "", << t, Prim >>)

Decl(fields, m) == [kind |-> "struct", fields |-> fields, tag |-> "", mod |-> m]
EnumOf(m) == [kind |-> "enum", fields |-> << >>, tag |-> "", mod |-> m]
Tagged(fields, m) == [kind |-> "union", fields |-> fields, tag |-> "E", mod |-> m]
Sym(what, t, pub) == [what |-> what, t |-> t, pub |-> pub]

A == Named("A")
B == Named("B")
C == Named("C")
E == Named("E")

(* A symbol is a type of the program or its function.                      *)
OneModule ==
  { [modules |-> << "m" >>, imports |-> [m \in {"m"} |-> << >>], priority |-> FALSE,
     types |-> [n \in {"A", "B", "C", "E"} |->
                  CASE n = "A" -> Decl(<< f[1], f[2] >>, "m")
                    [] n = "B" -> Tagged(<< f[3] >>, "m")
                    [] n = "C" -> Decl(<< f[4] >>, "m")
                    [] n = "E" -> EnumOf("m")],
     decls |-> [m \in {"m"} |-> syms],
     buckets |-> [m \in {"m"} |-> [i \in DOMAIN order |-> syms[order[i]]]]] :
    f \in {Ptr(B), Ptr(C), Prim, Opt(Ptr(A))}
          \X {Prim, B, C, Opt(B), Arr(B), Slice(C)}
          \X {Prim, C, Eu(C), Ptr(A), Opt(A), A}
          \X {Prim, A, Opt(A), Arr(A), Tuple(A)},
    syms \in { << Sym("type", A, TRUE), Sym("type", B, pub), Sym("type", C, TRUE),
                  Sym("fn", Fn(t), TRUE) >> :
               pub \in BOOLEAN, t \in {A, Opt(A), Opt(Eu(C))} },
    order \in { << 1, 2, 3, 4 >>, << 4, 1, 2, 3 >>, << 3, 2, 1, 4 >> } }

TwoModules ==
  { [modules |-> << "m", "n" >>,
     imports |-> [x \in {"m", "n"} |-> IF x = "n" THEN << "m" >>
                                       ELSE IF cyclic THEN << "n" >> ELSE << >>],
     priority |-> priority,
     types |-> [x \in {"A", "B", "E"} |->
                  CASE x = "A" -> Decl(<< IF cyclic THEN Ptr(B) ELSE Prim >>, "m")
                    [] x = "B" -> Tagged(<< fb >>, "n")
                    [] x = "E" -> EnumOf("m")],
     decls |-> s, buckets |-> s] :
    cyclic \in BOOLEAN, priority \in BOOLEAN,
    fb \in {Prim, A, Opt(A), Ptr(A)},
    s \in { [x \in {"m", "n"} |->
               IF x = "m" THEN << Sym("type", A, TRUE), Sym("fn", Fn(f[1]), pf) >>
               ELSE << Sym("type", B, pb), Sym("fn", Fn(f[2]), pg), Sym("var", f[2], pf) >>] :
            f \in {Prim, A, Opt(Prim), Eu(A), Slice(Opt(A)), Tuple(A), Opt(Opt(Prim))}
                  \X {Prim, Opt(Prim), Eu(A), Opt(B), Tuple(A)},
            pf \in BOOLEAN, pg \in BOOLEAN, pb \in BOOLEAN } }

RECURSIVE Holds(_, _, _)
(* What t holds by value, n levels deep.                                   *)
Holds(p, t, n) ==
  IF n = 0 THEN {}
  ELSE LET parts == IF IsNamed(t) THEN p.types[t.n].fields
                    ELSE IF t.k \in {"ptr", "slice", "fn", "prim"} THEN << >> ELSE t.a
       IN UNION {{parts[i]} \union Holds(p, parts[i], n - 1) : i \in DOMAIN parts}

(* The type checker rejects a type that holds itself.                      *)
Programs ==
  { p \in OneModule \union TwoModules :
      \A n \in DOMAIN p.types : Named(n) \notin Holds(p, Named(n), 8) }
=============================================================================
