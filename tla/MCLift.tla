------------------------------- MODULE MCLift -------------------------------
(* Bodies in which calls 1 to 4 stand in every context that lifting meets. *)
EXTENDS LiftSemantics

F(n) == Fallible(n, <<>>)
C(n) == Call(n, <<>>)
(* An expression that is lifted, around the call 1. *)
Alts == {C(2), Try(F(2)), Return(C(2)), Block(<<ExprStmt(C(2)), ExprStmt(Try(F(3)))>>)}
Lifts == {Try(F(1)), Try(Fallible(2, <<Try(F(1))>>)), Extern(1, <<F(2)>>), Aggregate(<<C(1), Try(F(2))>>)}
    \cup {Catch(F(1), a) : a \in Alts} \cup {Orelse(F(1), a) : a \in Alts}
    \cup {IfExpr(C(1), a, C(3)) : a \in Alts}
    \cup {Orelse(Paren(Try(F(1))), C(2)), IfExpr(Paren(Try(F(1))), C(2), Try(F(3)))}
    \cup {SwitchExpr(C(1), C(3), a) : a \in Alts} \cup {SwitchExpr(Try(F(1)), Catch(F(2), C(3)), C(3))}
(* Where it stands in an expression. *)
Uses == Lifts \cup UNION {{Paren(l), Binary(l, C(4)), Binary(C(4), l), And(l, C(4)), And(C(4), l),
                           Call(4, <<l>>), Call(4, <<Var(100), l>>), Binary(l, Try(F(4))),
                           Aggregate(<<l>>), Try(Fallible(4, <<Paren(l)>>))} : l \in Lifts}
(* Where the expression stands. *)
Bodies(e) ==
    {Block(<<ExprStmt(e), ExprStmt(C(4))>>), Block(<<Return(e)>>),
     Block(<<Decl(100, e), Return(Var(100))>>), Block(<<Decl(100, Literal), Assign(100, e), Return(Var(100))>>),
     Block(<<If(e, ExprStmt(C(4)), None), ExprStmt(C(3))>>),
     Block(<<If(C(4), ExprStmt(e), If(C(3), Return(C(4)), None))>>),
     Block(<<Defer(ExprStmt(C(4))), Switch(e, Break, ExprStmt(C(3)))>>),
     Block(<<Defer(Block(<<ExprStmt(C(3))>>)), For(e, Block(<<ExprStmt(C(4))>>))>>),
     Block(<<While(C(4), C(3), Block(<<ExprStmt(e), Break>>)), ExprStmt(C(4))>>)}
(* Void expressions. *)
Voids ==
    LET choices == {Void(IfExpr(C(1), a, C(3))) : a \in Alts} \cup {Void(IfExpr(Try(F(1)), C(3), C(2)))}
                     \cup {Void(SwitchExpr(c, C(3), Try(F(2)))) : c \in {C(1), Try(F(1))}}
    IN  choices \cup {Paren(c) : c \in choices}
          \cup {Catch(F(4), c) : c \in choices} \cup {Orelse(F(4), Block(<<ExprStmt(c)>>)) : c \in choices}
MCPrograms ==
    UNION {Bodies(e) : e \in Uses}
    \cup UNION {{Block(<<ExprStmt(e), ExprStmt(C(4))>>), Block(<<If(C(4), ExprStmt(e), None)>>)} : e \in Voids}
    \cup {Block(<<ExportReturn(e)>>) : e \in {F(1), Extern(1, <<F(2)>>)}}
    \cup {Block(<<If(C(4), ExprStmt(C(3)), If(Try(F(1)), Return(C(2)), None))>>),
          Block(<<While(Orelse(F(1), Literal), None, ExprStmt(C(2)))>>),
          Block(<<While(And(C(3), Try(F(1))), C(2), Block(<<ExprStmt(C(4))>>))>>),
          Block(<<While(C(3), Try(F(1)), Block(<<ExprStmt(C(2))>>))>>)}
=============================================================================
