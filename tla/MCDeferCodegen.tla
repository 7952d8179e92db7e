--------------------------- MODULE MCDeferCodegen ---------------------------
(***************************************************************************)
(* Function bodies for DeferCodegen.  Events 1..9 are deferred statements, *)
(* 11.. the others.                                                        *)
(***************************************************************************)
EXTENDS DeferSemantics

D(n) == Defer(n, <<Act(n)>>)
E(n) == ErrDefer(n, <<Act(n)>>)

Exits == {Break(0), Continue(0), Return(11, "any"), Try(12)}
Inner == Exits \cup {Act(13), Unreachable, Break(1), Continue(1)}

(* One loop with a branch, a switch or a try in its body. *)
InLoop ==
    {<<D(3), If(<<D(4), x>>), E(5), y>> : x \in Exits, y \in Exits \cup {Act(13)}}
    \cup {<<Switch(<<<<D(3), x>>, <<y>>>>, e), D(4)>> :
            x \in Exits, y \in Exits \cup {Unreachable}, e \in BOOLEAN}
    \cup {<<D(3), IfElse(<<E(4), x>>, <<y>>), Act(14)>> :
            x \in Exits, y \in Exits \cup {Act(13)}}
OneLoop == {<<D(1), E(2), lp, Act(15)>> :
              lp \in UNION {{While(0, 16, b), For(0, 17, b)} : b \in InLoop}}

(* Two loops, left and continued from the inner one. *)
TwoLoops ==
    {<<E(1), While(0, 16, <<D(2), While(1, 0, <<D(3), If(<<x>>), E(4), y>>), Act(14)>>)>> :
       x, y \in Inner}

(* No loop: blocks, deferred blocks with a condition, the limits. *)
Straight ==
    {<<E(1), D(2), Block(<<D(3), x>>), Act(15), y>> :
       x \in {Return(11, "any"), Return(11, "ok"), Try(12), Act(13)},
       y \in {Return(11, "err"), Return(0, "ok"), Act(13)}}
    \cup {<<Defer(1, <<D(2), If(<<Act(3)>>), Act(4)>>), ErrDefer(5, <<Act(5), D(6)>>), x, Act(14)>> :
            x \in {If(<<Return(11, "any")>>), Try(12), Return(0, "err")}}
    \cup {<<D(1), D(2), E(3), D(4), Act(11)>>, <<D(1), E(2), D(3), Try(12)>>, <<D(1), While(2, 0, <<Break(2)>>)>>,
          <<D(1), If(<<D(2), Return(0, "err")>>)>>}

(* A loop or a try in a deferred statement, emitted at no, one or several  *)
(* ways out.                                                               *)
DeepBlocks ==
    {<<Act(2), Try(3)>>, <<If(<<Try(3)>>), Act(2)>>, <<D(4), While(0, 5, <<Act(2)>>)>>,
     <<For(0, 5, <<D(4), Act(2)>>)>>, <<Defer(4, <<Act(4), Try(3)>>), Act(2)>>,
     <<While(0, 0, <<Try(3)>>)>>}
Deeper ==
    {<<D(1), df, E(9), Block(<<x>>), y>> :
       df \in UNION {{Defer(2, b), ErrDefer(2, b)} : b \in DeepBlocks},
       x \in {Act(13), If(<<Return(11, "any")>>), Unreachable},
       y \in {Act(14), Return(12, "err"), Return(0, "ok"), Unreachable}}

MCFunctions == OneLoop \cup TwoLoops \cup Straight \cup Deeper

(* Their statements, at any depth. *)
RECURSIVE All(_)
All(s) == {s} \cup UNION {All(t) : t \in Kids(s)}
MCStatements ==
    UNION {All(s) : s \in {If(<<Return(0, "err")>>)} \cup UNION {Range(f) : f \in MCFunctions}}
=============================================================================
