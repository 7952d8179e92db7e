------------------------- MODULE ControlFlowLifter --------------------------
(***************************************************************************)
(* src/bootstrap/ast_lifter.cpp: the pass that replaces try, catch,        *)
(* orelse, if and switch expressions, aggregate literals and optional      *)
(* pointers of extern calls by temporaries, assigned in statements that    *)
(* are inserted before the statement the expression stands in.             *)
(*                                                                         *)
(* An expression has a kind k, the operands kids that are transformed      *)
(* before it, and the branches alts that are transformed in the blocks     *)
(* they become.  A variable is a number; the temporaries are numbered from *)
(* 1 (the counter in their names).  Every expression has a value: the      *)
(* temporary of a void one is never read; only of if and switch            *)
(* expressions it matters that they are void.                              *)
(*                                                                         *)
(* Transforming a node gives the node that takes its place, the statements *)
(* pre that go before the current statement, those that are appended to    *)
(* the current block because the current statement is not in it, and the   *)
(* counter.                                                                *)
(***************************************************************************)
EXTENDS Integers, Sequences, SequencesExt

(* Expressions. *)
Node(k, kids, alts) == [k |-> k, kids |-> kids, alts |-> alts, n |-> 0, void |-> FALSE]
Call(n, kids) == [Node("call", kids, <<>>) EXCEPT !.n = n]
(* A call that gives an error union or an optional. *)
Fallible(n, kids) == [Node("fallible", kids, <<>>) EXCEPT !.n = n]
(* An extern function of an optional pointer that gives an optional pointer. *)
Extern(n, kids) == [Node("extern", kids, <<>>) EXCEPT !.n = n]
Var(x) == [Node("var", <<>>, <<>>) EXCEPT !.n = x]
Literal == Node("literal", <<>>, <<>>)
Binary(a, b) == Node("binary", <<a, b>>, <<>>)
And(a, b) == Node("and", <<a, b>>, <<>>)
Paren(e) == [Node("paren", <<e>>, <<>>) EXCEPT !.void = e.void]
Aggregate(kids) == Node("aggregate", kids, <<>>)
Try(e) == Node("try", <<e>>, <<>>)
Catch(e, alt) == Node("catch", <<e>>, <<alt>>)
Orelse(e, alt) == Node("orelse", <<e>>, <<alt>>)
IfExpr(c, a, b) == Node("if_expr", <<c>>, <<a, b>>)
SwitchExpr(c, a, b) == Node("switch_expr", <<c>>, <<a, b>>)
(* An if or switch expression of type void. *)
Void(e) == [e EXCEPT !.void = TRUE]
(* Members of the temporary x: is_error, has_value, the payload; an        *)
(* optional or error union made from x.                                    *)
Failed(x) == [Node("failed", <<>>, <<>>) EXCEPT !.n = x]
Payload(x) == [Node("payload", <<>>, <<>>) EXCEPT !.n = x]

(* Statements. *)
None == [k |-> "none"]
Block(ss) == [k |-> "block", ss |-> ss]
ExprStmt(e) == [k |-> "expr", e |-> e]
Decl(x, e) == [k |-> "decl", x |-> x, e |-> e]      \* Literal: zeroed, None: not
Assign(x, e) == [k |-> "assign", x |-> x, e |-> e]
If(c, a, b) == [k |-> "if", e |-> c, then |-> a, else |-> b]
While(c, iter, b) == [k |-> "while", e |-> c, iter |-> iter, body |-> b]
For(e, b) == [k |-> "for", e |-> e, body |-> b]
Switch(e, a, b) == [k |-> "switch", e |-> e, then |-> a, else |-> b]
Return(e) == [k |-> "return", e |-> e]
(* return of an optional pointer from an exported function *)
ExportReturn(e) == [k |-> "export_return", e |-> e]
Break == [k |-> "break"]
Defer(s) == [k |-> "defer", body |-> s]

StmtKinds == {"none", "block", "expr", "decl", "assign", "if", "while", "for", "switch",
              "return", "export_return", "break", "defer"}
IsStmt(n) == n.k \in StmtKinds
-----------------------------------------------------------------------------
ControlFlow == {"try", "catch", "orelse", "if_expr", "switch_expr"}
(* Where a node stands: its parent, and the closest node on parent_stack_  *)
(* that is no parenthesis.                                                 *)
Under(k) == [parent |-> k, stacked |-> k]
skipParens(at) == IF at.parent = "paren" THEN at.stacked ELSE at.parent

needsLifting(e, at) ==
    \/ e.k \in {"try", "catch", "orelse"}
    \/ e.k \in {"if_expr", "switch_expr"} /\ ~e.void
    \/ /\ e.k = "aggregate" /\ at.parent # "decl"
       /\ skipParens(at) \notin {"return", "assign", "aggregate"}

(* Where the operands of e stand: control flow that is lifted is not       *)
(* pushed on parent_stack_, and what stands in parentheses below it sees   *)
(* what is around it.                                                      *)
Inside(e, at) ==
    [parent |-> e.k,
     stacked |-> IF e.k = "paren" \/ (e.k \in ControlFlow /\ needsLifting(e, at)) THEN at.stacked ELSE e.k]
(* The operands that are transformed: none of a switch that is not lifted. *)
Visited(e, at) == IF e.k = "switch_expr" /\ ~needsLifting(e, at) THEN <<>> ELSE e.kids

wrapInBlock(s) == IF s.k \in {"block", "none"} THEN s ELSE Block(<<s>>)

(* What a branch does with its value. *)
createYieldingStmt(alt, x) ==
    CASE alt.k \in {"return", "break"} -> alt
      [] alt.k = "expr" -> IF alt.e.void THEN alt ELSE Assign(x, alt.e)
      [] ~IsStmt(alt) -> IF alt.void THEN ExprStmt(alt) ELSE Assign(x, alt)
(* Mutant: only the last statement of a branch is kept. *)
BranchBlockLast(alt, x) ==
    Block(<<createYieldingStmt(IF alt.k = "block" THEN Last(alt.ss) ELSE alt, x)>>)

(* A branch as a block: the last statement of one yields. *)
BranchBlock(alt, x) ==
    IF alt.k = "block"
      THEN Block(Append(Front(alt.ss), createYieldingStmt(Last(alt.ss), x)))
      ELSE Block(<<createYieldingStmt(alt, x)>>)

Lifted(e, pre, n) == [e |-> e, pre |-> pre, n |-> n]
Done(s, pre, app, n) == [s |-> s, pre |-> pre, app |-> app, n |-> n]

(* res = operand; the branch of a failure; the payload otherwise. *)
lowerCatchExpr(e, x, res, block) ==
    <<Decl(res, e.kids[1]), If(Failed(res), block, Block(<<Assign(x, Payload(res))>>))>>
(* In return try e the temporary becomes the function's result.            *)
lowerTryExpr(e, x, res, at) ==
    IF skipParens(at) = "return"
      THEN <<Decl(res, e.kids[1]),
             If(Failed(res), Block(<<Assign(x, Var(res))>>), Block(<<Assign(x, Payload(res))>>))>>
      ELSE <<Decl(res, e.kids[1]), If(Failed(res), Block(<<Return(Var(res))>>), None),
             Assign(x, Payload(res))>>

RECURSIVE transformNode(_, _, _), transformKids(_, _, _), transformStmt(_, _), transformBlock(_, _)

(* The operands in their order. *)
transformKids(kids, at, n) ==
    IF kids = <<>> THEN [kids |-> <<>>, pre |-> <<>>, n |-> n]
    ELSE LET first == transformNode(Head(kids), at, n)
             rest == transformKids(Tail(kids), at, first.n)
         IN  [kids |-> <<first.e>> \o rest.kids, pre |-> first.pre \o rest.pre, n |-> rest.n]

(* A lifted e gets the temporary n + 1, its operand's value n + 2. *)
liftNode(e, at, n) ==
    LET x == n + 1
        res == n + 2
        one == transformStmt(BranchBlock(e.alts[1], x), IF e.k \in {"if_expr", "switch_expr"} THEN x ELSE res)
        two == transformStmt(BranchBlock(e.alts[2], x), one.n)
    IN  CASE e.k = "aggregate" -> Lifted(Var(x), <<Decl(x, e)>>, x)
          [] e.k = "try" -> Lifted(Var(x), <<Decl(x, None)>> \o lowerTryExpr(e, x, res, at), res)
          [] e.k = "catch" -> Lifted(Var(x), <<Decl(x, Literal)>> \o lowerCatchExpr(e, x, res, one.s), one.n)
          [] e.k = "orelse" -> Lifted(Var(x), <<Decl(x, None)>> \o lowerCatchExpr(e, x, res, one.s), one.n)
          [] e.k = "if_expr" -> Lifted(Var(x), <<Decl(x, None), If(e.kids[1], one.s, two.s)>>, two.n)
          [] e.k = "switch_expr" -> Lifted(Var(x), <<Decl(x, None), Switch(e.kids[1], one.s, two.s)>>, two.n)

(* Every argument goes through two temporaries, the optional and the raw   *)
(* pointer, and so does the result.  (In the condition of an else if,      *)
(* where the statement has no place in the block, nothing is done.)        *)
lowerExternCall(e, n) ==
    LET count == Len(e.kids)
        opt(i) == n + 2 * i - 1
        raw(i) == n + 2 * i
        call == [e EXCEPT !.kids = [i \in 1..count |-> Var(raw(i))]]
        res == n + 2 * count + 1
    IN  Lifted(Var(res + 1),
               FlattenSeq([i \in 1..count |-> <<Decl(opt(i), e.kids[i]), Decl(raw(i), Var(opt(i)))>>])
                 \o <<Decl(res, call), Decl(res + 1, Var(res))>>,
               res + 1)

lowerExportReturn(e, pre, n) ==
    [s |-> Return(Var(n + 2)), pre |-> pre \o <<Decl(n + 1, e), Decl(n + 2, Var(n + 1))>>,
     app |-> <<>>, n |-> n + 2]

(* Mutant: an operand is lifted after the expression it belongs to. *)
transformOutsideIn(e, at, n) ==
    LET outer == IF needsLifting(e, at) THEN liftNode(e, at, n) ELSE Lifted(e, <<>>, n)
        r == transformKids(e.kids, Inside(e, at), outer.n)
    IN  IF needsLifting(e, at)
          THEN LET again == liftNode([e EXCEPT !.kids = r.kids], at, n)
               IN  Lifted(again.e, again.pre \o r.pre, r.n)
          ELSE Lifted([e EXCEPT !.kids = r.kids], r.pre, r.n)

(* The operands, then the node; the branches when it is lifted, and only   *)
(* then.                                                                   *)
transformNode(e, at, n) ==
    LET r == transformKids(Visited(e, at), Inside(e, at), n)
        now == IF Visited(e, at) = <<>> THEN e ELSE [e EXCEPT !.kids = r.kids]
        lift == IF needsLifting(e, at) THEN liftNode(now, at, r.n)
                ELSE IF e.k = "extern" THEN lowerExternCall(now, r.n)
                ELSE Lifted(now, <<>>, r.n)
    IN  Lifted(lift.e, r.pre \o lift.pre, lift.n)

(* The statements of a block after theirs were transformed: each with what *)
(* goes before it; at the end what found no statement to go before.        *)
BlockOf(rs) ==
    Block(FlattenSeq([i \in DOMAIN rs |-> Append(rs[i].pre, rs[i].s)])
            \o FlattenSeq(Reverse([i \in DOMAIN rs |-> rs[i].app])))

(* The last statement first. *)
transformBlock(ss, n) ==
    IF ss = <<>> THEN <<>>
    ELSE LET last == transformStmt(Last(ss), n)
         IN  Append(transformBlock(Front(ss), last.n), last)
CounterAfter(rs, n) == IF rs = <<>> THEN n ELSE Head(rs).n

transformStmt(s, n) ==
    CASE s.k \in {"none", "break"} -> Done(s, <<>>, <<>>, n)
      [] s.k = "block" -> LET rs == transformBlock(s.ss, n)
                          IN  Done(BlockOf(rs), <<>>, <<>>, CounterAfter(rs, n))
      [] s.k \in {"expr", "decl", "assign", "return"} ->
           IF s.e.k = "none" THEN Done(s, <<>>, <<>>, n)
           ELSE LET r == transformNode(s.e, Under(s.k), n) IN Done([s EXCEPT !.e = r.e], r.pre, <<>>, r.n)
      [] s.k = "export_return" ->
           LET r == transformNode(s.e, Under("return"), n) IN lowerExportReturn(r.e, r.pre, r.n)
      [] s.k \in {"if", "switch"} ->
           LET c == transformNode(s.e, Under(s.k), n)
               t == transformStmt(wrapInBlock(s.then), c.n)
               \* else if: its condition's statements find no place in the block
               f == transformStmt(IF s.k = "if" /\ s.else.k = "if" THEN s.else ELSE wrapInBlock(s.else), t.n)
           IN  Done([s EXCEPT !.e = c.e, !.then = t.s, !.else = f.s], c.pre, f.pre \o f.app, f.n)
      [] s.k = "while" ->
           LET c == transformNode(s.e, Under(s.k), n)
               b == transformStmt(wrapInBlock(s.body), c.n)
               i == IF s.iter = None THEN Lifted(None, <<>>, b.n) ELSE transformNode(s.iter, Under(s.k), b.n)
           IN  Done([s EXCEPT !.e = c.e, !.body = b.s, !.iter = i.e], c.pre \o i.pre, <<>>, i.n)
      [] s.k = "for" ->
           LET c == transformNode(s.e, Under(s.k), n)
               b == transformStmt(wrapInBlock(s.body), c.n)
           IN  Done([s EXCEPT !.e = c.e, !.body = b.s], c.pre, <<>>, b.n)
      [] s.k = "defer" ->
           LET b == transformStmt(wrapInBlock(s.body), n)
           IN  Done([s EXCEPT !.body = b.s], <<>>, <<>>, b.n)

(* The body of a function. *)
lift(body) == transformStmt(body, 0).s
=============================================================================
