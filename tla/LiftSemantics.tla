--------------------------- MODULE LiftSemantics ----------------------------
(***************************************************************************)
(* What a body does before and after lifting.  Calls are the only effects: *)
(* the trace lists them, and an oracle decides what the i-th call of n     *)
(* gives: a value or a failure, true or false.                             *)
(*                                                                         *)
(* A machine m holds the variables, the trace, how control is leaving      *)
(* ("next": it is not) and the value v of the last expression, which tells *)
(* where it comes from.                                                    *)
(***************************************************************************)
EXTENDS ControlFlowLifter, FiniteSets

CONSTANTS
    Programs, Calls,
    MaxCalls,       \* bound: later calls of the same function fail
    MaxRounds       \* bound: rounds of a loop

VARIABLES body, lifted, phase
vars == <<body, lifted, phase>>

Oracles == [Calls -> [1..MaxCalls -> BOOLEAN]]
Value(b, fallible, of) == [b |-> b, fallible |-> fallible, of |-> of]
Garbage == Value(TRUE, FALSE, <<"garbage">>)
Start(o) == [o |-> o, env |-> [x \in {} |-> Garbage], trace |-> <<>>, how |-> "next",
             v |-> Garbage, defers |-> <<>>]

Get(m, x) == IF x \in DOMAIN m.env THEN m.env[x] ELSE Garbage
Set(m, x, v) == [m EXCEPT !.env = [y \in DOMAIN @ \cup {x} |-> IF y = x THEN v ELSE @[y]]]
Times(m, n) == Len(SelectSeq(m.trace, LAMBDA e : e.n = n))
(* The call n with arguments args. *)
Called(m, n, args, fallible) ==
    LET i == Times(m, n) + 1
    IN  [m EXCEPT !.trace = Append(@, [n |-> n, args |-> args]),
                  !.v = Value(i <= MaxCalls /\ m.o[n][i], fallible, <<n, i>>)]
PayloadOf(v) == Value(TRUE, FALSE, v.of)
Returned(m, v) == [m EXCEPT !.how = "return", !.v = IF v.fallible /\ v.b THEN PayloadOf(v) ELSE v]

RECURSIVE Eval(_, _), EvalKids(_, _, _), Exec(_, _), ExecSeq(_, _), ExecDefers(_, _), Loop(_, _, _)

(* Operands from left to right; out collects their values. *)
EvalKids(kids, out, m) ==
    IF kids = <<>> \/ m.how # "next" THEN [m |-> m, vs |-> out]
    ELSE LET r == Eval(Head(kids), m) IN EvalKids(Tail(kids), Append(out, r.v), r)

(* A branch is an expression, a statement that leaves, or a block whose    *)
(* last statement gives the value.                                         *)
Branch(alt, m) == IF IsStmt(alt) THEN Exec(alt, m) ELSE Eval(alt, m)

Eval(e, m) ==
    LET r == EvalKids(e.kids, <<>>, m)
        v == r.m.v
        ofs == [i \in DOMAIN r.vs |-> r.vs[i].of]
    IN  CASE e.k = "var" -> [m EXCEPT !.v = Get(m, e.n)]
          [] e.k = "literal" -> [m EXCEPT !.v = Value(FALSE, FALSE, <<>>)]
          [] e.k = "failed" -> [m EXCEPT !.v = Value(~Get(m, e.n).b, FALSE, <<>>)]
          [] e.k = "payload" -> [m EXCEPT !.v = PayloadOf(Get(m, e.n))]
          [] e.k = "and" -> LET left == Eval(e.kids[1], m)
                            IN  IF left.how # "next" \/ ~left.v.b THEN left ELSE Eval(e.kids[2], left)
          [] e.k \in {"call", "fallible", "extern", "binary", "aggregate", "paren", "try", "catch",
                      "orelse", "if_expr", "switch_expr"} ->
               IF r.m.how # "next" THEN r.m
               ELSE CASE e.k = "call" -> Called(r.m, e.n, ofs, FALSE)
                      [] e.k \in {"fallible", "extern"} -> Called(r.m, e.n, ofs, TRUE)
                      [] e.k = "paren" -> r.m
                      [] e.k \in {"binary", "aggregate"} ->
                           [r.m EXCEPT !.v = Value(r.vs[1].b, FALSE, ofs)]
                      [] e.k = "try" -> IF v.b THEN [r.m EXCEPT !.v = PayloadOf(v)] ELSE Returned(r.m, v)
                      [] e.k \in {"catch", "orelse"} ->
                           IF v.b THEN [r.m EXCEPT !.v = PayloadOf(v)] ELSE Branch(e.alts[1], r.m)
                      [] e.k \in {"if_expr", "switch_expr"} ->
                           Branch(e.alts[IF v.b THEN 1 ELSE 2], r.m)

ExecSeq(ss, m) ==
    IF ss = <<>> \/ m.how # "next" THEN m ELSE ExecSeq(Tail(ss), Exec(Head(ss), m))

ExecDefers(ds, m) ==
    IF ds = <<>> THEN m
    ELSE LET r == Exec(Last(ds), [m EXCEPT !.how = "next"])
         IN  ExecDefers(Front(ds), [r EXCEPT !.how = m.how, !.v = m.v])

Loop(s, m, left) ==
    LET c == IF s.k = "for" THEN [m EXCEPT !.v = Value(TRUE, FALSE, <<>>)] ELSE Eval(s.e, m)
        b == Exec(s.body, c)
        i == IF s.k = "for" \/ s.iter = None THEN b ELSE Eval(s.iter, b)
    IN  IF c.how # "next" \/ ~c.v.b THEN c
        ELSE IF left = 0 THEN [c EXCEPT !.how = IF s.k = "for" THEN "next" ELSE "cut"]
        ELSE IF b.how = "break" THEN [b EXCEPT !.how = "next"]
        ELSE IF b.how # "next" THEN b
        ELSE IF i.how # "next" THEN i ELSE Loop(s, i, left - 1)

Exec(s, m) ==
    CASE s.k = "none" -> m
      [] s.k = "expr" -> Eval(s.e, m)
      [] s.k \in {"decl", "assign"} ->
           IF s.e = None THEN Set(m, s.x, Garbage)
           ELSE LET r == Eval(s.e, m) IN IF r.how = "next" THEN Set(r, s.x, r.v) ELSE r
      [] s.k = "block" ->
           LET r == ExecSeq(s.ss, [m EXCEPT !.defers = <<>>])
           IN  [ExecDefers(r.defers, r) EXCEPT !.defers = m.defers]
      [] s.k \in {"if", "switch"} ->
           LET r == Eval(s.e, m)
           IN  IF r.how # "next" THEN r ELSE IF r.v.b THEN Exec(s.then, r) ELSE Exec(s.else, r)
      [] s.k = "while" -> Loop(s, m, MaxRounds)
      [] s.k = "for" -> LET r == Eval(s.e, m)
                        IN  IF r.how = "next" THEN Loop(s, r, MaxRounds) ELSE r
      [] s.k \in {"return", "export_return"} ->
           LET r == Eval(s.e, m) IN IF r.how = "next" THEN Returned(r, r.v) ELSE r
      [] s.k = "break" -> [m EXCEPT !.how = "break"]
      [] s.k = "defer" -> [m EXCEPT !.defers = Append(@, s.body)]

(* What can be observed of a run. *)
Outcome(s, o) == LET m == Exec(s, Start(o))
                 IN  [trace |-> m.trace, how |-> m.how, v |-> IF m.how = "return" THEN m.v ELSE Garbage]
-----------------------------------------------------------------------------
Init == body \in Programs /\ lifted = None /\ phase = "checked"

Lift == /\ phase = "checked"
        /\ phase' = "lifted"
        /\ lifted' = lift(body)
        /\ UNCHANGED body

Finished == phase = "lifted" /\ UNCHANGED vars

Next == Lift \/ Finished
Spec == Init /\ [][Next]_vars
-----------------------------------------------------------------------------
(* A node and all that is in it. *)
Children(n) ==
    CASE n.k = "none" \/ n.k = "break" -> <<>>
      [] n.k = "block" -> n.ss
      [] n.k \in {"expr", "decl", "assign", "return", "export_return"} -> <<n.e>>
      [] n.k \in {"if", "switch"} -> <<n.e, n.then, n.else>>
      [] n.k = "while" -> <<n.e, n.iter, n.body>>
      [] n.k = "for" -> <<n.e, n.body>>
      [] n.k = "defer" -> <<n.body>>
      [] OTHER -> n.kids \o n.alts
RECURSIVE All(_), CallsOf(_, _), CallsOfAll(_, _)
All(n) == {n} \cup UNION {All(c) : c \in Range(Children(n))}
(* How many calls of c are written in n. *)
CallsOf(n, c) == (IF n.k \in {"call", "fallible", "extern"} /\ n.n = c THEN 1 ELSE 0)
                   + CallsOfAll(Children(n), c)
CallsOfAll(ns, c) == IF ns = <<>> THEN 0 ELSE CallsOf(Head(ns), c) + CallsOfAll(Tail(ns), c)

(* Lifting moves something out of n. *)
Moved(n, at) == needsLifting(n, at) \/ n.k = "extern"
RECURSIVE Moves(_, _), Stays(_, _), OrderKept(_, _), ParentsSeen(_, _, _)
Moves(e, at) ==
    \/ Moved(e, at)
    \/ \E i \in DOMAIN e.kids : Moves(e.kids[i], Inside(e, at))
(* A call of e stays where it is. *)
Stays(e, at) ==
    /\ ~Moved(e, at)
    /\ \/ e.k \in {"call", "fallible"}
       \/ \E i \in DOMAIN e.kids : Stays(e.kids[i], Inside(e, at))
(* Nothing is moved out over a call on its left, nor out of the right side *)
(* of an and.                                                              *)
OrderKept(e, at) ==
    /\ \A i, j \in DOMAIN e.kids :
         i < j /\ Moves(e.kids[j], Inside(e, at)) => e.k # "and" /\ ~Stays(e.kids[i], Inside(e, at))
    /\ \A i \in DOMAIN e.kids : OrderKept(e.kids[i], Inside(e, at))
(* A try is taken for the value of a return only where it is; parent is    *)
(* what really is around e.                                                *)
ParentsSeen(e, parent, at) ==
    /\ e.k = "try" => (skipParens(at) = "return") = (parent = "return")
    /\ \A i \in DOMAIN e.kids : ParentsSeen(e.kids[i], IF e.k = "paren" THEN parent ELSE e.k, Inside(e, at))

Exprs(s) == {n \in All(s) : ~IsStmt(n)}
(* Statements from whose place nothing is moved wrongly. *)
Plain(s) ==
    /\ \A t \in All(s) :
         /\ IsStmt(t) /\ t.k \notin {"none", "block", "break", "defer"} /\ t.e.k # "none" =>
              OrderKept(t.e, Under(t.k)) /\ ParentsSeen(t.e, t.k, Under(t.k))
         /\ t.k = "while" => ~Moves(t.e, Under("while")) /\ (t.iter # None => ~Moves(t.iter, Under("while")))
         /\ t.k = "if" /\ t.else.k = "if" => ~Moves(t.else.e, Under("if"))
    /\ \A e \in Exprs(s) : \A i \in DOMAIN e.alts : ~IsStmt(e.alts[i]) => OrderKept(e.alts[i], Under("assign"))

(* No expression that C has no form for is left: of any other body the     *)
(* emitter reports ERR_UNSUPPORTED_FEATURE (emitControlFlow).              *)
Emittable(s) == \A e \in Exprs(s) : e.k \notin ControlFlow

(* Lifted code does what the source says, call by call: failures are taken *)
(* where they happen, branches run when they are chosen, every temporary   *)
(* is set before it is read; in bodies the emitter takes where nothing is  *)
(* moved out of a loop's condition, an else if, the right side of an and,  *)
(* or over a call on its left, and no try in parentheses, an operand of    *)
(* lifted control flow, is taken for the value of a return.  In those five *)
(* cases, and only there, some outcome of the calls tells the lifted code  *)
(* from the source (liftNode, skipParens, lowerTryExpr, lowerCatchExpr,    *)
(* lowerOrelseExpr, lowerIfExpr, lowerSwitchExpr, lowerExternCall).        *)
LiftedAsWritten ==
    phase = "lifted" /\ Emittable(lifted) =>
        (Plain(body) <=> \A o \in Oracles : Outcome(lifted, o) = Outcome(body, o))

(* Wherever an expression stands, lifting duplicates no call and loses     *)
(* none.  A void if or switch expression, which needsLifting passes over,  *)
(* stays, and the body is refused; of any other body no expression that C  *)
(* has no form for is left.                                                *)
CallsKeptOnce ==
    phase = "lifted" =>
        /\ Emittable(lifted) <=> \A e \in Exprs(body) : ~e.void
        /\ \A c \in Calls : CallsOf(lifted, c) = CallsOf(body, c)
=============================================================================
