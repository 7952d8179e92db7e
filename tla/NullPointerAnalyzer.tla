------------------------ MODULE NullPointerAnalyzer -------------------------
(***************************************************************************)
(* src/bootstrap/null_pointer_analyzer.cpp: the null states of pointer     *)
(* variables along a function body, refined by comparisons with null and   *)
(* merged after branches and loops; every dereference is judged by them.   *)
(*                                                                         *)
(* A scope (StateMap) is a copy of the whole state of the scope it was     *)
(* opened in, with the names set since then.  vars is searched from its    *)
(* end.  modified is a set: its order decides nothing.  The recursion of   *)
(* visit is the list todo; an "end" entry is what a visitor does after its *)
(* body, with the branch states it holds in local variables.               *)
(***************************************************************************)
EXTENDS FnBodies, SequencesExt, FiniteSetsExt

CONSTANTS
    Params,     \* the function's parameters
    Pointers    \* names of pointer type

VARIABLES todo, reports, scopes_

vars == <<todo, reports, scopes_>>

PointerStates == {"UNINIT", "IS_NULL", "SAFE", "MAYBE"}
-----------------------------------------------------------------------------
(* StateMap. *)
EmptyMap == [vars |-> <<>>, modified |-> {}]
hasVariable(m, x) == \E i \in DOMAIN m.vars : m.vars[i].name = x
LastIndex(m, x) == Max({i \in DOMAIN m.vars : m.vars[i].name = x})
getState(m, x) == IF hasVariable(m, x) THEN m.vars[LastIndex(m, x)].state ELSE "MAYBE"
addVariable(m, x, s) == [m EXCEPT !.vars = Append(@, [name |-> x, state |-> s])]
setState(m, x, s) ==
    IF hasVariable(m, x)
      THEN [m EXCEPT !.vars[LastIndex(m, x)].state = s, !.modified = @ \cup {x}]
      ELSE addVariable(m, x, s)
ForkOf(m) == [m EXCEPT !.modified = {}]     \* pushScope(true)

(* Mutant: the branch decides. *)
mergeStatesLast(s1, s2) == s2

mergeStates(s1, s2) == IF s1 = s2 THEN s1 ELSE "MAYBE"

(* setState(x, f(x)) for every name of xs. *)
SetAll(m, xs, f(_)) ==
    LET known == {x \in xs : hasVariable(m, x)}
        set(i) == m.vars[i].name \in known /\ i = LastIndex(m, m.vars[i].name)
    IN  [vars |-> [i \in DOMAIN m.vars |->
                     IF set(i) THEN [m.vars[i] EXCEPT !.state = f(m.vars[i].name)] ELSE m.vars[i]]
                  \o SetToSeq({[name |-> x, state |-> f(x)] : x \in xs \ known}),
         modified |-> m.modified \cup known]

(* The names a branch has set, merged into the state before it. *)
mergeScopes(target, branch) ==
    SetAll(target, {x \in branch.modified : hasVariable(target, x)},
           LAMBDA x : mergeStates(getState(target, x), getState(branch, x)))

(* Both branches of an if, over all the names known before it. *)
MergeBranches(entry, then, else) ==
    SetAll(entry, {entry.vars[i].name : i \in DOMAIN entry.vars},
           LAMBDA x : mergeStates(getState(then, x), getState(else, x)))
-----------------------------------------------------------------------------
Top == Last(scopes_)
Below == Front(scopes_)
(* scopes_ with its last state replaced. *)
SetTop(ss, m) == Append(Front(ss), m)
Goto(nodes) == todo' = nodes \o Tail(todo)
At(k) == todo # <<>> /\ Head(todo).k = k
End(k, n, m) == [k |-> k, of |-> n, kept |-> m]

getExpressionState(e) ==
    CASE e.k = "null" -> "IS_NULL"
      [] e.k = "addr" -> "SAFE"
      [] e.k = "id" -> getState(Top, e.x)
      [] OTHER -> "MAYBE"

(* What visiting an expression reports: its dereferences, inside out.      *)
(* Casts and slices are not looked into.                                   *)
visitExpr[e \in Nodes] ==
    CASE e.k = "deref" ->
           visitExpr[e.e] \cup
             (LET s == getExpressionState(e.e)
              IN  IF s = "SAFE" THEN {} ELSE {Report(s, "", e.at)})
      [] e.k \in {"field", "addr"} -> visitExpr[e.e]
      [] OTHER -> {}

Reports(e) == reports' = reports \cup visitExpr[e]
-----------------------------------------------------------------------------
visitFnDecl ==
    /\ At("fn")
    /\ LET params == SetToSeq(Params)
           added == [i \in DOMAIN params |-> [name |-> params[i], state |-> "MAYBE"]]
       IN  scopes_' = Append(scopes_, [ForkOf(Top) EXCEPT !.vars = @ \o added])
    /\ Goto(<<Head(todo).body, End("endfn", None, EmptyMap)>>)
    /\ UNCHANGED reports

EndFn == At("endfn") /\ scopes_' = Below /\ Goto(<<>>) /\ UNCHANGED reports

visitBlock ==
    /\ At("block")
    /\ scopes_' = Append(scopes_, ForkOf(Top))
    /\ Goto(Head(todo).ss \o <<End("endblock", None, EmptyMap)>>)
    /\ UNCHANGED reports

(* A scope is left: its changes are merged into the scope around it. *)
Leave(ss) == scopes_' = LET outer == Front(ss)
                        IN  SetTop(outer, mergeScopes(Last(outer), Last(ss)))

EndBlock == At("endblock") /\ Leave(scopes_) /\ Goto(<<>>) /\ UNCHANGED reports

visitVarDecl ==
    /\ At("decl")
    /\ LET n == Head(todo)
           s == IF n.e = None THEN "UNINIT" ELSE getExpressionState(n.e)
       IN  /\ Reports(n.e)
           /\ scopes_' = IF n.x \in Pointers THEN SetTop(scopes_, addVariable(Top, n.x, s))
                         ELSE scopes_
    /\ Goto(<<>>)

(* The target is visited after its state is set. *)
visitAssignment ==
    /\ At("assign")
    /\ LET n == Head(todo)
       IN  /\ scopes_' = IF n.lv.k = "id" /\ n.lv.x \in Pointers
                           THEN SetTop(scopes_, setState(Top, n.lv.x, getExpressionState(n.e)))
                           ELSE scopes_
           /\ reports' = reports \cup visitExpr[n.e] \cup visitExpr[n.lv]
    /\ Goto(<<>>)

visitCompoundAssignment ==
    /\ At("compound")
    /\ scopes_' = IF Head(todo).x \in Pointers
                    THEN SetTop(scopes_, setState(Top, Head(todo).x, "MAYBE"))
                    ELSE scopes_
    /\ Goto(<<>>)
    /\ UNCHANGED reports

(* The state a branch starts with: refined when the condition compares a   *)
(* variable with null (isNullComparison), with its capture.                *)
Branch(m, n, isNull) ==
    IF n.cond.k # "cmp" THEN ForkOf(m)
    ELSE setState(ForkOf(m), n.cond.x, IF isNull THEN "IS_NULL" ELSE "SAFE")
Captured(m, n) == IF n.cond.k = "cmp" /\ n.cap # "" THEN addVariable(m, n.cap, "SAFE") ELSE m
IsEqual(n) == n.cond.k = "cmp" /\ n.cond.isEqual

(* The working copy of the state, and on it the branch. *)
visitIfStmt ==
    /\ At("if")
    /\ LET n == Head(todo)
       IN  /\ scopes_' = scopes_ \o <<ForkOf(Top), Captured(Branch(Top, n, IsEqual(n)), n)>>
           /\ Goto(<<n.then, End("endthen", n, EmptyMap)>>)
    /\ UNCHANGED reports

(* Without an else the compared variable gets back the state it had.       *)
AfterThen(entry, n, then) ==
    LET merged == mergeScopes(entry, then)
    IN  IF n.cond.k = "cmp" THEN setState(merged, n.cond.x, getState(entry, n.cond.x))
        ELSE merged

EndThen ==
    /\ At("endthen")
    /\ LET n == Head(todo).of
           entry == Last(Below)
       IN  IF n.else # None
             THEN /\ scopes_' = Append(Below, Branch(entry, n, ~IsEqual(n)))
                  /\ Goto(<<n.else, End("endelse", n, Top)>>)
             ELSE /\ Leave(SetTop(Below, AfterThen(entry, n, Top)))
                  /\ Goto(<<>>)
    /\ UNCHANGED reports

EndElse ==
    /\ At("endelse")
    /\ Leave(SetTop(Below, MergeBranches(Last(Below), Head(todo).kept, Top)))
    /\ Goto(<<>>)
    /\ UNCHANGED reports

(* Only x != null refines a loop's body. *)
visitWhileStmt ==
    /\ At("while")
    /\ LET n == Head(todo)
           body == IF IsEqual(n) THEN ForkOf(Top) ELSE Branch(Top, n, FALSE)
       IN  /\ scopes_' = scopes_ \o <<ForkOf(Top), body>>
           /\ Goto(<<n.body, End("endwhile", n, EmptyMap)>>)
    /\ UNCHANGED reports

(* What the body has set is unknown after the loop. *)
AfterLoop(m, loop) == SetAll(m, loop.modified, LAMBDA x : "MAYBE")

EndWhile ==
    /\ At("endwhile")
    /\ Leave(SetTop(Below, AfterLoop(Last(Below), Top)))
    /\ Goto(<<>>)
    /\ UNCHANGED reports

visitForStmt ==
    /\ At("for")
    /\ LET n == Head(todo)
       IN  /\ scopes_' = Append(scopes_, addVariable(ForkOf(Top), n.item, "MAYBE"))
           /\ Goto(<<n.body, End("endfor", n, EmptyMap)>>)
    /\ UNCHANGED reports

(* No working copy: the scope the loop stands in is changed. *)
EndFor ==
    /\ At("endfor")
    /\ scopes_' = SetTop(Below, AfterLoop(Last(Below), Top))
    /\ Goto(<<>>)
    /\ UNCHANGED reports

(* return, calls and expression statements: their expressions are visited. *)
visitExpressions ==
    /\ At("return") \/ At("use")
    /\ Reports(Head(todo).e)
    /\ Goto(<<>>)
    /\ UNCHANGED scopes_

(* The default case: switch, defer and errdefer are not visited at all.    *)
visitOther ==
    /\ todo # <<>>
    /\ Head(todo).k \in {"none", "switch", "defer", "errdefer", "free", "transfer"}
    /\ Goto(<<>>)
    /\ UNCHANGED <<reports, scopes_>>

Next ==
    \/ visitFnDecl \/ EndFn \/ visitBlock \/ EndBlock \/ visitVarDecl
    \/ visitAssignment \/ visitCompoundAssignment \/ visitIfStmt \/ EndThen
    \/ EndElse \/ visitWhileStmt \/ EndWhile \/ visitForStmt \/ EndFor
    \/ visitExpressions \/ visitOther
=============================================================================
