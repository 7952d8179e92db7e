------------------------- MODULE DoubleFreeAnalyzer -------------------------
(***************************************************************************)
(* src/bootstrap/double_free_analyzer.cpp: the allocation states of        *)
(* pointer variables along a function body.  Deferred statements are kept  *)
(* on a stack and visited where they would run: at the end of their block  *)
(* and at every return.                                                    *)
(*                                                                         *)
(* A scope (AllocationStateMap) holds the states set in it; a lookup goes  *)
(* on to its parent, the scope below it on the stack.  The order of the    *)
(* entries and of modified decides nothing.  The recursion of visit is the *)
(* list todo; an "end" entry is what a visitor does after its body, with   *)
(* the branch states it holds in local variables.                          *)
(***************************************************************************)
EXTENDS FnBodies, SequencesExt, FiniteSetsExt

CONSTANTS
    Pointers,       \* names of pointer type
    BaseOf(_),      \* the variable before the dot of a composite name
    warn_arena_leaks

VARIABLES
    todo, reports,
    scopes_,                \* of the function being visited
    deferred_actions_,
    current_scope_depth_,
    in_error_path_

vars == <<todo, reports, scopes_, deferred_actions_, current_scope_depth_, in_error_path_>>
analyzer == <<deferred_actions_, current_scope_depth_, in_error_path_>>

AllocationStates == {"UNKNOWN", "UNINITIALIZED", "ALLOCATED", "FREED", "TRANSFERRED"}
TrackedPointer(s, d, arena) == [state |-> s, depth |-> d, returned |-> FALSE, is_arena |-> arena]
NotTracked == [state |-> "none"]
-----------------------------------------------------------------------------
(* AllocationStateMap, on a stack of scopes ss. *)
EmptyMap == [x \in {} |-> NotTracked]
hasVariable(ss, x) == \E i \in DOMAIN ss : x \in DOMAIN ss[i]
getState(ss, x) ==
    IF hasVariable(ss, x) THEN ss[Max({i \in DOMAIN ss : x \in DOMAIN ss[i]})][x] ELSE NotTracked
setState(ss, x, tp) ==
    [ss EXCEPT ![Len(ss)] = [y \in DOMAIN @ \cup {x} |-> IF y = x THEN tp ELSE @[y]]]
Push(ss) == Append(ss, EmptyMap)            \* pushScope
modified(m) == DOMAIN m

(* The states f gives to the names of xs, set in the last scope. *)
SetAll(ss, xs, f(_)) ==
    [ss EXCEPT ![Len(ss)] = [y \in DOMAIN @ \cup xs |-> IF y \in xs THEN f(y) ELSE @[y]]]

(* Mutant: freed in one branch is freed. *)
mergeTrackedFreed(a, b) == IF "FREED" \in {a.state, b.state} THEN [a EXCEPT !.state = "FREED"] ELSE a

mergeTrackedPointers(a, b) ==
    IF a.state = b.state THEN a ELSE [a EXCEPT !.state = "UNKNOWN"]

(* A scope is left for good: what it set goes to the scope around it. *)
mergeScopesLinear(ss) ==
    LET target == Front(ss)
    IN  SetAll(target, {x \in modified(Last(ss)) : hasVariable(target, x)},
               LAMBDA x : Last(ss)[x])

(* ss ends with the state before a branch and the branch. *)
mergeScopesAlternative(ss) ==
    LET target == Front(ss)
    IN  SetAll(target, {x \in modified(Last(ss)) : hasVariable(target, x)},
               LAMBDA x : mergeTrackedPointers(getState(target, x), Last(ss)[x]))

(* Several alternative branches of the state ss, merged in their order:    *)
(* once two differ, merging a third changes nothing.                       *)
mergeSwitchProngStates(ss, branches) ==
    LET of(i, x) == getState(Append(ss, branches[i]), x)
        merged(i, x) == mergeTrackedPointers(of(1, x), of(i, x))
        differ(x) == {i \in DOMAIN branches : merged(i, x) # of(1, x)}
        all(x) == IF differ(x) = {} THEN of(1, x) ELSE merged(CHOOSE i \in differ(x) : TRUE, x)
    IN  SetAll(ss, {x \in UNION {modified(branches[i]) : i \in DOMAIN branches} :
                        hasVariable(ss, x)}, all)
-----------------------------------------------------------------------------
findTrackedPointer(x) == getState(scopes_, x)
SetTracked(x, tp) == scopes_' = setState(scopes_, x, tp)
Below == Front(scopes_)
Goto(nodes) == todo' = nodes \o Tail(todo)
At(k) == todo # <<>> /\ Head(todo).k = k
End(k, n, kept) == [k |-> k, of |-> n, kept |-> kept]

Uncast[e \in Nodes] == IF e.k = "cast" THEN Uncast[e.e] ELSE e
isAllocationCall(e) == Uncast[e].k = "alloc"
isDirectArenaCall(e) == isAllocationCall(e) /\ Uncast[e].direct
extractVariableName(e) == IF Uncast[e].k \in {"id", "field"} THEN Uncast[e].x ELSE ""

LeakReported(tp) == ~tp.is_arena \/ warn_arena_leaks
(* reportLeak: a transferred pointer is the receiver's. *)
reportLeak(x, tp) ==
    IF LeakReported(tp) THEN {Report(IF tp.state = "TRANSFERRED" THEN "transferred" ELSE "leak", x, 0)}
    ELSE {}
-----------------------------------------------------------------------------
visitFnDecl ==
    /\ At("fn")
    /\ scopes_' = <<EmptyMap>>
    /\ deferred_actions_' = <<>>
    /\ current_scope_depth_' = 0
    /\ Goto(<<Head(todo).body, End("endfn", None, <<>>)>>)
    /\ UNCHANGED <<reports, in_error_path_>>

EndFn == At("endfn") /\ scopes_' = <<>> /\ Goto(<<>>) /\ UNCHANGED <<reports, analyzer>>

visitBlockStmt ==
    /\ At("block")
    /\ scopes_' = Push(scopes_)
    /\ current_scope_depth_' = current_scope_depth_ + 1
    /\ Goto(Head(todo).ss \o <<End("defers", None, current_scope_depth_ + 1),
                               End("endblock", None, <<>>)>>)
    /\ UNCHANGED <<reports, deferred_actions_, in_error_path_>>

(* Mutant: the deferred actions run in the order they were met. *)
executeDefersInOrder ==
    /\ At("defers")
    /\ LET limit == Head(todo).kept
           due == {i \in DOMAIN deferred_actions_ : deferred_actions_[i].depth >= limit}
           action == deferred_actions_[Min(due)]
       IN  IF due # {}
             THEN /\ deferred_actions_' = RemoveAt(deferred_actions_, Min(due))
                  /\ Goto(IF action.is_errdefer /\ ~in_error_path_ THEN <<Head(todo)>>
                          ELSE <<action.statement, Head(todo)>>)
             ELSE Goto(<<>>) /\ UNCHANGED deferred_actions_
    /\ UNCHANGED <<reports, scopes_, current_scope_depth_, in_error_path_>>

(* Mutant: the actions of the block itself are not due. *)
executeDefersAbove ==
    /\ At("defers")
    /\ LET more == deferred_actions_ # <<>> /\ Last(deferred_actions_).depth > Head(todo).kept
           action == Last(deferred_actions_)
       IN  IF more
             THEN /\ deferred_actions_' = Front(deferred_actions_)
                  /\ Goto(IF action.is_errdefer /\ ~in_error_path_ THEN <<Head(todo)>>
                          ELSE <<action.statement, Head(todo)>>)
             ELSE Goto(<<>>) /\ UNCHANGED deferred_actions_
    /\ UNCHANGED <<reports, scopes_, current_scope_depth_, in_error_path_>>

(* One round of executeDefers(limit): the action is taken off the stack    *)
(* even when it is an errdefer that does not run.                          *)
executeDefers ==
    /\ At("defers")
    /\ LET limit == Head(todo).kept
           more == deferred_actions_ # <<>> /\ Last(deferred_actions_).depth >= limit
           action == Last(deferred_actions_)
       IN  IF more
             THEN /\ deferred_actions_' = Front(deferred_actions_)
                  /\ Goto(IF action.is_errdefer /\ ~in_error_path_ THEN <<Head(todo)>>
                          ELSE <<action.statement, Head(todo)>>)
             ELSE Goto(<<>>) /\ UNCHANGED deferred_actions_
    /\ UNCHANGED <<reports, scopes_, current_scope_depth_, in_error_path_>>

(* Pointers declared in the block and still held are leaked. *)
EndBlock ==
    /\ At("endblock")
    /\ LET here == Last(scopes_)
           held == {x \in DOMAIN here : /\ here[x].depth = current_scope_depth_
                                        /\ ~here[x].returned
                                        /\ here[x].state \in {"ALLOCATED", "TRANSFERRED"}}
       IN  reports' = reports \cup UNION {reportLeak(x, here[x]) : x \in held}
    /\ scopes_' = mergeScopesLinear(scopes_)
    /\ current_scope_depth_' = current_scope_depth_ - 1
    /\ Goto(<<>>)
    /\ UNCHANGED <<deferred_actions_, in_error_path_>>

visitVarDecl ==
    /\ At("decl")
    /\ LET n == Head(todo)
           src == extractVariableName(n.e)
           from == findTrackedPointer(src)
           moved == from.state = "ALLOCATED"
           d == current_scope_depth_
           tp == IF n.e = None THEN TrackedPointer("UNINITIALIZED", d, FALSE)
                 ELSE IF isAllocationCall(n.e) THEN TrackedPointer("ALLOCATED", d, isDirectArenaCall(n.e))
                 ELSE IF moved THEN [from EXCEPT !.depth = d]
                 ELSE TrackedPointer("UNKNOWN", d, FALSE)
           gone == IF n.e # None /\ moved THEN setState(scopes_, src, [from EXCEPT !.state = "TRANSFERRED"])
                   ELSE scopes_
       IN  scopes_' = IF n.x \in Pointers THEN setState(gone, n.x, tp) ELSE scopes_
    /\ Goto(<<>>)
    /\ UNCHANGED <<reports, analyzer>>

(* A field or element is first tracked by its assignment, at the depth of  *)
(* its base if that is tracked.                                            *)
trackAllocation(x, e) ==
    LET base == findTrackedPointer(BaseOf(x))
    IN  TrackedPointer("ALLOCATED", IF base # NotTracked THEN base.depth ELSE current_scope_depth_,
                       isDirectArenaCall(e))

visitAssignment ==
    /\ At("assign")
    /\ LET n == Head(todo)
           x == extractVariableName(n.lv)
           tp == findTrackedPointer(x)
           src == extractVariableName(n.e)
           from == findTrackedPointer(src)
       IN  /\ reports' = reports \cup (IF tp.state = "ALLOCATED" THEN reportLeak(x, tp) ELSE {})
           /\ scopes_' =
                CASE x = "" -> scopes_
                  [] x # "" /\ isAllocationCall(n.e) ->
                       setState(scopes_, x,
                                IF tp = NotTracked THEN trackAllocation(x, n.e)
                                ELSE [tp EXCEPT !.state = "ALLOCATED", !.returned = FALSE,
                                                !.is_arena = isDirectArenaCall(n.e)])
                  [] x # "" /\ ~isAllocationCall(n.e) /\ tp # NotTracked ->
                       setState(scopes_, x, [tp EXCEPT !.state = "UNKNOWN"])
                  [] x # "" /\ ~isAllocationCall(n.e) /\ tp = NotTracked ->
                       IF from.state = "ALLOCATED"
                         THEN setState(setState(scopes_, x, from), src,
                                       [from EXCEPT !.state = "TRANSFERRED"])
                         ELSE scopes_
    /\ Goto(<<>>)
    /\ UNCHANGED analyzer

visitFree ==
    /\ At("free")
    /\ LET n == Head(todo)
           tp == findTrackedPointer(n.x)
       IN  /\ IF tp.state = "ALLOCATED" THEN SetTracked(n.x, [tp EXCEPT !.state = "FREED"])
              ELSE UNCHANGED scopes_
           /\ reports' = reports \cup
                CASE tp.state = "FREED" -> {Report("double", n.x, n.at)}
                  [] tp.state = "UNINITIALIZED" -> {Report("unallocated", n.x, n.at)}
                  [] OTHER -> {}
    /\ Goto(<<>>)
    /\ UNCHANGED analyzer

visitTransfer ==
    /\ At("transfer")
    /\ LET tp == findTrackedPointer(Head(todo).x)
       IN  IF tp.state \in {"ALLOCATED", "UNINITIALIZED"}
             THEN SetTracked(Head(todo).x, [tp EXCEPT !.state = "TRANSFERRED"])
             ELSE UNCHANGED scopes_
    /\ Goto(<<>>)
    /\ UNCHANGED <<reports, analyzer>>

visitDeferStmt ==
    /\ At("defer") \/ At("errdefer")
    /\ deferred_actions_' = Append(deferred_actions_,
           [statement |-> Head(todo).s, depth |-> current_scope_depth_,
            is_errdefer |-> Head(todo).k = "errdefer"])
    /\ Goto(<<>>)
    /\ UNCHANGED <<reports, scopes_, current_scope_depth_, in_error_path_>>

visitCompoundAssignment ==
    /\ At("compound")
    /\ LET x == Head(todo).x
           tp == findTrackedPointer(x)
       IN  IF tp.state = "ALLOCATED"
             THEN /\ reports' = reports \cup reportLeak(x, tp)
                  /\ SetTracked(x, [tp EXCEPT !.state = "UNKNOWN"])
             ELSE UNCHANGED <<reports, scopes_>>
    /\ Goto(<<>>)
    /\ UNCHANGED analyzer

(* A return runs every deferred action of the function. *)
visitReturnStmt ==
    /\ At("return")
    /\ in_error_path_' = Head(todo).err
    /\ Goto(<<End("defers", None, 1), End("endreturn", Head(todo), in_error_path_)>>)
    /\ UNCHANGED <<reports, scopes_, deferred_actions_, current_scope_depth_>>

EndReturn ==
    /\ At("endreturn")
    /\ LET x == extractVariableName(Head(todo).of.e)
           tp == findTrackedPointer(x)
       IN  IF tp.state = "ALLOCATED" THEN SetTracked(x, [tp EXCEPT !.returned = TRUE])
           ELSE UNCHANGED scopes_
    /\ in_error_path_' = Head(todo).kept
    /\ Goto(<<>>)
    /\ UNCHANGED <<reports, deferred_actions_, current_scope_depth_>>
-----------------------------------------------------------------------------
(* if and switch: the branches start from one state, each in a scope of    *)
(* its own.  kept holds the branch states so far.                          *)
Branches(n) == IF n.k = "switch" THEN n.prongs
               ELSE IF n.else = None THEN <<n.then>> ELSE <<n.then, n.else>>

visitBranching ==
    /\ At("if") \/ At("switch")
    /\ scopes_' = Push(Push(scopes_))
    /\ Goto(<<Branches(Head(todo))[1], End("endbranch", Head(todo), <<>>)>>)
    /\ UNCHANGED <<reports, analyzer>>

NextBranch ==
    /\ At("endbranch")
    /\ LET n == Head(todo).of
           done == Append(Head(todo).kept, Last(scopes_))
       IN  /\ Len(done) < Len(Branches(n))
           /\ scopes_' = Push(Below)
           /\ Goto(<<Branches(n)[Len(done) + 1], End("endbranch", n, done)>>)
    /\ UNCHANGED <<reports, analyzer>>

EndBranching ==
    /\ At("endbranch")
    /\ LET n == Head(todo).of
           done == Append(Head(todo).kept, Last(scopes_))
           merged == IF n.k = "if" /\ n.else = None THEN mergeScopesAlternative(scopes_)
                     ELSE mergeSwitchProngStates(Below, done)
       IN  /\ Len(done) = Len(Branches(n))
           /\ scopes_' = mergeScopesLinear(merged)
    /\ Goto(<<>>)
    /\ UNCHANGED <<reports, analyzer>>

(* while and for: the body once, then what it set is unknown. *)
visitLoop ==
    /\ At("while") \/ At("for")
    /\ scopes_' = Push(Push(scopes_))
    /\ Goto(<<Head(todo).body, End("endloop", None, <<>>)>>)
    /\ UNCHANGED <<reports, analyzer>>

EndLoop ==
    /\ At("endloop")
    /\ LET known == {x \in modified(Last(scopes_)) : hasVariable(Below, x)}
       IN  scopes_' = mergeScopesLinear(
                        SetAll(Below, known, LAMBDA x : [getState(Below, x) EXCEPT !.state = "UNKNOWN"]))
    /\ Goto(<<>>)
    /\ UNCHANGED <<reports, analyzer>>

visitOther ==
    /\ todo # <<>>
    /\ Head(todo).k \in {"none", "use"}
    /\ Goto(<<>>)
    /\ UNCHANGED <<reports, scopes_, analyzer>>

Next ==
    \/ visitFnDecl \/ EndFn \/ visitBlockStmt \/ executeDefers \/ EndBlock
    \/ visitVarDecl \/ visitAssignment \/ visitFree \/ visitTransfer
    \/ visitDeferStmt \/ visitCompoundAssignment \/ visitReturnStmt \/ EndReturn
    \/ visitBranching \/ NextBranch \/ EndBranching \/ visitLoop \/ EndLoop \/ visitOther
=============================================================================
