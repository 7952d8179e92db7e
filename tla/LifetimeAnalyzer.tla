-------------------------- MODULE LifetimeAnalyzer --------------------------
(***************************************************************************)
(* src/bootstrap/lifetime_analyzer.cpp: which returned pointers point to   *)
(* the function's own storage.  The analyzer keeps, for every pointer      *)
(* variable assigned so far, the variable it points to, and reports a      *)
(* return whose expression leads to a local variable.                      *)
(*                                                                         *)
(* The recursion of visit is the list todo.  Names of fields and elements  *)
(* ("s.f") are cut to their base variable wherever they are used, so the   *)
(* model keeps the base variable only.                                     *)
(***************************************************************************)
EXTENDS FnBodies

CONSTANTS
    Locals,     \* symbols with SYMBOL_FLAG_LOCAL, parameters included
    Params,     \* symbols with SYMBOL_FLAG_PARAM
    Pointers    \* symbols whose type is a pointer or a slice

VARIABLES
    todo,                   \* what is left to visit
    reports,                \* given to the error handler
    current_assignments_    \* pointer_name -> points_to_name or NoName

vars == <<todo, reports, current_assignments_>>

NoName == "NULL"
Tracked(x) == x \in DOMAIN current_assignments_

(* expr->resolved_type is a pointer or a slice; fields hold values. *)
IsPointer(e) ==
    \/ e.k \in {"null", "call", "alloc", "addr", "slice", "cast"}
    \/ e.k = "id" /\ e.x \in Pointers

(* The variable a pointer variable is known to point to; any other         *)
(* expression leads where its origin does.                                 *)
Provenance(e, origin) ==
    IF e.k = "id" /\ Tracked(e.x) THEN current_assignments_[e.x]
    ELSE IF e.k = "id" /\ e.x \in Params /\ e.x \in Pointers THEN NoName
    ELSE origin

getPointerOrigin[e \in Nodes] ==
    CASE e.k = "id" -> e.x
      [] e.k \in {"cast", "slice", "addr"} -> getPointerOrigin[e.e]
      [] e.k = "deref" -> Provenance(e.e, getPointerOrigin[e.e])
      [] e.k = "field" -> IF IsPointer(e.e) THEN Provenance(e.e, getPointerOrigin[e.e])
                          ELSE getPointerOrigin[e.e]
      [] OTHER -> NoName

getPointerProvenance(e) == Provenance(e, getPointerOrigin[e])

isDangerousLocalPointer(e) ==
    LET base == getPointerProvenance(e)
    IN  /\ base \in Locals
        /\ \/ e.k = "addr"
           \/ base \notin Params
           \/ base \notin Pointers

(* Mutant: a copied pointer points to the variable it was copied from. *)
PointsToName(e) == LET base == getPointerOrigin[e] IN IF base \in Locals THEN base ELSE NoName

(* What x points to after x = e. *)
PointsTo(e) ==
    LET alias == IF e.k = "id" /\ Tracked(e.x) THEN current_assignments_[e.x] ELSE NoName
        base  == getPointerOrigin[e]
    IN  IF alias # NoName THEN alias
        ELSE IF base \notin Locals THEN NoName
        ELSE IF base \notin Pointers THEN base
        ELSE IF Tracked(base) THEN current_assignments_[base]
        ELSE NoName

trackLocalPointerAssignment(x, e) ==
    current_assignments_' = [y \in DOMAIN current_assignments_ \cup {x} |->
                                IF y = x THEN PointsTo(e) ELSE current_assignments_[y]]

Goto(nodes) == todo' = nodes \o Tail(todo)
At(k) == todo # <<>> /\ Head(todo).k = k
-----------------------------------------------------------------------------
visitFnDecl ==
    /\ At("fn")
    /\ current_assignments_' = [x \in {} |-> NoName]
    /\ Goto(<<Head(todo).body>>)
    /\ UNCHANGED reports

visitBlockStmt ==
    /\ At("block")
    /\ Goto(Head(todo).ss)
    /\ UNCHANGED <<reports, current_assignments_>>

visitReturnStmt ==
    /\ At("return")
    /\ LET n == Head(todo)
           bad == n.e # None /\ IsPointer(n.e) /\ isDangerousLocalPointer(n.e)
       IN  reports' = reports \cup (IF bad THEN {Report("dangling", getPointerOrigin[n.e], n.at)}
                                    ELSE {})
    /\ Goto(<<>>)
    /\ UNCHANGED current_assignments_

(* visitVarDecl and visitAssignment: of the targets, only identifiers of a *)
(* pointer type are tracked, and a declaration only with an initializer.   *)
TrackTarget ==
    /\ At("decl") \/ At("assign")
    /\ LET n == Head(todo)
           x == IF n.k = "decl" THEN n.x ELSE IF n.lv.k = "id" THEN n.lv.x ELSE NoName
       IN  IF n.e # None /\ x \in Pointers THEN trackLocalPointerAssignment(x, n.e)
           ELSE UNCHANGED current_assignments_
    /\ Goto(<<>>)
    /\ UNCHANGED reports

(* visitIfStmt, visitWhileStmt, visitForStmt: the branches one after the   *)
(* other, in one table.                                                    *)
visitBranches ==
    /\ At("if") \/ At("while") \/ At("for")
    /\ LET n == Head(todo)
       IN  Goto(IF n.k = "if" THEN <<n.then, n.else>> ELSE <<n.body>>)
    /\ UNCHANGED <<reports, current_assignments_>>

(* Expressions hold no declarations or returns; the other statements       *)
(* (switch, defer, calls) are not visited.                                 *)
visitOther ==
    /\ todo # <<>>
    /\ Head(todo).k \in {"none", "compound", "use", "free", "transfer", "switch", "defer", "errdefer"}
    /\ Goto(<<>>)
    /\ UNCHANGED <<reports, current_assignments_>>

Next == visitFnDecl \/ visitBlockStmt \/ visitReturnStmt \/ TrackTarget
            \/ visitBranches \/ visitOther
=============================================================================
