-------------------------- MODULE StaticAnalyzers ---------------------------
(***************************************************************************)
(* Phase 5 of CompilationUnit::performFullPipeline: the lifetime, the null *)
(* pointer and the double free analyzer visit a function one after the     *)
(* other, with one error handler.  Each keeps a stack of scopes of its own, *)
(* and takes back what it has pushed.                                      *)
(***************************************************************************)
EXTENDS FnBodies, FiniteSets

CONSTANTS
    Functions,                          \* the bodies to analyze
    Locals, Params, Pointers,
    BaseOf(_), warn_arena_leaks

(* The parser makes the body of every function a block. *)
ASSUME FunctionsAssumption ==
    /\ \A f \in Functions : f \in Nodes /\ f.k = "block"
    /\ Params \subseteq STRING /\ IsFiniteSet(Params)

VARIABLES
    fn,             \* the function (never changes)
    pass,           \* the analyzer at work
    todo, reports,
    assignments,    \* LifetimeAnalyzer
    null_scopes,    \* NullPointerAnalyzer
    free_scopes, deferred_actions_, current_scope_depth_, in_error_path_

free == <<free_scopes, deferred_actions_, current_scope_depth_, in_error_path_>>
vars == <<fn, pass, todo, reports, assignments, null_scopes, free>>

LT == INSTANCE LifetimeAnalyzer WITH current_assignments_ <- assignments
NP == INSTANCE NullPointerAnalyzer WITH scopes_ <- null_scopes
DF == INSTANCE DoubleFreeAnalyzer WITH scopes_ <- free_scopes

Init ==
    /\ fn \in Functions
    /\ pass = "lifetime"
    /\ todo = <<FnDecl(fn)>>
    /\ reports = {}
    /\ assignments = [x \in {} |-> LT!NoName]
    /\ null_scopes = <<NP!EmptyMap>>
    /\ free_scopes = <<>>
    /\ deferred_actions_ = <<>>
    /\ current_scope_depth_ = 0
    /\ in_error_path_ = FALSE

Lifetime == pass = "lifetime" /\ LT!Next /\ UNCHANGED <<fn, pass, null_scopes, free>>
NullPointer == pass = "null" /\ NP!Next /\ UNCHANGED <<fn, pass, assignments, free>>
DoubleFree == pass = "double_free" /\ DF!Next /\ UNCHANGED <<fn, pass, assignments, null_scopes>>

(* One analyzer has returned, the next one begins. *)
NextPass ==
    /\ todo = <<>>
    /\ pass # "done"
    /\ pass' = CASE pass = "lifetime" -> "null"
                 [] pass = "null" -> "double_free"
                 [] pass = "double_free" -> "done"
    /\ todo' = IF pass = "double_free" THEN <<>> ELSE <<FnDecl(fn)>>
    /\ UNCHANGED <<fn, reports, assignments, null_scopes, free>>

Finished == pass = "done" /\ UNCHANGED vars

Next == Lifetime \/ NullPointer \/ DoubleFree \/ NextPass \/ Finished

Spec == Init /\ [][Next]_vars
-----------------------------------------------------------------------------
Done == pass = "done"

TypeOK ==
    /\ \A i \in DOMAIN null_scopes : \A j \in DOMAIN null_scopes[i].vars :
         null_scopes[i].vars[j].state \in NP!PointerStates
    /\ \A i \in DOMAIN free_scopes : \A x \in DOMAIN free_scopes[i] :
         free_scopes[i][x].state \in DF!AllocationStates

(* What the end of a visitor is about to take off the stack is there. *)
NullPopsSafe ==
    pass = "null" /\ todo # <<>> =>
        /\ Head(todo).k \in {"endfn", "endblock", "endfor"} => Len(null_scopes) >= 2
        /\ Head(todo).k \in {"endthen", "endelse", "endwhile"} => Len(null_scopes) >= 3
FreePopsSafe ==
    pass = "double_free" /\ todo # <<>> =>
        /\ Head(todo).k = "endblock" => Len(free_scopes) >= 2 /\ current_scope_depth_ >= 1
        /\ Head(todo).k \in {"endbranch", "endloop"} => Len(free_scopes) >= 3

(* The deferred actions are in the order of their blocks, none of which    *)
(* was left: looking at the last action only, executeDefers finds all of a *)
(* block's.                                                                *)
DefersNested ==
    /\ \A i \in DOMAIN deferred_actions_ :
         deferred_actions_[i].depth \in 1..current_scope_depth_
    /\ \A i, j \in DOMAIN deferred_actions_ :
         i <= j => deferred_actions_[i].depth <= deferred_actions_[j].depth

(* Every analyzer takes back what it pushed, whatever returns, branches    *)
(* and replayed defers are nested in each other: no scope is popped that   *)
(* was not pushed, no deferred action outlives its block, and in the end   *)
(* scopes, deferred actions, the depth and the error path are as before    *)
(* the function (popScope, executeDefers, mergeScopesLinear).              *)
Balanced ==
    /\ TypeOK
    /\ NullPopsSafe /\ FreePopsSafe
    /\ DefersNested
    /\ Done => /\ Len(null_scopes) = 1 /\ free_scopes = <<>>
               /\ deferred_actions_ = <<>> /\ current_scope_depth_ = 0 /\ ~in_error_path_
=============================================================================
