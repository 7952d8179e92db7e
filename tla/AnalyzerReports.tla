-------------------------- MODULE AnalyzerReports ---------------------------
(***************************************************************************)
(* What the analyzers of StaticAnalyzers report of a function, compared    *)
(* with what the function does when it runs (BodySemantics).               *)
(***************************************************************************)
EXTENDS StaticAnalyzers

CONSTANTS Names, MaxIterations      \* see BodySemantics

Sem == INSTANCE BodySemantics
-----------------------------------------------------------------------------
(* The statements of a body, at any depth. *)
RECURSIVE Parts(_)
Parts(s) ==
    {s} \cup
    CASE s.k = "block" -> UNION {Parts(s.ss[i]) : i \in DOMAIN s.ss}
      [] s.k = "if" -> Parts(s.then) \cup Parts(s.else)
      [] s.k \in {"while", "for"} -> Parts(s.body)
      [] s.k = "switch" -> UNION {Parts(s.prongs[i]) : i \in DOMAIN s.prongs}
      [] s.k \in {"defer", "errdefer"} -> Parts(s.s)
      [] OTHER -> {}
Kinds == {s.k : s \in Parts(fn)}

Branching == {"if", "while", "for", "switch"}
StraightLine == Kinds \cap Branching = {}
(* One block holds all the declarations, so no name hides another. *)
OneScope == \A s \in Parts(fn) : s.k = "decl" => \E i \in DOMAIN fn.ss : fn.ss[i] = s
(* No pointer is copied from variable to variable. *)
NoCopies == \A s \in Parts(fn) : s.k \in {"decl", "assign"} => s.e.k \notin {"id", "cast"}
(* The only returns end the function. *)
OneExit == \A s \in Parts(fn) : s.k = "return" => s = fn.ss[Len(fn.ss)]
(* A variable is not assigned where a comparison of it decides. *)
ChecksStable ==
    \A s \in Parts(fn) : s.k = "if" /\ s.cond.k = "cmp" =>
        \A t \in Parts(s.then) \cup Parts(s.else) :
            t.k \in {"assign", "compound"} => t # Assign(Id(s.cond.x), t.e)

(* A block's defers run before its errdefers (emitDefersForScopeExit); the  *)
(* double free analyzer replays both as one stack.  That is the same order *)
(* in a block whose errdefers come before its defers.                      *)
ErrdefersFirst ==
    \A s \in Parts(fn) : s.k = "block" =>
        \A i, j \in DOMAIN s.ss : s.ss[i].k = "defer" /\ s.ss[j].k = "errdefer" => j < i
(* Deferred statements only free: in whatever order, the same frees.       *)
DeferredFrees == \A s \in Parts(fn) : s.k \in {"defer", "errdefer"} => s.s.k = "free"

Initialised == \A s \in Parts(fn) : s.k = "decl" => s.e # None
NoCastReturned == \A s \in Parts(fn) : s.k = "return" => s.e.k # "cast"

Reported(what) == {r.at : r \in {q \in reports : q.what = what}}
ReportedNames(what) == {r.x : r \in {q \in reports : q.what = what}}
Committed(what) == {f.at : f \in {g \in Sem!Faults(fn) : g.what = what}}
FreedTwice == {s.x : s \in {f \in Parts(fn) : f.k = "free" /\ f.at \in Committed("double")}}
-----------------------------------------------------------------------------
(* Every ERR_DOUBLE_FREE is committed by some execution, whatever branches *)
(* were merged and defers replayed (visitFunctionCall, executeDefers,      *)
(* mergeTrackedPointers), unless one name hides another: at its place if   *)
(* the replay is in the order of the emitted code, and of the pointer it   *)
(* names in any case if deferred statements only free.                     *)
DoubleFreesReal ==
    Done /\ OneScope =>
        /\ ErrdefersFirst => Reported("double") \subseteq Committed("double")
        /\ DeferredFrees => ReportedNames("double") \subseteq FreedTwice

(* Without branches, copies, transfers and pointer arithmetic no double    *)
(* free is missed: defers are replayed, errdefers only when an error is    *)
(* returned; the place is right and the pointer too as in DoubleFreesReal. *)
StraightLineFreesFound ==
    Done /\ StraightLine /\ NoCopies /\ Kinds \cap {"transfer", "compound"} = {} =>
        /\ ErrdefersFirst => Committed("double") \subseteq Reported("double")
        /\ DeferredFrees => FreedTwice \subseteq ReportedNames("double")

(* A leak warning names a pointer that some execution loses: merging       *)
(* forgets nothing that was freed, if the function has one exit and no     *)
(* deferred statement assigns a pointer after its value was returned       *)
(* (visitReturnStmt replays the defers before it marks what is returned).  *)
LeaksReal ==
    Done /\ OneScope /\ NoCopies /\ OneExit /\ warn_arena_leaks /\ DeferredFrees =>
        ReportedNames("leak") \subseteq Committed("leak")

(* A "definite null pointer dereference" is one of null in some execution, *)
(* if it is not in dead code, no switch or defer assigns pointers and no   *)
(* branch assigns the pointer it compares (visitIfStmt, mergeScopes).      *)
DefiniteNullsReal ==
    Done /\ Kinds \cap {"switch", "defer", "errdefer"} = {} /\ ChecksStable =>
        Reported("IS_NULL") \cap Committed("deref") \subseteq Committed("null")

(* A dereference passed without a word is never one of null, loops and the *)
(* exceptions of DefiniteNullsReal apart.                                  *)
SilentDerefsSafe ==
    Done /\ Kinds \cap {"switch", "defer", "errdefer", "while", "for"} = {} /\ ChecksStable =>
        Committed("null") \subseteq
            Reported("IS_NULL") \cup Reported("MAYBE") \cup Reported("UNINIT")

(* Without branches, the returns reported are those that return a pointer  *)
(* to the function's own storage: aliases, fields, elements, slices and    *)
(* casts are followed (getPointerOrigin, trackLocalPointerAssignment),     *)
(* unless the returned expression is itself a cast of a pointer variable   *)
(* or a pointer never initialised.                                         *)
StraightLineReturnsExact ==
    Done /\ StraightLine /\ Initialised /\ NoCastReturned =>
        Reported("dangling") = Committed("dangling")

(* No tracked pointer is one of a block that was left, so that a leak is   *)
(* reported once, where its block ends (mergeScopesLinear).                *)
LeftBlocksForgotten ==
    \A i \in DOMAIN free_scopes : \A x \in DOMAIN free_scopes[i] :
        free_scopes[i][x].depth <= current_scope_depth_

(* What the double free analyzer says of a function, errors and warnings,  *)
(* happens in it, and nothing is said of a block that was left.            *)
FreeReportsReal == DoubleFreesReal /\ LeaksReal /\ LeftBlocksForgotten

(* Definite nulls are null and silence means safe: the two sides of the    *)
(* null analysis that users rely on.                                       *)
NullReportsMatch == DefiniteNullsReal /\ SilentDerefsSafe
=============================================================================
