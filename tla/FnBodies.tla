------------------------------ MODULE FnBodies ------------------------------
(***************************************************************************)
(* Function bodies as the static analyzers meet them (src/include/ast.hpp):*)
(* type checked, and lifted, so that no try, catch or orelse is left.      *)
(*                                                                         *)
(* An expression or statement is a record with a kind k.  Only what the    *)
(* analyzers tell apart is kept: names, pointer values, conditions that    *)
(* compare a pointer with null.  at numbers the places that can be         *)
(* reported.                                                               *)
(***************************************************************************)
EXTENDS Integers, Sequences

CONSTANT AST        \* the statements and expressions of the functions

None == [k |-> "none"]                      \* a NULL child
Nodes == AST \cup {None}

(* Pointer values.  Alloc: arena_alloc or arena_alloc_default, possibly    *)
(* cast; direct unless the call is an operand of pointer arithmetic.       *)
NullLit == [k |-> "null"]
Call == [k |-> "call"]                      \* any other function call
Alloc(direct) == [k |-> "alloc", direct |-> direct]
Id(x) == [k |-> "id", x |-> x]
AddrOf(e) == [k |-> "addr", e |-> e]        \* &e
Deref(e, at) == [k |-> "deref", e |-> e, at |-> at]     \* e.* or e[i]
Field(e, x) == [k |-> "field", e |-> e, x |-> x]        \* e.f, named x
SliceOf(e) == [k |-> "slice", e |-> e]      \* e[a..b]
Cast(e) == [k |-> "cast", e |-> e]          \* @ptrCast(T, e), (e)

(* Conditions: unknown, or a comparison of x with null. *)
AnyCond == [k |-> "any"]
Cmp(x, isEqual) == [k |-> "cmp", x |-> x, isEqual |-> isEqual]

(* Statements. *)
Decl(x, e) == [k |-> "decl", x |-> x, e |-> e]
Assign(lv, e) == [k |-> "assign", lv |-> lv, e |-> e]
Compound(x) == [k |-> "compound", x |-> x]              \* x += n
Use(e) == [k |-> "use", e |-> e]                        \* _ = e
Free(x, at) == [k |-> "free", x |-> x, at |-> at]       \* arena_free(x)
Transfer(x) == [k |-> "transfer", x |-> x]              \* deep_copy(x), ...
Block(ss) == [k |-> "block", ss |-> ss]
If(c, cap, t, e) == [k |-> "if", cond |-> c, cap |-> cap, then |-> t, else |-> e]
While(c, b) == [k |-> "while", cond |-> c, body |-> b]
For(x, b) == [k |-> "for", item |-> x, body |-> b]
Switch(ps) == [k |-> "switch", prongs |-> ps]
Return(e, err, at) == [k |-> "return", e |-> e, err |-> err, at |-> at]
Defer(s) == [k |-> "defer", s |-> s]
ErrDefer(s) == [k |-> "errdefer", s |-> s]

(* The AST: a node is of a known kind and has its children among the       *)
(* nodes; a switch has a prong.  Names are interned strings.               *)
NodeKinds ==
    {"none", "null", "call", "alloc", "id", "addr", "deref", "field", "slice", "cast",
     "decl", "assign", "compound", "use", "free", "transfer", "block", "if", "while", "for",
     "switch", "return", "defer", "errdefer"}
ASSUME NodesAssumption ==
    \A n \in Nodes :
        /\ n.k \in NodeKinds
        /\ n.k = "block" => n.ss \in Seq(Nodes)
        /\ n.k = "switch" => n.prongs \in Seq(Nodes) /\ n.prongs # <<>>
        /\ n.k = "if" => n.then \in Nodes /\ n.else \in Nodes
        /\ n.k \in {"while", "for"} => n.body \in Nodes
        /\ n.k \in {"defer", "errdefer"} => n.s \in Nodes
        /\ n.k = "assign" => n.lv \in Nodes
        /\ n.k \in {"addr", "deref", "field", "slice", "cast", "decl", "assign", "use", "return"} =>
             n.e \in Nodes
        /\ n.k \in {"id", "field", "decl", "compound", "free", "transfer"} => n.x \in STRING
        /\ n.k = "return" => n.err \in BOOLEAN
        /\ n.k = "for" => n.item \in STRING
        /\ n.k = "if" => n.cap \in STRING
        /\ n.k \in {"if", "while"} => (n.cond.k = "cmp" => n.cond.x \in STRING)

(* What an analyzer starts with: the function being visited. *)
FnDecl(fn) == [k |-> "fn", body |-> fn]

(* A report given to the error handler. *)
Report(what, x, at) == [what |-> what, x |-> x, at |-> at]
=============================================================================
