---------------------------- MODULE DeferCodegen ----------------------------
(***************************************************************************)
(* How the C emitter turns a function body with defers, errdefers, loops   *)
(* and early exits into C (src/bootstrap/codegen.cpp: emitBlock,           *)
(* emitStatement, emitDefersForScopeExit and the emitters of the control   *)
(* statements), and what the C code does when it runs.                     *)
(*                                                                         *)
(* C has no defer: the emitter keeps a stack of scopes with the deferred   *)
(* statements met so far, and copies them in front of every way out of     *)
(* the scopes.  Loops become labels and gotos.                             *)
(*                                                                         *)
(* The recursion of the emit functions is an explicit list of things still *)
(* to be emitted, todo, first the next one.  The text is abstracted to a   *)
(* sequence of instructions, out: the C statements that decide what runs,  *)
(* an expression statement being an event with a number.  An opening and   *)
(* its closing brace share the position of the opening one.                *)
(*                                                                         *)
(* The function returns !void.  A statement is a record with a kind k; the *)
(* type checker has resolved break and continue to a loop's label_id and   *)
(* keeps them, and return, out of deferred statements; the lifter has made *)
(* blocks of all bodies.  A loop or a try in a deferred statement is       *)
(* accepted, and the emitter does not cope with it: the properties say of  *)
(* which bodies (PlainDefers) they speak, and what becomes of the others.  *)
(***************************************************************************)
EXTENDS Integers, Sequences, SequencesExt, FiniteSets

CONSTANTS
    Statements,     \* the statements of the functions, at any depth
    Functions,      \* function bodies: sequences of statements
    MaxDefers,      \* deferred statements in one scope (32)
    MaxLoopIds,     \* size of loop_uses_labels_ (1024)
    MaxChoices      \* bound: conditions of one run that may come out true

VARIABLES
    body,               \* the function body (never changes)
    todo,               \* what is left to emit
    out,                \* the C code
    defer_stack_,       \* scopes: [label_id, defers, err_defers]
    loop_id_stack_,
    loop_has_continue_,
    emitting,           \* deferred statements being emitted, outermost first
    errors,             \* error_handler_.hasErrors()
    phase,              \* "validate", "emit", "run" and the ways to end:
                        \* "rejected", "aborted", "diverged", "c_error",
                        \* "returned", "panicked"
    pc, trace, choices, \* the C program: next instruction, events so far,
                        \* the outcomes of its conditions so far
    return_val,         \* __return_val: "ok" or "err"
    err_occurred        \* the error flag

emitter == <<todo, out, defer_stack_, loop_id_stack_, loop_has_continue_,
             emitting, errors>>
program == <<pc, trace, choices, return_val, err_occurred>>
vars == <<body, emitter, phase, program>>

-----------------------------------------------------------------------------
(* Statements. *)
Act(n) == [k |-> "act", n |-> n]
Defer(n, b) == [k |-> "defer", n |-> n, body |-> b]
ErrDefer(n, b) == [k |-> "errdefer", n |-> n, body |-> b]
Try(n) == [k |-> "try", n |-> n]
Return(n, v) == [k |-> "return", n |-> n, val |-> v]
Break(id) == [k |-> "break", to |-> id]
Continue(id) == [k |-> "continue", to |-> id]
While(id, iter, b) == [k |-> "while", id |-> id, iter |-> iter, body |-> b]
For(id, n, b) == [k |-> "for", id |-> id, n |-> n, body |-> b]
If(b) == [k |-> "if", then |-> b, has_else |-> FALSE, else |-> <<>>]
IfElse(b, c) == [k |-> "if", then |-> b, has_else |-> TRUE, else |-> c]
Switch(bs, e) == [k |-> "switch", prongs |-> bs, has_else |-> e]
Block(b) == [k |-> "block", body |-> b]
Unreachable == [k |-> "unreachable"]

(* The blocks of s, the statements in them, and those at any depth. *)
Blocks(s) ==
    CASE s.k \in {"block", "while", "for", "defer", "errdefer"} -> {s.body}
      [] s.k = "if" -> {s.then, s.else}
      [] s.k = "switch" -> Range(s.prongs)
      [] OTHER -> {}
Kids(s) == UNION {Range(b) : b \in Blocks(s)}
Inside[s \in Statements] == {s} \cup UNION {Inside[t] : t \in Kids(s)}

(* The loops in s, the deferred statements in s by their numbers, and the  *)
(* loops around s that it jumps to.                                        *)
Loop(s) == s.k \in {"while", "for"}
Deferred(s) == s.k \in {"defer", "errdefer"}
LoopIds(s) == {t.id : t \in {u \in Inside[s] : Loop(u)}}
Numbers(s) == {t.n : t \in {u \in Inside[s] : Deferred(u)}}
Targets[s \in Statements] ==
    LET inner == UNION {Targets[t] : t \in Kids(s)}
    IN  CASE s.k \in {"break", "continue"} -> {s.to}
          [] Loop(s) -> inner \ {s.id}
          [] OTHER -> inner

(* Statements of a block, or of two blocks, have no loop in common. *)
Separate(b) == \A i, j \in DOMAIN b : i # j => LoopIds(b[i]) \cap LoopIds(b[j]) = {}
Apart(b, c) == \A s \in Range(b), t \in Range(c) : LoopIds(s) \cap LoopIds(t) = {}

(* What the parser, the type checker and the lifter see to. *)
StatementTypes ==
    \A s \in Statements :
        /\ s.k \in {"act", "defer", "errdefer", "try", "return", "break", "continue", "while",
                    "for", "if", "switch", "block", "unreachable"}
        /\ \A b \in Blocks(s) : b \in Seq(Statements)
        /\ s.k \in {"act", "defer", "errdefer", "try", "return", "for"} => s.n \in Nat
        /\ s.k = "while" => s.iter \in Nat
        /\ Loop(s) => s.id \in Nat
        /\ s.k \in {"break", "continue"} => s.to \in Nat
        /\ s.k = "return" => s.val \in {"ok", "err", "any"}
        /\ s.k = "if" => s.has_else \in BOOLEAN
        /\ s.k = "switch" => s.prongs \in Seq(Seq(Statements)) /\ s.has_else \in BOOLEAN
                              /\ (s.has_else => s.prongs # <<>>)
LoopsNumbered ==
    \A s \in Statements :
        /\ \A b \in Blocks(s) : Separate(b)
        /\ Loop(s) => \A t \in Kids(s) : s.id \notin LoopIds(t)
        /\ s.k = "if" => Apart(s.then, s.else)
        /\ s.k = "switch" => \A i, j \in DOMAIN s.prongs : i # j => Apart(s.prongs[i], s.prongs[j])
DeferredStays ==
    \A s \in Statements : Deferred(s) =>
        \A t \in Kids(s) :
            /\ s.n \notin Numbers(t)
            /\ Targets[t] = {}
            /\ \A u \in Inside[t] : u.k \notin {"return", "break", "continue"}

ASSUME DeferConstants ==
    /\ MaxDefers \in Nat /\ MaxLoopIds \in Nat /\ MaxChoices \in Nat
    /\ {If(<<Return(0, "err")>>), Return(0, "err")} \subseteq Statements
    /\ StatementTypes /\ LoopsNumbered /\ DeferredStays
    /\ \A f \in Functions :
          f \in Seq(Statements) /\ Separate(f) /\ \A s \in Range(f) : Targets[s] = {}

-----------------------------------------------------------------------------
(* allPathsExit: control never comes out of the end of s. *)
allPathsExit[s \in Statements] ==
    LET Exits(b) == \E i \in DOMAIN b : allPathsExit[b[i]]
    IN  CASE s.k \in {"return", "break", "continue", "unreachable"} -> TRUE
          [] s.k = "block"  -> Exits(s.body)
          [] s.k = "if"     -> s.has_else /\ Exits(s.then) /\ Exits(s.else)
          [] s.k = "switch" -> s.has_else /\ s.prongs # <<>>
                                 /\ \A i \in DOMAIN s.prongs : Exits(s.prongs[i])
          [] OTHER -> FALSE

(* scanForErrDefer: some statement of b is an errdefer, however deep. *)
scanForErrDefer(b) == \E s \in Range(b) : \E t \in Inside[s] : t.k = "errdefer"

(* visitBlockStmt of the C89 feature validator, over all blocks of b. *)
DeferCount(b) == Cardinality({i \in DOMAIN b : Deferred(b[i])})
OverLimit(b, limit) ==
    \/ DeferCount(b) > limit
    \/ \E s \in Range(b) : \E t \in Inside[s] : \E c \in Blocks(t) : DeferCount(c) > limit

(* current_err_flag_ is not NULL: the function has an error flag. *)
HasErrFlag == scanForErrDefer(body)

-----------------------------------------------------------------------------
(* Instructions: op, a number (event, loop, or position of the opening     *)
(* brace) and, where needed, a second part or the number of a prong.       *)
C(op, n, at) == [op |-> op, n |-> n, at |-> at, j |-> 0]
Prongs(op, n, j) == [op |-> op, n |-> n, at |-> "", j |-> j]
Label(id, at) == C("label", id, at)
Goto(id, at) == C("goto", id, at)
Event(n) == IF n = 0 THEN <<>> ELSE <<C("event", n, "")>>

(* Things to emit. *)
BlockTask(b, label_id) == [t |-> "block", b |-> b, label |-> label_id]
RestTask(b) == [t |-> "rest", b |-> b]
CloseTask == [t |-> "close"]
StmtTask(s) == [t |-> "stmt", s |-> s]
CodeTask(c) == [t |-> "code", c |-> c]
DeferredTask(d) == [t |-> "deferred", d |-> d]
LeaveTask == [t |-> "leave"]
UnwindTask(i, target) == [t |-> "unwind", i |-> i, target |-> target]
IfErrTask(ds) == [t |-> "iferr", ds |-> ds]
LoopEndTask(id, iter) == [t |-> "loopend", id |-> id, iter |-> iter]
ProngTask(s, i, at) == [t |-> "prong", s |-> s, i |-> i, at |-> at]

Emitting(task) == phase = "emit" /\ todo # <<>> /\ Head(todo).t = task
EmittingStmt(k) == Emitting("stmt") /\ Head(todo).s.k = k
Now == Head(todo)
Emit(code, tasks) == out' = out \o code /\ todo' = tasks \o Tail(todo)
Here == Len(out) + 1
Scope == defer_stack_[Len(defer_stack_)]
(* The deferred statements ds, last one first. *)
InReverse(ds) == [i \in DOMAIN ds |-> DeferredTask(ds[Len(ds) + 1 - i])]

-----------------------------------------------------------------------------
(* The feature validator runs before code generation: a block with more    *)
(* deferred statements than the limit ends the compilation.                *)
Validate ==
    /\ phase = "validate"
    /\ phase' = IF OverLimit(body, MaxDefers) THEN "rejected" ELSE "emit"
    /\ UNCHANGED <<body, emitter, program>>

-----------------------------------------------------------------------------
(* emitBlock: a new DeferScope... *)
emitBlock ==
    /\ Emitting("block")
    /\ defer_stack_' = Append(defer_stack_,
           [label_id |-> Now.label, defers |-> <<>>, err_defers |-> <<>>])
    /\ Emit(<<>>, <<RestTask(Now.b)>>)
    /\ UNCHANGED <<body, loop_id_stack_, loop_has_continue_, emitting,
                   errors, phase, program>>

(* ... a defer or errdefer is put on it; beyond the limit that is an       *)
(* error, and the emitter goes on...                                       *)
CollectDefer ==
    /\ Emitting("rest") /\ Now.b # <<>>
    /\ LET s == Head(Now.b)
           i == Len(defer_stack_)
       IN  /\ Deferred(s)
           /\ errors' = (errors \/ Len(Scope.defers) + Len(Scope.err_defers) >= MaxDefers)
           /\ defer_stack_' = IF s.k = "defer"
                THEN [defer_stack_ EXCEPT ![i].defers = Append(@, s)]
                ELSE [defer_stack_ EXCEPT ![i].err_defers = Append(@, s)]
    /\ Emit(<<>>, <<RestTask(Tail(Now.b))>>)
    /\ UNCHANGED <<body, loop_id_stack_, loop_has_continue_, emitting, phase, program>>

(* ... any other statement is emitted; behind one that always exits        *)
(* nothing is...                                                           *)
BlockStatement ==
    /\ Emitting("rest") /\ Now.b # <<>>
    /\ LET s == Head(Now.b)
       IN  /\ ~Deferred(s)
           /\ Emit(<<>>, <<StmtTask(s),
                  IF allPathsExit[s] THEN CloseTask ELSE RestTask(Tail(Now.b))>>)
    /\ UNCHANGED <<body, defer_stack_, loop_id_stack_, loop_has_continue_,
                   emitting, errors, phase, program>>

(* Mutant: at the end of any block every open scope is unwound. *)
BlockEndUnwindsAll ==
    /\ Emitting("rest") /\ Now.b = <<>>
    /\ Emit(<<>>, <<UnwindTask(Len(defer_stack_), -1), CloseTask>>)
    /\ UNCHANGED <<body, defer_stack_, loop_id_stack_, loop_has_continue_,
                   emitting, errors, phase, program>>

(* ... and at the end of the block its defers are emitted. *)
BlockFallsThrough ==
    /\ Emitting("rest") /\ Now.b = <<>>
    /\ Emit(<<>>, Append(InReverse(Scope.defers), CloseTask))
    /\ UNCHANGED <<body, defer_stack_, loop_id_stack_, loop_has_continue_,
                   emitting, errors, phase, program>>

(* DeferScopeGuard's destructor. *)
CloseBlock ==
    /\ Emitting("close")
    /\ defer_stack_' = Front(defer_stack_)
    /\ Emit(<<>>, <<>>)
    /\ UNCHANGED <<body, loop_id_stack_, loop_has_continue_, emitting,
                   errors, phase, program>>

(* A deferred statement, a block, is emitted where control leaves its scope. *)
EmitDeferred ==
    /\ Emitting("deferred") /\ Now.d.n \notin Range(emitting)
    /\ emitting' = Append(emitting, Now.d.n)
    /\ Emit(<<>>, <<BlockTask(Now.d.body, -1), LeaveTask>>)
    /\ UNCHANGED <<body, defer_stack_, loop_id_stack_, loop_has_continue_,
                   errors, phase, program>>

(* A deferred statement is reached while it is being emitted.  What is     *)
(* emitted depends on nothing but the tree and the scopes, and the scopes  *)
(* are there still: the emitter comes here again and again, and its        *)
(* recursion has no end.                                                   *)
EmitDeferredAgain ==
    /\ Emitting("deferred") /\ Now.d.n \in Range(emitting)
    /\ phase' = "diverged"
    /\ UNCHANGED <<body, emitter, program>>

LeaveDeferred ==
    /\ Emitting("leave")
    /\ emitting' = Front(emitting)
    /\ Emit(<<>>, <<>>)
    /\ UNCHANGED <<body, defer_stack_, loop_id_stack_, loop_has_continue_,
                   errors, phase, program>>

(* Text that depends on nothing else. *)
EmitCode ==
    /\ Emitting("code")
    /\ Emit(<<Now.c>>, <<>>)
    /\ UNCHANGED <<body, defer_stack_, loop_id_stack_, loop_has_continue_,
                   emitting, errors, phase, program>>

-----------------------------------------------------------------------------
(* The scopes from the i-th outwards, up to the one of loop target (-1:    *)
(* all of them): the defers of a scope, last one first, then its           *)
(* errdefers, under the error flag.                                        *)
Unwound(i, target, stop) ==
    LET scope == defer_stack_[i]
    IN  /\ Emitting("unwind") /\ Now.i = i /\ i > 0
        /\ Emit(<<>>, InReverse(scope.defers)
             \o (IF scope.err_defers # <<>> /\ HasErrFlag
                   THEN <<IfErrTask(InReverse(scope.err_defers))>> ELSE <<>>)
             \o (IF stop THEN <<>> ELSE <<UnwindTask(i - 1, target)>>))
        /\ UNCHANGED <<body, defer_stack_, loop_id_stack_, loop_has_continue_,
                       emitting, errors, phase, program>>

(* Mutant: the scope of the loop itself is left without its defers. *)
UnwindShort ==
    /\ Emitting("unwind") /\ Now.i > 0
    /\ Unwound(Now.i, Now.target,
         Now.target # -1 /\ Now.i > 1 /\ defer_stack_[Now.i - 1].label_id = Now.target)

emitDefersForScopeExit ==
    /\ Emitting("unwind") /\ Now.i > 0
    /\ Unwound(Now.i, Now.target,
         Now.target # -1 /\ defer_stack_[Now.i].label_id = Now.target)

UnwindDone ==
    /\ Emitting("unwind") /\ Now.i = 0
    /\ Emit(<<>>, <<>>)
    /\ UNCHANGED <<body, defer_stack_, loop_id_stack_, loop_has_continue_,
                   emitting, errors, phase, program>>

EmitErrDefers ==
    /\ Emitting("iferr")
    /\ Emit(<<C("iferr", Here, "")>>, Append(Now.ds, CodeTask(C("endif", Here, ""))))
    /\ UNCHANGED <<body, defer_stack_, loop_id_stack_, loop_has_continue_,
                   emitting, errors, phase, program>>

FromInnermost(target) == UnwindTask(Len(defer_stack_), target)

-----------------------------------------------------------------------------
(* emitStatement, by kind of statement. *)
EmitSimple ==
    /\ \/ EmittingStmt("act") /\ Emit(Event(Now.s.n), <<>>)
       \/ EmittingStmt("unreachable") /\ Emit(<<C("panic", 0, "")>>, <<>>)
       \/ EmittingStmt("block") /\ Emit(<<>>, <<BlockTask(Now.s.body, -1)>>)
    /\ UNCHANGED <<body, defer_stack_, loop_id_stack_, loop_has_continue_,
                   emitting, errors, phase, program>>

(* Mutant: in a deferred statement the error is dropped. *)
lowerTryDropped ==
    /\ EmittingStmt("try")
    /\ Emit(Event(Now.s.n), IF emitting = <<>> THEN <<StmtTask(If(<<Return(0, "err")>>))>> ELSE <<>>)
    /\ UNCHANGED <<body, defer_stack_, loop_id_stack_, loop_has_continue_,
                   emitting, errors, phase, program>>

(* try, as lowerTryExpr leaves it: the call, and a return of its error. *)
lowerTryExpr ==
    /\ EmittingStmt("try")
    /\ Emit(Event(Now.s.n), <<StmtTask(If(<<Return(0, "err")>>))>>)
    /\ UNCHANGED <<body, defer_stack_, loop_id_stack_, loop_has_continue_,
                   emitting, errors, phase, program>>

emitIf ==
    /\ EmittingStmt("if")
    /\ LET s == Now.s
           other == IF s.has_else
                      THEN <<CodeTask(C("else", Here, "")), BlockTask(s.else, -1)>>
                      ELSE <<>>
       IN  Emit(<<C("if", Here, "")>>,
                <<BlockTask(s.then, -1)>> \o other \o <<CodeTask(C("endif", Here, ""))>>)
    /\ UNCHANGED <<body, defer_stack_, loop_id_stack_, loop_has_continue_,
                   emitting, errors, phase, program>>

(* A switch: the first prong that may be chosen is the 0th, none, without  *)
(* an else, which is the last prong...                                     *)
emitSwitch ==
    /\ EmittingStmt("switch")
    /\ Emit(<<Prongs("switch", Here, IF Now.s.has_else THEN 1 ELSE 0)>>,
            <<ProngTask(Now.s, 1, Here)>>)
    /\ UNCHANGED <<body, defer_stack_, loop_id_stack_, loop_has_continue_,
                   emitting, errors, phase, program>>

(* ... and its prongs, each followed by C's break. *)
emitProngs ==
    /\ Emitting("prong")
    /\ IF Now.i <= Len(Now.s.prongs)
         THEN Emit(<<Prongs("case", Now.at, Now.i)>>,
                   <<BlockTask(Now.s.prongs[Now.i], -1), CodeTask(C("break", Now.at, "")),
                     ProngTask(Now.s, Now.i + 1, Now.at)>>)
         ELSE Emit(<<C("endswitch", Now.at, "")>>, <<>>)
    /\ UNCHANGED <<body, defer_stack_, loop_id_stack_, loop_has_continue_,
                   emitting, errors, phase, program>>

(* A loop: pushed on the loop stacks, start label and condition; the end   *)
(* of the loop is emitted after the body.                                  *)
OpenLoop(id, first, iter, label_id, b) ==
    /\ id < MaxLoopIds
    /\ loop_id_stack_' = Append(loop_id_stack_, id)
    /\ loop_has_continue_' = Append(loop_has_continue_, FALSE)
    /\ Emit(Event(first) \o <<Label(id, "start"), C("unless", id, "end")>>,
            <<BlockTask(b, label_id), LoopEndTask(id, iter)>>)
    /\ UNCHANGED <<body, defer_stack_, emitting, errors, phase, program>>

emitWhile ==
    /\ EmittingStmt("while")
    /\ OpenLoop(Now.s.id, 0, Now.s.iter, Now.s.id, Now.s.body)

emitFor ==
    /\ EmittingStmt("for")
    /\ OpenLoop(Now.s.id, Now.s.n, 0, Now.s.id, Now.s.body)

(* A loop number beyond the table of loops: plat_abort. *)
LoopAborts ==
    /\ EmittingStmt("while") \/ EmittingStmt("for")
    /\ Now.s.id >= MaxLoopIds
    /\ phase' = "aborted"
    /\ UNCHANGED <<body, emitter, program>>

(* The end of a loop; its continue label is there only if it is used. *)
CloseLoop ==
    /\ Emitting("loopend")
    /\ Emit((IF Last(loop_has_continue_) THEN <<Label(Now.id, "continue")>> ELSE <<>>)
              \o Event(Now.iter) \o <<Goto(Now.id, "start"), Label(Now.id, "end")>>, <<>>)
    /\ loop_id_stack_' = Front(loop_id_stack_)
    /\ loop_has_continue_' = Front(loop_has_continue_)
    /\ UNCHANGED <<body, defer_stack_, emitting, errors, phase, program>>

emitBreak ==
    /\ EmittingStmt("break")
    /\ Emit(<<>>, <<FromInnermost(Now.s.to), CodeTask(Goto(Now.s.to, "end"))>>)
    /\ UNCHANGED <<body, defer_stack_, loop_id_stack_, loop_has_continue_,
                   emitting, errors, phase, program>>

MarkContinue(mark) ==
    /\ EmittingStmt("continue")
    /\ loop_has_continue_' = [i \in DOMAIN loop_has_continue_ |->
           loop_has_continue_[i] \/ i \in mark]
    /\ Emit(<<>>, <<FromInnermost(Now.s.to), CodeTask(Goto(Now.s.to, "continue"))>>)
    /\ UNCHANGED <<body, defer_stack_, loop_id_stack_, emitting, errors, phase, program>>

(* Mutant: the innermost loop is marked, whatever the target. *)
emitContinueInnermost == MarkContinue({Len(loop_id_stack_)})

emitContinue ==
    MarkContinue({i \in DOMAIN loop_id_stack_ :
        /\ loop_id_stack_[i] = Now.s.to
        /\ \A j \in DOMAIN loop_id_stack_ : j > i => loop_id_stack_[j] # Now.s.to})

(* The value is computed, the flag set if it is an error, every scope of   *)
(* the function unwound, the value returned.                               *)
emitReturn ==
    /\ EmittingStmt("return")
    /\ Emit(Event(Now.s.n) \o <<C("value", 0, Now.s.val)>>
              \o (IF HasErrFlag THEN <<C("flag", 0, "")>> ELSE <<>>),
            <<FromInnermost(-1), CodeTask(C("return", 0, ""))>>)
    /\ UNCHANGED <<body, defer_stack_, loop_id_stack_, loop_has_continue_,
                   emitting, errors, phase, program>>

-----------------------------------------------------------------------------
(* The function is emitted.  With errors there is no output; otherwise a C *)
(* compiler (not part of this repository) takes it, if each label is       *)
(* defined once and each goto has a label.                                 *)
At(c) == {i \in DOMAIN out : out[i] = c}
GoodLabels ==
    /\ \A i, j \in DOMAIN out : out[i].op = "label" /\ out[i] = out[j] => i = j
    /\ \A i \in DOMAIN out : out[i].op = "goto" => At(Label(out[i].n, out[i].at)) # {}

Compile ==
    /\ phase = "emit" /\ todo = <<>>
    /\ phase' = IF errors THEN "rejected" ELSE IF GoodLabels THEN "run" ELSE "c_error"
    /\ UNCHANGED <<body, emitter, program>>

(* The C program's steps. *)
Pos(c) == CHOOSE i \in At(c) : TRUE
Instr == out[pc]
Running(ops) == phase = "run" /\ pc \in DOMAIN out /\ Instr.op \in ops
Jump(to) == pc' = to /\ UNCHANGED <<body, emitter, phase, trace, return_val, err_occurred>>
(* A condition whose outcome the model leaves open. *)
Choose(x) == /\ x # 0 => Len(choices) < MaxChoices
             /\ choices' = Append(choices, x)

RunStraight ==
    /\ Running({"label", "endif", "endswitch"})
    /\ Jump(pc + 1) /\ UNCHANGED choices

RunEvent ==
    /\ Running({"event"})
    /\ trace' = Append(trace, Instr.n) /\ pc' = pc + 1
    /\ UNCHANGED <<body, emitter, phase, choices, return_val, err_occurred>>

RunJump ==
    /\ \/ Running({"goto"}) /\ Jump(Pos(Label(Instr.n, Instr.at)))
       \/ Running({"else"}) /\ Jump(Pos(C("endif", Instr.n, "")))
       \/ Running({"break"}) /\ Jump(Pos(C("endswitch", Instr.n, "")))
    /\ UNCHANGED choices

RunIf ==
    /\ Running({"if", "unless"})
    /\ \/ Choose(1) /\ Jump(pc + 1)
       \/ Choose(0) /\ Jump(IF Instr.op = "unless" THEN Pos(Label(Instr.n, "end"))
                            ELSE IF At(C("else", Instr.n, "")) # {}
                            THEN Pos(C("else", Instr.n, "")) + 1
                            ELSE Pos(C("endif", Instr.n, "")))

RunIfErr ==
    /\ Running({"iferr"})
    /\ Jump(IF err_occurred THEN pc + 1 ELSE Pos(C("endif", Instr.n, "")))
    /\ UNCHANGED choices

RunSwitch ==
    /\ Running({"switch"})
    /\ LET cases == {out[i].j : i \in {k \in DOMAIN out :
                        out[k].op = "case" /\ out[k].n = Instr.n}}
       IN  \E i \in cases \cup {Instr.j} :
             /\ choices' = Append(choices, i)
             /\ Jump(IF i = 0 THEN Pos(C("endswitch", Instr.n, ""))
                              ELSE Pos(Prongs("case", Instr.n, i)) + 1)

RunReturnValue ==
    /\ Running({"value"})
    /\ \/ Instr.at # "any" /\ return_val' = Instr.at /\ UNCHANGED choices
       \/ Instr.at = "any" /\ Choose(0) /\ return_val' = "ok"
       \/ Instr.at = "any" /\ Choose(1) /\ return_val' = "err"
    /\ pc' = pc + 1
    /\ UNCHANGED <<body, emitter, phase, trace, err_occurred>>

RunFlag ==
    /\ Running({"flag"})
    /\ err_occurred' = (err_occurred \/ return_val = "err") /\ pc' = pc + 1
    /\ UNCHANGED <<body, emitter, phase, trace, choices, return_val>>

(* return, the implicit one at the end included, and the panic. *)
RunEnd ==
    /\ phase = "run"
    /\ \/ Running({"return"}) /\ phase' = "returned"
       \/ pc > Len(out) /\ phase' = "returned"
       \/ Running({"panic"}) /\ phase' = "panicked"
    /\ UNCHANGED <<body, emitter, program>>

-----------------------------------------------------------------------------
(* emitFunction: the stacks are empty, the body is one block. *)
Init ==
    /\ body \in Functions
    /\ todo = <<BlockTask(body, -1)>> /\ out = <<>>
    /\ defer_stack_ = <<>> /\ loop_id_stack_ = <<>> /\ loop_has_continue_ = <<>>
    /\ emitting = <<>> /\ errors = FALSE /\ phase = "validate"
    /\ pc = 1 /\ trace = <<>> /\ choices = <<>>
    /\ return_val = "ok" /\ err_occurred = FALSE

EmitStep ==
    \/ emitBlock \/ CollectDefer \/ BlockStatement \/ BlockFallsThrough
    \/ CloseBlock \/ EmitDeferred \/ EmitDeferredAgain \/ LeaveDeferred \/ EmitCode
    \/ emitDefersForScopeExit \/ UnwindDone \/ EmitErrDefers
    \/ EmitSimple \/ lowerTryExpr \/ emitIf \/ emitSwitch \/ emitProngs
    \/ emitWhile \/ emitFor \/ LoopAborts \/ CloseLoop
    \/ emitBreak \/ emitContinue \/ emitReturn

RunStep ==
    \/ RunStraight \/ RunEvent \/ RunJump \/ RunIf \/ RunIfErr
    \/ RunSwitch \/ RunReturnValue \/ RunFlag \/ RunEnd

Ended == phase \in {"aborted", "rejected", "diverged", "c_error", "returned", "panicked"}
Stop == Ended /\ UNCHANGED vars

Next == Validate \/ EmitStep \/ Compile \/ RunStep \/ Stop

Spec == Init /\ [][Next]_vars

-----------------------------------------------------------------------------
(* No loop and no try is in a deferred statement of the block b. *)
DefersIn(b) == {d \in UNION {Inside[s] : s \in Range(b)} : Deferred(d)}
LoopsIn(d) == {u \in Inside[d] : Loop(u)}
TriesIn(d) == {u \in Inside[d] : u.k = "try"}
PlainDefers(b) == \A d \in DefersIn(b) : LoopsIn(d) = {} /\ TriesIn(d) = {}

TypeOK ==
    /\ \A i \in DOMAIN defer_stack_ : defer_stack_[i].label_id \in -1..MaxLoopIds
    /\ loop_id_stack_ \in Seq(0..MaxLoopIds)
    /\ Len(loop_has_continue_) = Len(loop_id_stack_)
    /\ pc \in 1..Len(out) + 1
    /\ trace \in Seq(Nat) /\ choices \in Seq(Nat)
    /\ return_val \in {"ok", "err"} /\ err_occurred \in BOOLEAN

(* C89_Codegen.md, "Loop Labeling Scheme": a loop's labels carry a number  *)
(* of its own, so that each is defined once, and every goto that break,    *)
(* continue or a loop's end emits has its label, the conditional continue  *)
(* label included.                                                         *)
LabelsResolve == phase # "c_error"

(* When a break or continue is emitted, its loop is among the open scopes, *)
(* so that the unwinding stops there, and among the open loops.            *)
JumpsStayInside ==
    phase = "emit" /\ todo # <<>> /\ Now.t = "stmt" /\ Now.s.k \in {"break", "continue"} =>
        /\ \E i \in DOMAIN defer_stack_ : defer_stack_[i].label_id = Now.s.to
        /\ \E i \in DOMAIN loop_id_stack_ : loop_id_stack_[i] = Now.s.to

(* The two places that know the limit of deferred statements in a scope    *)
(* agree: after the validator has passed a function, the emitter's own     *)
(* check (ERR_TOO_MANY_DEFERS halfway through the output) never fires.     *)
EmitterLimitUnreached == ~errors

(* The C code and the emitter's stacks fit together, if no deferred        *)
(* statement holds a loop or a try.                                        *)
CodeWellFormed == PlainDefers(body) => TypeOK /\ LabelsResolve /\ JumpsStayInside

(* The emission of a function that was let through never comes to a        *)
(* deferred statement while it emits that statement, and meets no error,   *)
(* if no deferred statement holds a loop or a try.                         *)
EmissionCompletes == PlainDefers(body) => phase # "diverged" /\ EmitterLimitUnreached

(* What becomes of the other bodies, which are let through as well.  Once  *)
(* the emission comes to a try in a deferred statement it has no end: the  *)
(* return that lowerTryExpr put there unwinds the scopes that hold the     *)
(* statement (emitDefersForScopeExit).  Nothing else keeps it from ending, *)
(* and the C code is wrong only where the labels of a deferred loop were   *)
(* emitted twice.  Other ways to fail, the limit among them, there are not.*)
DeferredLoopsAndTries ==
    LET tries == UNION {TriesIn(d) : d \in DefersIn(body)}
        loops == UNION {LoopsIn(d) : d \in DefersIn(body)}
    IN  /\ phase = "diverged" => \E u \in tries : At(C("event", u.n, "")) # {}
        /\ phase \in {"run", "c_error"} => \A u \in tries : At(C("event", u.n, "")) = {}
        /\ phase = "c_error" => \E u \in loops : Cardinality(At(Label(u.id, "start"))) > 1
        /\ EmitterLimitUnreached
=============================================================================
