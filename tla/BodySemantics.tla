--------------------------- MODULE BodySemantics ----------------------------
(***************************************************************************)
(* What a function body does when it runs, independent of any analysis:    *)
(* all its executions, with the faults each of them commits.               *)
(*                                                                         *)
(* A machine m holds the value of every variable, the arena blocks that    *)
(* were freed or handed over, the faults so far ("deref": a dereference of *)
(* a valid pointer), how control is leaving ("next": it is not), whether   *)
(* an error is returned, the value returned, and the deferred statements   *)
(* of the current block.  Run gives the machines after a statement.        *)
(***************************************************************************)
EXTENDS FnBodies, SequencesExt, FiniteSets

CONSTANTS
    Names,          \* all variables
    Locals, Params, Pointers,
    MaxIterations   \* bound: rounds of a loop

Null == [k |-> "null"]
Undef == [k |-> "undef"]
Foreign == [k |-> "foreign"]            \* valid, not the function's
Object(n) == [k |-> "object", n |-> n]  \* the n-th arena block
VarAddr(x) == [k |-> "var", x |-> x]

Start(env) == [env |-> env, n |-> 0, freed |-> {}, moved |-> {}, faults |-> {},
               how |-> "next", err |-> FALSE, ret |-> Undef, defers |-> <<>>]
Starts == {Start([x \in Names |-> IF x \in Params THEN args[x] ELSE Undef]) :
             args \in [Params -> {Null, Foreign}]}

Fault(m, what, at) == [m EXCEPT !.faults = @ \cup {[what |-> what, at |-> at]}]
Set(m, x, v) == [m EXCEPT !.env[x] = v]
(* The block a variable holds that nobody has freed or taken over. *)
Holds(m, x) == /\ m.env[x].k = "object"
               /\ m.env[x].n \notin m.freed \cup m.moved
               /\ m.env[x] # m.ret
LoseOld(m, x) == IF Holds(m, x) THEN Fault(m, "leak", x) ELSE m

PointerTyped(e) == \/ e.k \in {"null", "call", "alloc", "addr", "slice", "cast"}
                   \/ e.k = "id" /\ e.x \in Pointers

(* The values of an expression, each with the machine after it. *)
RECURSIVE Eval(_, _), Place(_, _)
Eval(e, m) ==
    CASE e.k = "none" -> {[v |-> Undef, m |-> m]}
      [] e.k = "null" -> {[v |-> Null, m |-> m]}
      [] e.k = "call" -> {[v |-> w, m |-> m] : w \in {Null, Foreign}}
      [] e.k = "alloc" -> {[v |-> Object(m.n), m |-> [m EXCEPT !.n = @ + 1]]}
      [] e.k = "id" -> {[v |-> m.env[e.x], m |-> m]}
      [] e.k = "cast" -> Eval(e.e, m)
      [] e.k \in {"addr", "slice"} -> Place(e.e, m)
      [] e.k \in {"deref", "field"} -> {[r EXCEPT !.v = Foreign] : r \in Place(e, m)}

(* Where an expression is stored. *)
Place(e, m) ==
    CASE e.k = "id" /\ (e.x \notin Pointers) -> {[v |-> VarAddr(e.x), m |-> m]}
      [] e.k = "id" /\ (e.x \in Pointers) -> {[v |-> m.env[e.x], m |-> m]}
      [] e.k = "deref" -> {[r EXCEPT !.m = Fault(@, IF r.v = Null THEN "null" ELSE "deref", e.at)] :
                             r \in Eval(e.e, m)}
      [] e.k = "field" ->
           IF PointerTyped(e.e)       \* an offset from null is not null
             THEN {[r EXCEPT !.v = IF @ = Null THEN Foreign ELSE @] : r \in Eval(e.e, m)}
             ELSE Place(e.e, m)
      [] OTHER -> Eval(e, m)

(* The machines in which a condition holds, or does not. *)
CondIs(c, m, b) ==
    c.k = "cmp" => b = ((m.env[c.x] = Null) = c.isEqual)

RECURSIVE Run(_, _), RunSeq(_, _), RunLoop(_, _, _), RunDefers(_, _)

RunSeq(ss, m) ==
    IF ss = <<>> \/ m.how # "next" THEN {m}
    ELSE UNION {RunSeq(Tail(ss), r) : r \in Run(Head(ss), m)}

(* The deferred statements of a block that run when it is left, in the     *)
(* opposite order: first the defers, then, when an error is being          *)
(* returned, the errdefers (emitDefersForScopeExit).                       *)
Due(m) ==
    LET of(k) == SelectSeq(m.defers, LAMBDA d : d.k = k)
    IN  (IF m.how = "return" /\ m.err THEN of("errdefer") ELSE <<>>) \o of("defer")

(* They run the last one first, and cannot leave the block. *)
RunDefers(ds, m) ==
    IF ds = <<>> THEN {m}
    ELSE UNION {RunDefers(Front(ds), r) :
                  r \in {[q EXCEPT !.how = m.how] : q \in Run(Last(ds).s, [m EXCEPT !.how = "next"])}}

Declared(ss) == {ss[i].x : i \in {j \in DOMAIN ss : ss[j].k = "decl"}}

(* A block is left: its deferred statements run, what its variables alone  *)
(* hold is lost, and the outer variables of the same names are back.       *)
LeaveBlock(ss, outer, m) ==
    LET lose(r) == FoldLeft(LoseOld, r, SetToSeq(Declared(ss)))
    IN  {[r EXCEPT !.env = [x \in Names |-> IF x \in Declared(ss) THEN outer.env[x] ELSE @[x]],
                   !.defers = outer.defers] : r \in {lose(q) : q \in RunDefers(Due(m), m)}}

(* A loop is left when its condition is false, or when it has run often    *)
(* enough.                                                                 *)
RunLoop(s, m, left) ==
    LET starts == IF s.k = "for" THEN {Set(m, s.item, v) : v \in {Null, Foreign}}
                  ELSE IF CondIs(s.cond, m, TRUE) THEN {m} ELSE {}
        stops == m.how # "next" \/ left = 0
    IN  (IF stops \/ s.k = "for" \/ CondIs(s.cond, m, FALSE) THEN {m} ELSE {}) \cup
        (IF stops THEN {}
         ELSE UNION {RunLoop(s, r, left - 1) : r \in UNION {Run(s.body, i) : i \in starts}})

Run(s, m) ==
    CASE s.k = "none" -> {m}
      [] s.k = "decl" ->                        \* uninitialised: any value
           IF s.e = None THEN {Set(m, s.x, v) : v \in {Null, Foreign}}
           ELSE {Set(r.m, s.x, r.v) : r \in Eval(s.e, m)}
      [] s.k = "assign" ->
           IF s.lv.k = "deref" THEN {t.m : t \in UNION {Place(s.lv, r.m) : r \in Eval(s.e, m)}}
           ELSE {Set(LoseOld(r.m, s.lv.x), s.lv.x, r.v) : r \in Eval(s.e, m)}
      [] s.k = "compound" -> {LoseOld(m, s.x)}      \* still inside its block
      [] s.k = "use" -> {r.m : r \in Eval(s.e, m)}
      [] s.k = "free" ->
           LET v == m.env[s.x]
           IN  {IF v.k # "object" THEN m
                ELSE IF v.n \in m.freed THEN Fault(m, "double", s.at)
                ELSE [m EXCEPT !.freed = @ \cup {v.n}]}
      [] s.k = "transfer" ->
           {[m EXCEPT !.moved = @ \cup {i \in 0..(m.n - 1) : m.env[s.x] = Object(i)}]}
      [] s.k = "block" -> UNION {LeaveBlock(s.ss, m, r) :
                                   r \in RunSeq(s.ss, [m EXCEPT !.defers = <<>>])}
      [] s.k = "if" ->
           LET taken == IF s.cap = "" THEN m ELSE Set(m, s.cap, m.env[s.cond.x])
           IN  (IF CondIs(s.cond, m, TRUE) THEN Run(s.then, taken) ELSE {})
                 \cup (IF CondIs(s.cond, m, FALSE) THEN Run(s.else, m) ELSE {})
      [] s.k = "switch" -> UNION {Run(s.prongs[i], m) : i \in DOMAIN s.prongs}
      [] s.k \in {"while", "for"} -> RunLoop(s, m, MaxIterations)
      [] s.k = "return" ->
           {LET done == [r.m EXCEPT !.how = "return", !.err = s.err, !.ret = r.v]
            IN  IF r.v.k = "var" /\ r.v.x \in Locals THEN Fault(done, "dangling", s.at) ELSE done :
              r \in Eval(s.e, m)}
      [] s.k \in {"defer", "errdefer"} -> {[m EXCEPT !.defers = Append(@, s)]}

Executions(fn) == UNION {Run(fn, m) : m \in Starts}
Faults(fn) == UNION {m.faults : m \in Executions(fn)}
=============================================================================
