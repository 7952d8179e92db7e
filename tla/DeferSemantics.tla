--------------------------- MODULE DeferSemantics ---------------------------
(***************************************************************************)
(* What a function body with defers means (Language_Spec_Z98.md, "defer"   *)
(* and "errdefer"; C89_Codegen.md, "ErrDefer Statements"), independent of  *)
(* how it is compiled, and what DeferCodegen promises about it.            *)
(*                                                                         *)
(* RunBlock gives the events of a source program for the outcomes of its   *)
(* conditions.  A state of the evaluation holds the number of outcomes      *)
(* used, the events so far, how control is leaving ("next": it is not),    *)
(* the loop it is leaving for, whether an error is being returned, and the *)
(* deferred statements registered in the current scope.                    *)
(***************************************************************************)
EXTENDS DeferCodegen

Start == [used |-> 0, trace |-> <<>>, how |-> "next", to |-> -1,
          err |-> FALSE, defers |-> <<>>, errdefers |-> <<>>]

Happens(st, n) == IF n = 0 THEN st ELSE [st EXCEPT !.trace = Append(@, n)]
(* The outcome of the next condition. *)
Outcome(st) == IF st.used < Len(choices) THEN choices[st.used + 1] ELSE 0
Decide(st) == [st EXCEPT !.used = @ + 1]
Leave(st, how, to) == [st EXCEPT !.how = how, !.to = to]

RECURSIVE RunBlock(_, _), RunStmts(_, _), RunStmt(_, _), RunLoop(_, _), RunDeferred(_, _)

(* The deferred statements ds, last one first, whatever control is doing. *)
RunDeferred(ds, st) ==
    IF ds = <<>> THEN st
    ELSE RunDeferred(Front(ds),
           [RunBlock(Last(ds).body, Leave(st, "next", -1)) EXCEPT
               !.how = st.how, !.to = st.to, !.err = st.err])

(* A scope: its deferred statements run however it is left, except by a    *)
(* panic; its errdefers after them, when an error is being returned.       *)
RunBlock(b, st) ==
    LET in   == RunStmts(b, [st EXCEPT !.defers = <<>>, !.errdefers = <<>>])
        done == RunDeferred(in.defers, in)
        all  == IF in.how = "return" /\ in.err THEN RunDeferred(in.errdefers, done)
                ELSE done
    IN  [(IF in.how = "panic" THEN in ELSE all) EXCEPT
            !.defers = st.defers, !.errdefers = st.errdefers]

RunStmts(b, st) ==
    IF b = <<>> \/ st.how # "next" THEN st ELSE RunStmts(Tail(b), RunStmt(Head(b), st))

RunLoop(s, st) ==
    IF Outcome(st) = 0 THEN Decide(st)
    ELSE LET b == RunBlock(s.body, Decide(st))
             again == b.how = "next" \/ (b.how = "continue" /\ b.to = s.id)
             iter == IF s.k = "while" THEN s.iter ELSE 0
         IN  IF again THEN RunLoop(s, Happens(Leave(b, "next", -1), iter))
             ELSE IF b.how = "break" /\ b.to = s.id THEN Leave(b, "next", -1)
             ELSE b

RunStmt(s, st) ==
    LET c == Outcome(st)
    IN  CASE s.k = "act" -> Happens(st, s.n)
          [] s.k = "defer" -> [st EXCEPT !.defers = Append(@, s)]
          [] s.k = "errdefer" -> [st EXCEPT !.errdefers = Append(@, s)]
          [] s.k = "block" -> RunBlock(s.body, st)
          [] s.k = "if" -> IF c = 1 THEN RunBlock(s.then, Decide(st))
                           ELSE RunBlock(s.else, Decide(st))
          [] s.k = "switch" -> IF c \in DOMAIN s.prongs THEN RunBlock(s.prongs[c], Decide(st))
                               ELSE Decide(st)
          [] s.k = "while" -> RunLoop(s, st)
          [] s.k = "for" -> RunLoop(s, Happens(st, s.n))
          [] s.k = "break" -> Leave(st, "break", s.to)
          [] s.k = "continue" -> Leave(st, "continue", s.to)
          [] s.k = "unreachable" -> Leave(st, "panic", -1)
          [] s.k = "try" ->
               LET called == Happens(st, s.n)
               IN  IF c = 0 THEN Decide(called)
                   ELSE [Leave(Decide(called), "return", -1) EXCEPT !.err = TRUE]
          [] s.k = "return" ->
               LET v == Happens(st, s.n)
               IN  IF s.val = "any"
                     THEN [Leave(Decide(v), "return", -1) EXCEPT !.err = (c = 1)]
                     ELSE [Leave(v, "return", -1) EXCEPT !.err = (s.val = "err")]

-----------------------------------------------------------------------------
(* The compiled function does what the source says: when it has returned   *)
(* or panicked, its events are the source's for the same outcomes of its   *)
(* conditions.  Each defer has run once on every way out of its scope      *)
(* (emitDefersForScopeExit, emitBlock's natural exit), last one first and  *)
(* innermost scope first, errdefers only with an error, after the return   *)
(* value was computed, and all the outcomes were used.                     *)
CompiledAsWritten ==
    phase \in {"returned", "panicked"} =>
        LET src == RunBlock(body, Start)
        IN  /\ trace = src.trace
            /\ src.used = Len(choices)
            /\ phase = "panicked" <=> src.how = "panic"
            /\ src.how = "return" => (return_val = "err") = src.err
=============================================================================
