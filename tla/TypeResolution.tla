--------------------------- MODULE TypeResolution ---------------------------
(***************************************************************************)
(* How the named aggregate types of a module get their layouts             *)
(* (src/bootstrap/type_checker.cpp, type_system.cpp and the phases 0, 0.5  *)
(* and 2 of CompilationUnit::performFullPipeline).                         *)
(*                                                                         *)
(* A module is a sequence of declarations  const T = struct|union {...}.   *)
(* Every declaration first gets a placeholder (registerPlaceholders).      *)
(* Phase 0.5 tries each one once, in order; type checking then visits the  *)
(* declarations again, retries the deferred ones up to MaxPasses times,    *)
(* forces an error out of those still deferred, and visits all of them a   *)
(* last time.  A placeholder is turned into the aggregate in place; types  *)
(* built from it while it was a placeholder (its dependents) have to be    *)
(* given their layout afterwards.                                          *)
(*                                                                         *)
(* A field's type is a primitive, a declared type by value, or a pointer,  *)
(* slice, optional or array of a declared type.  A layout is a record of a *)
(* size and an alignment in bytes.  A type object built from a declared    *)
(* type is identified by <<kind, base, d, f>>: the field it was created    *)
(* for, or 0, 0 when its base was complete and the interner shares it.     *)
(***************************************************************************)
EXTENDS Integers, Sequences, FiniteSets, SequencesExt

CONSTANTS
    Programs,       \* sequences of [kind, fields], fields of [kind, of]
    MaxPasses       \* MAX_PASSES of TypeChecker::check

FieldTypes ==
    [kind : {"u8", "i32", "val", "ptr", "slice", "opt", "arr"}, of : Nat]

(* A field that is not of a primitive type refers to a declaration. *)
ASSUME TypeResolutionConstants ==
    /\ MaxPasses \in Nat \ {0}
    /\ \A p \in Programs :
           /\ p \in Seq([kind : {"struct", "union"}, fields : Seq(FieldTypes)])
           /\ \A d \in DOMAIN p : \A f \in DOMAIN p[d].fields :
                  p[d].fields[f].kind \notin {"u8", "i32"} => p[d].fields[f].of \in DOMAIN p

VARIABLES
    prog,       \* the declarations (never change)
    named,      \* per declaration: [done, size, align]; ~done = placeholder
    anon,       \* per declaration: the unnamed aggregate its initializer
                \* was resolved to by a retry, or ~done
    node,       \* per declaration and field: the type object, or NoType
    comp,       \* layouts of the type objects built from declared types
    deps,       \* per declaration: the placeholder's dependents, in order
    deferred,   \* deferred_decls_ of the type checker
    to_retry,   \* what is left of the current retry pass
    passes,     \* retry passes started
    pos,        \* the declaration the current loop is at
    phase,      \* "named", "pass1", "retry", "forced", "pass2", "verify",
                \* "accepted" or "rejected"
    errors      \* "none", "type" (reported in the program's terms) or
                \* "internal" (unresolved placeholder)

vars == <<prog, named, anon, node, comp, deps, deferred, to_retry, passes,
          pos, phase, errors>>
types == <<named, anon, node, comp, deps>>

-----------------------------------------------------------------------------
Decls == DOMAIN prog
Fields(d) == prog[d].fields
NoType == <<>>
Placeholder == [done |-> FALSE, size |-> 0, align |-> 0]
L(size, align) == [size |-> size, align |-> align]
(* Op(v), with v evaluated once. *)
Strict(Op(_), v) == CHOOSE r \in {Op(s) : s \in {v}} : TRUE

Max2(a, b) == IF a >= b THEN a ELSE b
RoundUp(n, align) == ((n + align - 1) \div align) * align

IsPrim(t) == t.kind \in {"u8", "i32"}
PrimLayout(t) == IF t.kind = "u8" THEN L(1, 1) ELSE L(4, 4)
Composite(t) == t.kind \in {"ptr", "slice", "opt", "arr"}

(* Layout of a pointer, slice, optional or array of two, on a complete     *)
(* base (createOptionalType and updateOptionalLayout agree).               *)
LayoutOver(kind, base) ==
    CASE kind = "ptr"   -> L(4, 4)
      [] kind = "slice" -> L(8, 4)
      [] kind = "arr"   -> L(2 * base.size, base.align)
      [] kind = "opt"   ->
           LET al == Max2(base.align, 4)
           IN  L(RoundUp(RoundUp(base.size, 4) + 4, al), al)

(* The layout a type object is created with. *)
CreatedLayout(kind, base) ==
    IF base.done \/ kind \in {"ptr", "slice"} THEN LayoutOver(kind, base)
    ELSE L(0, 0)

(* Space for one more field of layout l in a struct, or in a union. *)
Put(kind, acc, l) ==
    LET align == Max2(l.align, 1)
    IN  IF kind = "struct"
          THEN L(RoundUp(acc.size, align) + l.size, Max2(acc.align, align))
          ELSE L(Max2(acc.size, l.size), Max2(acc.align, l.align))

(* The space of the fields together. *)
Space(kind, ls) ==
    LET Upto[f \in 0..Len(ls)] ==
            IF f = 0 THEN L(0, 1)
            ELSE Strict(LAMBDA acc : Put(kind, acc, ls[f]), Upto[f - 1])
    IN  Upto[Len(ls)]

(* calculateStructLayout: the layout of an aggregate of kind "struct" or   *)
(* "union" over the layouts of its fields.                                 *)
calculateStructLayout(kind, ls) ==
    LET all == Space(kind, ls)
    IN  [done |-> TRUE, size |-> RoundUp(all.size, all.align), align |-> all.align]

(* The current layout of a field's type. *)
FieldLayout(d, f, nm, nd, cp) ==
    LET t == Fields(d)[f]
    IN  IF IsPrim(t) THEN PrimLayout(t)
        ELSE IF t.kind = "val" THEN L(nm[t.of].size, nm[t.of].align)
        ELSE cp[nd[d][f]]

AggregateLayout(d, nm, nd, cp) ==
    calculateStructLayout(prog[d].kind,
        [f \in DOMAIN Fields(d) |-> FieldLayout(d, f, nm, nd, cp)])

-----------------------------------------------------------------------------
(* isTypeComplete of a field's type: pointers, slices and optionals always *)
(* are.                                                                    *)
isTypeComplete(t) ==
    \/ IsPrim(t)
    \/ t.kind \in {"ptr", "slice", "opt"}
    \/ t.kind \in {"val", "arr"} /\ named[t.of].done

(* The first field the visitor stops at, 0 when there is none. *)
Stop(d) ==
    LET bad == {f \in DOMAIN Fields(d) : ~isTypeComplete(Fields(d)[f])}
    IN  IF bad = {} THEN 0 ELSE CHOOSE f \in bad : \A g \in bad : f <= g

(* The type objects the fields visited so far create: interned ones are    *)
(* shared, the others become dependents of their base (registerDependent). *)
Visited(d) == IF Stop(d) = 0 THEN DOMAIN Fields(d) ELSE 1..Stop(d)
ObjectOf(d, f) ==
    LET t == Fields(d)[f]
    IN  IF named[t.of].done THEN <<t.kind, t.of, 0, 0>>
                            ELSE <<t.kind, t.of, d, f>>
Fresh(d) == {f \in Visited(d) : Composite(Fields(d)[f]) /\ node[d][f] = NoType}

(* What becomes dependent on another declaration, for the fields fs. *)
Registered(d, fs) ==
    LET Upto[f \in 0..Len(Fields(d))] ==
            IF f = 0 THEN <<>>
            ELSE IF f \in fs THEN Append(Upto[f - 1], ObjectOf(d, f)) ELSE Upto[f - 1]
    IN  Upto[Len(Fields(d))]

(* The fields of d visited up to the first incomplete one: the type nodes, *)
(* the type objects and the dependents afterwards.                         *)
VisitFields(d) ==
    LET After(fresh) ==
          [nd |-> [node EXCEPT ![d] = [f \in DOMAIN @ |->
                     IF f \in fresh THEN ObjectOf(d, f) ELSE @[f]]],
           cp |-> LET new == {ObjectOf(d, f) : f \in fresh} \ DOMAIN comp
                  IN  [o \in DOMAIN comp \cup new |->
                         IF o \in DOMAIN comp THEN comp[o]
                         ELSE CreatedLayout(o[1], named[o[2]])],
           ds |-> [b \in Decls |-> IF named[b].done THEN deps[b] ELSE
                     deps[b] \o Registered(d, {f \in fresh : Fields(d)[f].of = b})]]
    IN  Strict(After, Fresh(d))

-----------------------------------------------------------------------------
(* The types that x is made of, in order; a declared type d appears as     *)
(* Named(d), a primitive as NoType.                                        *)
Named(d) == <<"named", d, 0, 0>>
NeededBy(x, nd) ==
    LET d == x[2]
    IN  IF x[1] # "named" THEN <<Named(d)>>
        ELSE [f \in DOMAIN Fields(d) |->
                IF IsPrim(Fields(d)[f]) THEN NoType
                ELSE IF Fields(d)[f].kind = "val" THEN Named(Fields(d)[f].of)
                ELSE nd[d][f]]

(* refreshLayout(x): x and what it is made of, in the order in which they  *)
(* are recomputed; p[2] holds the types with is_resolving set, which cut   *)
(* the recursion.  A primitive or a placeholder is left alone.             *)
RefreshOrder(x, st) ==
    LET objects == DOMAIN st.cp \cup {Named(d) : d \in Decls} \cup {NoType}
        LeftAlone(y) == y = NoType \/ (y[1] = "named" /\ ~st.nm[y[2]].done)
        Order[p \in objects \X SUBSET objects] ==
            IF p[1] \in p[2] \/ LeftAlone(p[1])
              THEN <<>>
              ELSE LET parts == NeededBy(p[1], st.nd)
                   IN  Append(FlattenSeq([k \in DOMAIN parts |->
                                 Order[<<parts[k], p[2] \cup {p[1]}>>]]), p[1])
    IN  Order[<<x, {}>>]

(* Recomputing one of them; an object over a placeholder is left alone. *)
Recompute(st, x) ==
    IF x[1] = "named"
      THEN [st EXCEPT !.nm[x[2]] = AggregateLayout(x[2], st.nm, st.nd, st.cp)]
      ELSE [st EXCEPT !.cp[x] = IF st.nm[x[2]].done
                                  THEN LayoutOver(x[1], st.nm[x[2]]) ELSE @]

RecomputeAll(st, xs) ==
    LET Run[k \in 0..Len(xs)] ==
            IF k = 0 THEN st ELSE Strict(LAMBDA s : Recompute(s, xs[k]), Run[k - 1])
    IN  Run[Len(xs)]

refreshLayout(st, x) == Strict(LAMBDA xs : RecomputeAll(st, xs), RefreshOrder(x, st))

(* Mutant: the dependents are not told. *)
finalizeForgettingDependents(d, st) == st

(* finalizePlaceholder: the dependents captured so far (st.ds) are         *)
(* refreshed once.                                                         *)
finalizePlaceholder(d, st) ==
    LET Told[k \in 0..Len(st.ds)] ==
            IF k = 0 THEN st ELSE Strict(LAMBDA s : refreshLayout(s, st.ds[k]), Told[k - 1])
    IN  Told[Len(st.ds)]

-----------------------------------------------------------------------------
(* visitStructDecl / visitUnionDecl with all fields complete: the layout   *)
(* of the new aggregate, v being what VisitFields found.                   *)
NewLayout(d, v) == AggregateLayout(d, named, v.nd, v.cp)

(* An incomplete field: the cycle is seen at once only when the field is   *)
(* the very type being resolved; a union reports an error, a struct defers *)
(* (or, when forced, reports).                                             *)
SelfByValue(d) == Fields(d)[Stop(d)] = [kind |-> "val", of |-> d]

(* The layouts once the placeholder of d has been replaced, as st says:    *)
(* sizes and alignments are computed anew, the kinds stay.                 *)
Finalize(d, st) ==
    \E new \in {Strict(LAMBDA s : finalizePlaceholder(d, s), st)} :
        /\ named' = [e \in Decls |-> [done |-> st.nm[e].done,
                        size |-> new.nm[e].size, align |-> new.nm[e].align]]
        /\ comp' = new.cp

Report == errors' = IF errors = "none" THEN "type" ELSE errors

-----------------------------------------------------------------------------
(* Mutant: the first attempt reports what it should leave for later. *)
ResolveNamedReports ==
    /\ phase = "named" /\ pos <= Len(prog)
    /\ \E v \in {VisitFields(pos)} :
         /\ node' = v.nd /\ deps' = v.ds
         /\ IF Stop(pos) = 0
              THEN /\ Finalize(pos, [nm |-> [named EXCEPT ![pos] = NewLayout(pos, v)],
                                     nd |-> v.nd, cp |-> v.cp, ds |-> v.ds[pos]])
                   /\ UNCHANGED errors
              ELSE comp' = v.cp /\ Report /\ UNCHANGED named
    /\ pos' = pos + 1
    /\ UNCHANGED <<prog, anon, deferred, to_retry, passes, phase>>

(* Phase 0.5: resolveNamedPlaceholder on declaration pos.  A deferral is   *)
(* forgotten: the checker of this phase is thrown away.                    *)
ResolveNamed ==
    /\ phase = "named" /\ pos <= Len(prog)
    /\ \E v \in {VisitFields(pos)} :
         /\ node' = v.nd /\ deps' = v.ds
         /\ IF Stop(pos) = 0
              THEN /\ Finalize(pos, [nm |-> [named EXCEPT ![pos] = NewLayout(pos, v)],
                                     nd |-> v.nd, cp |-> v.cp, ds |-> v.ds[pos]])
                   /\ UNCHANGED errors
              ELSE /\ comp' = v.cp
                   /\ IF SelfByValue(pos) \/ prog[pos].kind = "union"
                        THEN Report ELSE UNCHANGED errors
                   /\ UNCHANGED named
    /\ pos' = pos + 1
    /\ UNCHANGED <<prog, anon, deferred, to_retry, passes, phase>>

NamedDone ==
    /\ phase = "named" /\ pos > Len(prog)
    /\ phase' = "pass1" /\ pos' = 1
    /\ UNCHANGED <<prog, types, deferred, to_retry, passes, errors>>

(* visitVarDecl on a declaration that is still a placeholder and whose     *)
(* initializer has no concrete type yet.  The aggregate replaces the       *)
(* placeholder in place, and finalizePlaceholder is not called: the        *)
(* initializer's type is the placeholder itself.                           *)
VisitPlaceholder(d) ==
    \E v \in {VisitFields(d)} :
      /\ node' = v.nd /\ deps' = v.ds /\ comp' = v.cp
      /\ IF Stop(d) = 0
           THEN /\ named' = [named EXCEPT ![d] = NewLayout(d, v)]
                /\ UNCHANGED <<deferred, errors>>
           ELSE /\ UNCHANGED named
                /\ IF prog[d].kind = "union"
                     THEN Report /\ UNCHANGED deferred
                     ELSE deferred' = Append(deferred, d) /\ UNCHANGED errors

(* check(), pass 1: visit the declarations in order. *)
Pass1 ==
    /\ phase = "pass1" /\ pos <= Len(prog)
    /\ IF named[pos].done
         THEN UNCHANGED <<named, node, comp, deps, deferred, errors>>
         ELSE VisitPlaceholder(pos)
    /\ pos' = pos + 1
    /\ UNCHANGED <<prog, anon, to_retry, passes, phase>>

Pass1Done ==
    /\ phase = "pass1" /\ pos > Len(prog)
    /\ phase' = "retry"
    /\ UNCHANGED <<prog, types, deferred, to_retry, passes, pos, errors>>

(* Mutant: the passes are not counted. *)
RetryPassUncounted ==
    /\ phase = "retry" /\ to_retry = <<>>
    /\ deferred # <<>> /\ passes < MaxPasses
    /\ to_retry' = deferred /\ deferred' = <<>>
    /\ UNCHANGED <<prog, types, passes, pos, phase, errors>>

(* The retry loop: a pass takes the deferred declarations... *)
RetryPass ==
    /\ phase = "retry" /\ to_retry = <<>>
    /\ deferred # <<>> /\ passes < MaxPasses
    /\ to_retry' = deferred /\ deferred' = <<>>
    /\ passes' = passes + 1
    /\ UNCHANGED <<prog, types, pos, phase, errors>>

(* ... and visits each one's initializer.  The declaration's name is not   *)
(* known here, so a struct that is complete now becomes an unnamed type,   *)
(* left in the initializer; the placeholder stays.                         *)
Retry ==
    /\ phase = "retry" /\ to_retry # <<>>
    /\ LET d == Head(to_retry)
       IN  IF anon[d].done
             THEN UNCHANGED <<node, deps, comp, anon, deferred>>
             ELSE \E v \in {VisitFields(d)} :
                  /\ node' = v.nd /\ deps' = v.ds /\ comp' = v.cp
                  /\ IF Stop(d) = 0
                       THEN /\ anon' = [anon EXCEPT ![d] = NewLayout(d, v)]
                            /\ UNCHANGED deferred
                       ELSE /\ deferred' = Append(deferred, d)
                            /\ UNCHANGED anon
    /\ to_retry' = Tail(to_retry)
    /\ UNCHANGED <<prog, named, passes, pos, phase, errors>>

RetryDone ==
    /\ phase = "retry" /\ to_retry = <<>>
    /\ deferred = <<>> \/ passes = MaxPasses
    /\ phase' = "forced"
    /\ UNCHANGED <<prog, types, deferred, to_retry, passes, pos, errors>>

(* Mutant: what is still deferred is dropped. *)
ForcedSilently ==
    /\ phase = "forced" /\ phase' = "pass2" /\ pos' = 1
    /\ UNCHANGED <<prog, types, deferred, to_retry, passes, errors>>

(* What is still deferred is visited once more, to report its error. *)
Forced ==
    /\ phase = "forced"
    /\ IF \E k \in DOMAIN deferred : Stop(deferred[k]) # 0
         THEN Report ELSE UNCHANGED errors
    /\ phase' = "pass2" /\ pos' = 1
    /\ UNCHANGED <<prog, types, deferred, to_retry, passes>>

(* check(), pass 2: a placeholder whose initializer was resolved by a      *)
(* retry is finalized with that type; the others are visited again.        *)
Pass2 ==
    /\ phase = "pass2" /\ pos <= Len(prog)
    /\ IF named[pos].done
         THEN UNCHANGED <<named, node, comp, deps, deferred, errors>>
         ELSE IF anon[pos].done
         THEN /\ Finalize(pos, [nm |-> [named EXCEPT ![pos] = anon[pos]],
                                 nd |-> node, cp |-> comp, ds |-> deps[pos]])
              /\ UNCHANGED <<node, deps, deferred, errors>>
         ELSE VisitPlaceholder(pos)
    /\ pos' = pos + 1
    /\ UNCHANGED <<prog, anon, to_retry, passes, phase>>

(* Mutant: only the placeholders are looked at, not the errors reported. *)
VerifyPlaceholdersOnly ==
    /\ phase = "pass2" /\ pos > Len(prog)
    /\ errors' = IF errors = "none" /\ \E d \in Decls : ~named[d].done
                   THEN "internal" ELSE errors
    /\ phase' = IF errors' = "internal" THEN "rejected" ELSE "accepted"
    /\ UNCHANGED <<prog, types, deferred, to_retry, passes, pos>>

(* hasErrors, then verifyNoPlaceholders. *)
Verify ==
    /\ phase = "pass2" /\ pos > Len(prog)
    /\ errors' = IF errors = "none" /\ \E d \in Decls : ~named[d].done
                   THEN "internal" ELSE errors
    /\ phase' = IF errors' = "none" THEN "accepted" ELSE "rejected"
    /\ UNCHANGED <<prog, types, deferred, to_retry, passes, pos>>

Finished == phase \in {"accepted", "rejected"} /\ UNCHANGED vars

-----------------------------------------------------------------------------
(* registerPlaceholders has run on the module. *)
Init ==
    /\ prog \in Programs
    /\ named = [d \in Decls |-> Placeholder]
    /\ anon = [d \in Decls |-> Placeholder]
    /\ node = [d \in Decls |-> [f \in DOMAIN Fields(d) |-> NoType]]
    /\ comp = <<>>
    /\ deps = [d \in Decls |-> <<>>]
    /\ deferred = <<>> /\ to_retry = <<>> /\ passes = 0
    /\ pos = 1 /\ phase = "named" /\ errors = "none"

Step ==
    \/ ResolveNamed \/ NamedDone \/ Pass1 \/ Pass1Done
    \/ RetryPass \/ Retry \/ RetryDone \/ Forced \/ Pass2 \/ Verify

Next == Step \/ Finished

Spec == Init /\ [][Next]_vars

(* Type checking runs on one thread without waiting for anything. *)
FairSpec == Spec /\ WF_vars(Step)

-----------------------------------------------------------------------------
(* What the declarations mean, independent of any order: d needs the       *)
(* layout of t when it holds t by value, in an array or in an optional.    *)
Needs(d) == {Fields(d)[f].of : f \in {g \in DOMAIN Fields(d) :
                 Fields(d)[g].kind \in {"val", "arr", "opt"}}}
ByValue(d) == {Fields(d)[f].of : f \in {g \in DOMAIN Fields(d) :
                 Fields(d)[g].kind \in {"val", "arr"}}}

Closed(Rel(_), S) == \A e \in S : Rel(e) \subseteq S
Closure(Rel(_), d) ==
    {e \in Decls : \A S \in SUBSET Decls : Rel(d) \subseteq S /\ Closed(Rel, S) => e \in S}
Legal == \A d \in Decls : d \notin Closure(Needs, d)

(* The layouts of a legal module: the fixed point of AggregateLayout. *)
TrueLayouts ==
    LET Of(t, lay) == IF IsPrim(t) THEN PrimLayout(t)
                      ELSE IF t.kind = "val" THEN L(lay[t.of].size, lay[t.of].align)
                      ELSE LayoutOver(t.kind, lay[t.of])
        It[k \in 0..Len(prog)] ==
            IF k = 0 THEN [d \in Decls |-> [done |-> TRUE, size |-> 0, align |-> 1]]
            ELSE [d \in Decls |-> calculateStructLayout(prog[d].kind,
                    [f \in DOMAIN Fields(d) |-> Of(Fields(d)[f], It[k - 1])])]
    IN  It[Len(prog)]

Exact == \A d \in Decls : named[d] = TrueLayouts[d]

(* Declarations all of whose by-value needs, transitively, come earlier. *)
Early(d) == \A e \in {d} \cup Closure(Needs, d) : \A t \in Needs(e) : t < e

TypeOK ==
    /\ \A d \in Decls :
           /\ named[d] \in [done : BOOLEAN, size : Nat, align : Nat]
           /\ anon[d] \in [done : BOOLEAN, size : Nat, align : Nat]
           /\ \A f \in DOMAIN Fields(d) :
                  node[d][f] \in DOMAIN comp \cup {NoType}
           /\ \A k \in DOMAIN deps[d] : deps[d][k] \in DOMAIN comp
    /\ deferred \in Seq(Decls) /\ to_retry \in Seq(Decls)
    /\ passes \in 0..MaxPasses /\ pos \in 1..Len(prog) + 1
    /\ errors \in {"none", "type", "internal"}

(* A module is accepted only when no type contains itself by value or as   *)
(* an array element, whatever the order of the declarations (semantics     *)
(* document, "Value-Dependency Cycle Detection").                          *)
ValueCyclesRejected ==
    phase = "accepted" => \A d \in Decls : d \notin Closure(ByValue, d)

(* verifyNoPlaceholders never has to fire: whenever a type could not be    *)
(* completed, one of the visits has reported it.                           *)
NoInternalError == errors # "internal"

(* What the scheme guarantees.  When every by-value need is an earlier     *)
(* declaration, or, for the fields and array elements of a struct, a later *)
(* one that itself needs only earlier ones, the module is accepted and all *)
(* its layouts are right: placeholders, pointer cycles, one level of       *)
(* forward references and the arrays refreshed in phase 0.5 included.      *)
OneForwardStep ==
    \A d \in Decls : \A f \in DOMAIN Fields(d) :
        LET t == Fields(d)[f] IN
            \/ t.kind \in {"u8", "i32", "ptr", "slice"}
            \/ t.of < d /\ Early(t.of)
            \/ t.kind \in {"val", "arr"} /\ prog[d].kind = "struct" /\ Early(t.of)
OneForwardStepExact ==
    phase \in {"accepted", "rejected"} /\ OneForwardStep /\ Legal =>
        phase = "accepted" /\ Exact

(* finalizePlaceholder in phase 0.5: in a module without optionals, when   *)
(* the phase ends every array of a completed type has the layout that type *)
(* gives it, although it was created over a placeholder, and every         *)
(* completed type has the layout its fields give it.                       *)
LayoutsRefreshed ==
    phase = "pass1" /\ pos = 1 /\ (\A o \in DOMAIN comp : o[1] # "opt") =>
        /\ \A o \in DOMAIN comp :
              named[o[2]].done => comp[o] = LayoutOver(o[1], named[o[2]])
        /\ \A d \in Decls :
              named[d].done => named[d] = AggregateLayout(d, named, node, comp)

(* Type checking of a module comes to an end, by-value cycles included. *)
CheckTerminates == <>(phase \in {"accepted", "rejected"})

(* The resolver's state is well formed and holds no array that phase 0.5   *)
(* forgot.                                                                 *)
LayoutInv == TypeOK /\ LayoutsRefreshed
=============================================================================
