---------------------------- MODULE TypeEmitter ----------------------------
(***************************************************************************)
(* How the emitter writes C types: the order of the tokens that matter to  *)
(* a C compiler (src/src/bootstrap/codegen.cpp).                           *)
(*                                                                         *)
(* An emitter `e' writes one file.  While it defines a type it may be in   *)
(* the middle of another text, so the definitions of special types go to   *)
(* a buffer (mode = TRUE) that the backend empties at fixed places:        *)
(*     file, buf   the tokens written and buffered                         *)
(*     mode        in_type_def_mode_                                       *)
(*     header      is_header_                                              *)
(*     fwd, own    names forward declared and special types or enums       *)
(*                 defined by this emitter                                 *)
(*     cache       the names every emitter has defined (external_cache_)   *)
(*     slices      the slice types registered for zig_special_types.h      *)
(* A token is [k, t].  "ifndef" and "endif" enclose what a guard skips,    *)
(* "open" and "close" the body of a definition; "need" is a use of t that  *)
(* C accepts only once t is complete, "name" one that it accepts once t's  *)
(* typedef has been seen.                                                  *)
(***************************************************************************)
EXTENDS MetadataPreparation

Tok(k, t) == [k |-> k, t |-> t]

write(e, tok) == IF e.mode THEN [e EXCEPT !.buf = Append(@, tok)]
                 ELSE [e EXCEPT !.file = Append(@, tok)]

emitBufferedTypeDefinitions(e) == [e EXCEPT !.file = @ \o e.buf, !.buf = << >>]

Buffering(e) == [e EXCEPT !.mode = TRUE]

(* Writing a type may define others, and defining one writes the types of  *)
(* its fields: one recursion, over what is to be done with t.              *)
RECURSIVE emit(_, _, _, _), emitTypes(_, _, _, _)
emitTypes(p, e, ts, complete) ==
  IF ts = << >> THEN e
  ELSE emitTypes(p, emit(IF complete THEN "need" ELSE "name", p, e, Head(ts)),
                 Tail(ts), complete)

returnFirst(a) == << a[Len(a)] >> \o SubSeq(a, 1, Len(a) - 1)

(* C forward declares structs and unions; enums are defined instead.       *)
ensureForwardDeclaration(p, e, t) ==
  IF isEnum(p, t)
  THEN [emit("define", p, Buffering(e), t) EXCEPT !.mode = e.mode]
  ELSE IF ~IsNamed(t) \/ t \in e.fwd THEN e
  ELSE [write(Buffering([e EXCEPT !.fwd = @ \union {t}]), Tok("fwd", t))
          EXCEPT !.mode = e.mode]

Forwarded(t) == IF t.k = "tuple" THEN Prim ELSE t.a[1]

(* Mutant: headers trust the shared cache as well.                         *)
cachedAnywhere(e, t) == t \in e.own \/ t \in e.cache

(* A source file leaves out what any emitter has defined before; a header  *)
(* only what it has defined itself.                                        *)
cached(e, t) == t \in e.own \/ (~e.header /\ t \in e.cache)

registerSliceType(e, t) ==
  [e EXCEPT !.own = @ \union {t}, !.cache = @ \union {t},
            !.slices = IF t \in {@[i] : i \in DOMAIN @} THEN @ ELSE Append(@, t)]

(* Mutant: the definition is not enclosed in a guard.                      *)
unguardedBody(p, e, t, parts) ==
  write(emitTypes(p, write(e, Tok("open", t)), parts, TRUE), Tok("close", t))

guardedBody(p, e, t, parts) ==
  LET opened == write(write(e, Tok("ifndef", t)), Tok("open", t))
      body == emitTypes(p, opened, parts, TRUE)
  IN write(write(body, Tok("close", t)), Tok("endif", t))

ensureSpecialType(p, e, t) ==
  LET e1 == emit("forward", p, e, Forwarded(t))
  IN IF t.k = "slice" THEN IF t \in e1.own THEN e1 ELSE registerSliceType(e1, t)
     ELSE IF cached(e1, t) THEN e1
     ELSE [guardedBody(p, Buffering([e1 EXCEPT !.own = @ \union {t},
                                               !.cache = @ \union {t}]),
                       t, t.a)
             EXCEPT !.mode = e.mode]

(* Types named on the way are defined, if need be, in the buffer.          *)
emitType(p, e, t, complete) ==
  LET use == Tok(IF complete THEN "need" ELSE "name", t)
  IN CASE t.k = "prim" -> e
       [] t.k = "ptr" -> emitTypes(p, e, t.a, FALSE)
       [] t.k = "fn" -> emitTypes(p, e, returnFirst(t.a), FALSE)
       [] t.k = "arr" -> emitTypes(p, e, t.a, TRUE)
       [] t.k \in {"slice", "opt", "eu"} -> write(emit("special", p, e, t), use)
       [] t.k = "tuple" ->
            LET e1 == emit("special", p, e, t)
            IN IF complete THEN write(e1, use) ELSE e1
       [] t.k = "named" -> IF complete THEN write(e, use) ELSE e

(* A tagged union's tag is defined inside its guard and before its body.   *)
emitAggregateDefinition(p, e, t) ==
  LET guard == write(e, Tok("ifndef", t))
      tag == IF p.types[t.n].tag = "" THEN guard
             ELSE emit("define", p, guard, Named(p.types[t.n].tag))
      opened == write(emit("forward", p, tag, t), Tok("open", t))
      body == emitTypes(p, opened, Tag(p, t.n) \o p.types[t.n].fields, TRUE)
  IN write(write(body, Tok("close", t)), Tok("endif", t))

emitTypeDefinition(p, e, t) ==
  IF Special(t) THEN emit("special", p, e, t)
  ELSE IF isEnum(p, t)
       THEN IF t \in e.own THEN e
            ELSE guardedBody(p, [e EXCEPT !.own = @ \union {t}], t, << >>)
  ELSE emitAggregateDefinition(p, e, t)

emit(what, p, e, t) ==
  CASE what = "forward" -> ensureForwardDeclaration(p, e, t)
    [] what = "special" -> ensureSpecialType(p, e, t)
    [] what = "define" -> emitTypeDefinition(p, e, t)
    [] what \in {"need", "name"} -> emitType(p, e, t, what = "need")
=============================================================================
