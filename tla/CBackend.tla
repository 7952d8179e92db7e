------------------------------ MODULE CBackend ------------------------------
(***************************************************************************)
(* From checked modules to C files: the types of every header are          *)
(* collected and sorted, then each module's header and source are written, *)
(* and last the header of the slice types                                  *)
(* (src/src/bootstrap/cbackend.cpp, metadata_preparation_pass.cpp).  What  *)
(* a C compiler makes of each source file with its headers is part of the  *)
(* model, so that "the output compiles" can be stated.                     *)
(*                                                                         *)
(*     prog      the program, see MetadataPreparation; prog.modules is     *)
(*               the order of the modules, prog.imports what each imports, *)
(*               prog.priority the option header_include_before_defs       *)
(*     types     header_types of each module                               *)
(*     headers, sources   the files written                                *)
(*     cache, slices      what all emitters share                          *)
(*     rejected  what the C compiler objects to in each source file        *)
(***************************************************************************)
EXTENDS TypeEmitter

CONSTANT Programs

VARIABLES prog, phase, at, types, headers, sources, cache, slices, rejected
vars == << prog, phase, at, types, headers, sources, cache, slices, rejected >>

Modules == {prog.modules[i] : i \in DOMAIN prog.modules}

emitter(header) ==
  [file |-> << >>, buf |-> << >>, mode |-> FALSE, header |-> header,
   fwd |-> {}, own |-> {}, cache |-> cache, slices |-> slices]

includes(m) ==
  LET other(i) == i # m IN
  [i \in DOMAIN SelectSeq(prog.imports[m], other) |->
     Tok("include", SelectSeq(prog.imports[m], other)[i])]

writeAll(e, toks) == [e EXCEPT !.file = @ \o toks]

RECURSIVE forwardAll(_, _), defineAll(_, _), declareAll(_, _, _)
forwardAll(e, ts) ==
  IF ts = << >> THEN e
  ELSE forwardAll(emit("forward", prog, e, Head(ts)), Tail(ts))

(* The buffer is written after each definition, not before it.             *)
defineAll(e, ts) ==
  IF ts = << >> THEN e
  ELSE defineAll(emitBufferedTypeDefinitions(emit("define", prog, e, Head(ts))),
                 Tail(ts))

(* Prototypes and external declarations do with incomplete types.          *)
declareAll(e, syms, complete) ==
  IF syms = << >> THEN e
  ELSE LET t == Head(syms).t
           parts == IF t.k = "fn" THEN returnFirst(t.a) ELSE << t >>
       IN declareAll(emitTypes(prog, e, parts, complete), Tail(syms), complete)

Pick(m, what, pub) ==
  LET chosen(s) == s.what = what /\ s.pub \in pub IN SelectSeq(prog.decls[m], chosen)

-----------------------------------------------------------------------------
(* generateHeaderFile.                                                     *)
header(m) ==
  LET enum(t) == isEnum(prog, t)
      aggregate(t) == IsNamed(t) /\ ~isEnum(prog, t)
      defined(t) == Special(t) \/ (IsNamed(t) /\ prog.types[t.n].mod = m)
      start == writeAll(emitter(TRUE), << Tok("include", "special") >>)
      fwd == emitBufferedTypeDefinitions(
               forwardAll(forwardAll(start, SelectSeq(types[m], enum)),
                          SelectSeq(types[m], aggregate)))
      early == writeAll(fwd, IF prog.priority THEN includes(m) ELSE << >>)
      defs == defineAll(early, SelectSeq(types[m], defined))
      late == writeAll(defs, IF prog.priority THEN << >> ELSE includes(m))
      decls == declareAll(declareAll(late, Pick(m, "var", {TRUE}), FALSE),
                          Pick(m, "fn", {TRUE}), FALSE)
  IN emitBufferedTypeDefinitions(decls)

RECURSIVE scanType(_, _), scanAll(_, _), ensureAll(_, _)
(* A type is met before the types it holds.                                *)
scanType(t, seen) ==
  IF t \in {seen[i] : i \in DOMAIN seen} THEN seen
  ELSE scanAll(IF IsNamed(t) THEN Tag(prog, t.n) \o prog.types[t.n].fields ELSE t.a,
               Append(seen, t))
scanAll(ts, seen) == IF ts = << >> THEN seen ELSE scanAll(Tail(ts), scanType(Head(ts), seen))

ensureAll(e, ts) ==
  IF ts = << >> THEN e ELSE ensureAll(emit("special", prog, e, Head(ts)), Tail(ts))

RECURSIVE scanForSpecialTypes(_, _, _)
(* The declarations are scanned one by one, each from no type visited, and *)
(* the special types of one kind are defined as they are met.              *)
scanForSpecialTypes(e, syms, kind) ==
  LET wanted(t) == t.k = kind
  IN IF syms = << >> THEN emitBufferedTypeDefinitions(e)
     ELSE scanForSpecialTypes(
            ensureAll(e, SelectSeq(scanType(Head(syms).t, << >>), wanted)),
            Tail(syms), kind)

(* generateSourceFile.                                                     *)
source(m) ==
  LET start == writeAll(emitter(FALSE),
                        << Tok("include", "special"), Tok("include", m) >> \o includes(m))
      private == Types(Pick(m, "type", {FALSE}))
      fwd == forwardAll(start, private)
      slice == scanForSpecialTypes(fwd, prog.decls[m], "slice")
      eu == scanForSpecialTypes(slice, prog.decls[m], "eu")
      opt == scanForSpecialTypes(eu, prog.decls[m], "opt")
      tuple == scanForSpecialTypes(opt, prog.decls[m], "tuple")
      defs == defineAll(tuple, private)
      globals == declareAll(defs, Pick(m, "var", BOOLEAN), TRUE)
      protos == declareAll(globals, Pick(m, "fn", {FALSE}), FALSE)
  IN declareAll(protos, Pick(m, "fn", BOOLEAN), TRUE)

RECURSIVE specialHeader(_, _)
(* generateSpecialTypesHeader: what its emitter buffers is never written.  *)
specialHeader(e, ts) ==
  IF ts = << >> THEN e
  ELSE LET t == Head(ts)
           e1 == emit("forward", prog, e, t.a[1])
           opened == writeAll(e1, << Tok("ifndef", t), Tok("open", t) >>)
           body == emit("name", prog, opened, t.a[1])
       IN specialHeader(writeAll(body, << Tok("close", t), Tok("endif", t) >>), Tail(ts))

-----------------------------------------------------------------------------
(* The C compiler, as far as definitions and their order go: guards and    *)
(* includes are followed, and what C rejects is noted as [why, t, by], by  *)
(* the type whose body holds the use.                                      *)

Outermost == Type("file", "", << >>)

RECURSIVE compile(_, _), token(_, _)
compile(toks, st) ==
  IF toks = << >> THEN st
  ELSE IF st.skip = Outermost THEN compile(Tail(toks), token(st, Head(toks)))
  ELSE compile(Tail(toks), IF Head(toks).k = "endif" /\ Head(toks).t = st.skip
                           THEN [st EXCEPT !.skip = Outermost] ELSE st)

token(st, tok) ==
  LET reject(why) ==
        [st EXCEPT !.bad = @ \union {[why |-> why, t |-> tok.t, by |-> st.open]}]
  IN CASE tok.k = "include" ->
            IF tok.t \in st.seen THEN st
            ELSE compile(headers[tok.t], [st EXCEPT !.seen = @ \union {tok.t}])
       [] tok.k = "ifndef" ->
            IF tok.t \in st.guards THEN [st EXCEPT !.skip = tok.t]
            ELSE [st EXCEPT !.guards = @ \union {tok.t}]
       [] tok.k = "open" ->
            IF tok.t \in st.defined THEN reject("redefined")
            ELSE IF st.open # Outermost THEN reject("nested")
            ELSE [st EXCEPT !.open = tok.t]
       [] tok.k = "close" ->
            [st EXCEPT !.defined = @ \union {tok.t}, !.open = Outermost]
       [] tok.k \in {"need", "name"} ->
            IF tok.t \in st.defined THEN st ELSE reject(tok.k)
       [] OTHER -> st

Unit(m) == compile(sources[m], [seen |-> {}, guards |-> {}, defined |-> {},
                                open |-> Outermost, skip |-> Outermost, bad |-> {}])

-----------------------------------------------------------------------------
Init ==
  /\ prog \in Programs
  /\ phase = "collect" /\ at = 1
  /\ types = [m \in Modules |-> << >>]
  /\ headers = [m \in Modules \union {"special"} |-> << >>]
  /\ sources = [m \in Modules |-> << >>]
  /\ cache = {} /\ slices = << >>
  /\ rejected = [m \in Modules |-> {}]

Current == prog.modules[at]

CollectTypes ==
  /\ phase = "collect" /\ phase' = "sort"
  /\ types' = [m \in Modules |-> headerTypes(prog, m)]
  /\ UNCHANGED << prog, at, headers, sources, cache, slices, rejected >>

SortTypes ==
  /\ phase = "sort" /\ phase' = "header"
  /\ types' = [m \in Modules |-> sortedTypes(prog, types[m])]
  /\ UNCHANGED << prog, at, headers, sources, cache, slices, rejected >>

GenerateHeaderFile ==
  /\ phase = "header" /\ phase' = "source"
  /\ \E e \in {header(Current)} :
     /\ headers' = [headers EXCEPT ![Current] = e.file]
     /\ cache' = e.cache /\ slices' = e.slices
  /\ UNCHANGED << prog, at, types, sources, rejected >>

GenerateSourceFile ==
  /\ phase = "source"
  /\ \E e \in {source(Current)} :
     /\ sources' = [sources EXCEPT ![Current] = e.file]
     /\ cache' = e.cache /\ slices' = e.slices
  /\ IF at < Len(prog.modules) THEN phase' = "header" /\ at' = at + 1
     ELSE phase' = "special" /\ UNCHANGED at
  /\ UNCHANGED << prog, types, headers, rejected >>

GenerateSpecialTypesHeader ==
  /\ phase = "special" /\ phase' = "compile"
  /\ headers' = [headers EXCEPT !["special"] = specialHeader(emitter(TRUE), slices).file]
  /\ UNCHANGED << prog, at, types, sources, cache, slices, rejected >>

(* A file that cannot be opened ends the generation.                       *)
OpenFails ==
  /\ phase \in {"header", "source", "special"} /\ phase' = "failed"
  /\ UNCHANGED << prog, at, types, headers, sources, cache, slices, rejected >>

CompileC ==
  /\ phase = "compile" /\ phase' = "done"
  /\ rejected' = [m \in Modules |-> Unit(m).bad]
  /\ UNCHANGED << prog, at, types, headers, sources, cache, slices >>

Next == \/ CollectTypes \/ SortTypes \/ GenerateHeaderFile \/ GenerateSourceFile
        \/ GenerateSpecialTypesHeader \/ OpenFails \/ CompileC

Spec == Init /\ [][Next]_vars

-----------------------------------------------------------------------------
Done == phase = "done"
Rejections(m) == IF Done THEN rejected[m] ELSE {}
ToSet(s) == {s[i] : i \in DOMAIN s}

(* Headers are included before they are needed: no module needs another,   *)
(* or the option asks for it and no two modules import each other.         *)
IncludedFirst ==
  \/ Len(prog.modules) = 1
  \/ prog.priority /\ \A m \in Modules : \A n \in ToSet(prog.imports[m]) :
                        m \notin ToSet(prog.imports[n])

HeldIn(t) == ToSet(heldByValue(prog, t))

RECURSIVE Behind(_, _)
(* The types met from t, through pointers too, without those in `seen'.    *)
Behind(ts, seen) ==
  LET new == (UNION {HeldIn(t) \union ToSet(referredTo(t)) : t \in ts}) \ seen
  IN IF new = {} THEN seen ELSE Behind(new, seen \union new)

(* Comment at metadata_preparation_pass.cpp:123, as far as it holds: what  *)
(* a type holds as a field, a payload or a tag is complete before the type *)
(* is defined, whatever order the symbols are met in, and whatever a       *)
(* function or a global variable needs is complete before it.              *)
DefinedBeforeUse ==
  IncludedFirst => \A m \in Modules : \A r \in Rejections(m) :
    IsNamed(r.t) => r.by # Outermost /\ (r.by.k = "tuple" \/ r.t \notin HeldIn(r.by))

(* The special types that the source files before m's scan.                *)
ScannedBefore(m) ==
  UNION {ToSet(scanType(prog.decls[prog.modules[i]][j].t, << >>)) :
           i \in {k \in DOMAIN prog.modules : \E l \in DOMAIN prog.modules :
                    k < l /\ prog.modules[l] = m},
           j \in DOMAIN prog.decls[prog.modules[1]]}

(* Comment at codegen.cpp:3341, "Headers must always emit their own        *)
(* guarded definitions to be self-contained": an optional or error union   *)
(* that a header lists is declared before the header uses it, unless its   *)
(* own payload refers back to its user or the user is a slice.  One that   *)
(* only a source file uses is declared there, unless a file before it has  *)
(* put it in the cache they share, or another one's payload is defined     *)
(* inside it.                                                              *)
SpecialsDeclared ==
  \A m \in Modules : \A r \in Rejections(m) :
    r.t.k \in {"opt", "eu"} =>
      \/ r.by.k = "slice"
      \/ r.t \in ToSet(types[m]) /\ r.by \in Behind({r.t}, {})
      \/ r.t \notin ToSet(types[m]) /\ (r.t \in ScannedBefore(m) \/ r.why = "nested")

(* The include guards: however headers include each other and however      *)
(* often a type is emitted, no unit defines a type twice.                  *)
NeverRedefined ==
  \A m \in Modules : \A r \in Rejections(m) : r.why # "redefined"

(* The comment at metadata_preparation_pass.cpp:123 itself, for every way  *)
(* of containing a type that the header lists.                             *)
DefinedBeforeUseAlways ==
  IncludedFirst => \A m \in Modules : \A r \in Rejections(m) :
    ~(r.why = "need" /\ {r.by, r.t} \subseteq ToSet(types[m]))
=============================================================================
