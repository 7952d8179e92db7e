------------------------ MODULE MetadataPreparation ------------------------
(***************************************************************************)
(* Which C types a module's header holds and in which order                *)
(* (src/src/bootstrap/metadata_preparation_pass.cpp, passes 3 and 4).      *)
(*                                                                         *)
(* A type is [k, n, a]: its kind, its name when it is declared by the      *)
(* program ("named": struct, union, tagged union or enum), and the types   *)
(* it is made of.  Types are interned, so equal types are one type.  A     *)
(* program `p' declares the named types,                                   *)
(*     p.types[n] = [kind, fields, tag, mod]                               *)
(* and gives every module m its symbols in source order, p.decls[m], and   *)
(* the order its scopes' buckets list them in, p.buckets[m]; a symbol is   *)
(* [what, t, pub] with what one of "type", "fn", "var".                    *)
(***************************************************************************)
EXTENDS Integers, Sequences, FiniteSets

Type(k, n, a) == [k |-> k, n |-> n, a |-> a]
Prim == Type("prim", "", << >>)
Named(n) == Type("named", n, << >>)

IsNamed(t) == t.k = "named"
Special(t) == t.k \in {"slice", "eu", "opt"}
isEnum(p, t) == IsNamed(t) /\ p.types[t.n].kind = "enum"
Tag(p, n) == IF p.types[n].tag = "" THEN << >> ELSE << Named(p.types[n].tag) >>

-----------------------------------------------------------------------------
(* Pass 3: post-order over what a type holds by value, then what it only   *)
(* refers to.                                                              *)

heldByValue(p, t) ==
  IF IsNamed(t) THEN Tag(p, t.n) \o p.types[t.n].fields
  ELSE IF t.k \in {"arr", "slice", "opt", "eu", "tuple"} THEN t.a ELSE << >>

referredTo(t) == IF t.k \in {"ptr", "slice", "fn"} THEN t.a ELSE << >>

isHeaderType(t) == IsNamed(t) \/ Special(t)

RECURSIVE collectReachableTypes(_, _, _), collectAll(_, _, _)
(* s holds the types visited so far and the header's types.                *)
collectReachableTypes(p, t, s) ==
  IF t \in s.visited THEN s
  ELSE LET held == collectAll(p, heldByValue(p, t),
                              [s EXCEPT !.visited = @ \union {t}])
           self == IF isHeaderType(t)
                   THEN [held EXCEPT !.types = Append(@, t)] ELSE held
       IN collectAll(p, referredTo(t), self)
collectAll(p, ts, s) ==
  IF ts = << >> THEN s
  ELSE collectAll(p, Tail(ts), collectReachableTypes(p, Head(ts), s))

(* Public and external symbols are roots; of the others, those whose type  *)
(* is an aggregate.                                                        *)
Rooted(sym) == sym.pub \/ IsNamed(sym.t)
Types(syms) == [i \in DOMAIN syms |-> syms[i].t]
headerTypes(p, m) ==
  collectAll(p, Types(SelectSeq(p.buckets[m], Rooted)),
             [visited |-> {}, types |-> << >>]).types

-----------------------------------------------------------------------------
(* Pass 4: Kahn's algorithm over the types collected.                      *)

RECURSIVE lookThrough(_)
(* Mutant: a pointer counts as holding what it points to.                  *)
lookThroughPointers(t) ==
  IF t.k \in {"opt", "eu", "ptr"} THEN lookThrough(t.a[1])
  ELSE IF t.k = "fn" THEN {} ELSE {t}

(* An optional or an error union stands for its payload; what is behind a  *)
(* pointer or in a function's type is no dependency.                       *)
lookThrough(t) ==
  IF t.k \in {"opt", "eu"} THEN lookThrough(t.a[1])
  ELSE IF t.k \in {"ptr", "fn"} THEN {} ELSE {t}

sortDependencies(p, t) ==
  LET deps == IF IsNamed(t) THEN p.types[t.n].fields \o Tag(p, t.n)
              ELSE IF t.k \in {"arr", "opt", "eu", "tuple"} THEN t.a ELSE << >>
  IN (UNION {lookThrough(deps[i]) : i \in DOMAIN deps}) \ {t}

RECURSIVE kahn(_, _, _, _)
(* indeg counts the dependencies still to come, queue is first in, first   *)
(* out and a step queues the types it frees in the order of `ts'.          *)
kahn(ts, deps, queue, sorted) ==
  IF queue = << >> THEN sorted
  ELSE LET done == Append(sorted, Head(queue))
           placed == {ts[done[i]] : i \in DOMAIN done}
           free(j) == /\ ts[Head(queue)] \in deps[j]
                      /\ deps[j] \subseteq placed
       IN kahn(ts, deps,
               Tail(queue) \o SelectSeq([j \in DOMAIN ts |-> j], free), done)

sortedTypes(p, ts) ==
  LET known == {ts[i] : i \in DOMAIN ts}
      deps == [j \in DOMAIN ts |-> sortDependencies(p, ts[j]) \intersect known]
      ready(j) == deps[j] = {}
      order == kahn(ts, deps, SelectSeq([j \in DOMAIN ts |-> j], ready), << >>)
  IN IF Len(order) = Len(ts) THEN [i \in DOMAIN ts |-> ts[order[i]]] ELSE ts
=============================================================================
