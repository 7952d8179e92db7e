-------------------------- MODULE TypeLayoutProofs --------------------------
(***************************************************************************)
(* Proofs about the layouts of named types, for every set of programs.     *)
(*                                                                         *)
(* A layout, a list of dependents, a refresh and its order are recursive   *)
(* functions.  Over positions 0..n such a function exists, and has a       *)
(* property at every position, because a least position without it cannot  *)
(* be (AllPositions, RunsExist).  A refresh recurses over the types being  *)
(* resolved instead: each level marks one more of the finitely many types  *)
(* with is_resolving, so the number still unmarked bounds the depth        *)
(* (RankTyped, Deeper, OrderExists).                                       *)
(*                                                                         *)
(* Refreshing keeps the shape of the state (SameShape).  When the          *)
(* aggregates already agree with their fields (Settled), it recomputes     *)
(* each of them to what it was, and changes type objects only, those it is *)
(* called on to the layout of the type they are built on (OnlyObjects).    *)
(*                                                                         *)
(* The inductive invariant adds to the kinds of TypeResolutionProofs that  *)
(* completed types have an object for every field that needs one, and,     *)
(* while phase 0.5 runs without optionals, that objects on completed types *)
(* and completed types are right and every other object waits among the    *)
(* dependents of the declaration it is built on (Consistent).  Completing  *)
(* a type leaves only the objects on it behind, and these are the ones     *)
(* finalizePlaceholder refreshes.                                          *)
(***************************************************************************)
EXTENDS TypeResolutionProofs

-----------------------------------------------------------------------------
(* Recursion over positions. *)

(* What holds at 0 and passes from each position to the next holds at all. *)
LEMMA AllPositions ==
    ASSUME NEW n \in Nat, NEW A, 0 \in A, \A k \in 1..n : k - 1 \in A => k \in A
    PROVE  \A k \in 0..n : k \in A
<1> DEFINE bad == {k \in 0..n : k \notin A}
<1> SUFFICES ASSUME bad # {} PROVE FALSE
  OBVIOUS
<1>1. bad \in SUBSET Nat
  OBVIOUS
<1>2. PICK m \in bad : \A j \in bad : m <= j
  <2> HIDE DEF bad
  <2> QED BY <1>1, LeastExists
<1>3. m \in 0..n /\ m \notin A /\ m # 0
  OBVIOUS
<1>4. m - 1 \in 0..n /\ m \in 1..n /\ ~(m <= m - 1)
  BY <1>3
<1>5. m - 1 \in A
  BY <1>2, <1>4
<1> QED BY <1>3, <1>4, <1>5

(* g starts with base and takes each next value from h. *)
IsRun(g, n, S, base, h) ==
    /\ g \in [0..n -> S] /\ g[0] = base
    /\ \A k \in 1..n : g[k] = h[k][g[k - 1]]
Steps(h, n, S) == \A k \in 1..n : \A s \in S : h[k][s] \in S

LEMMA RunsExist ==
    ASSUME NEW n \in Nat, NEW S, NEW base \in S, NEW h, Steps(h, n, S)
    PROVE  \E g : IsRun(g, n, S, base, h)
<1> DEFINE A == {m \in 0..n : \E g : IsRun(g, m, S, base, h)}
<1>1. 0 \in A
  <2>1. IsRun([k \in 0..0 |-> base], 0, S, base, h)
    BY DEF IsRun
  <2> QED BY <2>1
<1>2. ASSUME NEW m \in 1..n, m - 1 \in A PROVE m \in A
  <2>0. m \in Nat /\ m - 1 \in Nat /\ m \in 0..n
    OBVIOUS
  <2>1. PICK g : IsRun(g, m - 1, S, base, h)
    BY <1>2
  <2> DEFINE u == [k \in 0..m |-> IF k < m THEN g[k] ELSE h[m][g[m - 1]]]
  <2>2. \A k \in 0..m : k < m => k \in 0..m - 1 /\ g[k] \in S
    BY <2>0, <2>1 DEF IsRun
  <2>3. h[m][g[m - 1]] \in S
    BY <2>0, <2>2 DEF Steps
  <2>4. u \in [0..m -> S] /\ u[0] = base
    BY <2>0, <2>1, <2>2, <2>3 DEF IsRun
  <2>5. ASSUME NEW k \in 1..m PROVE u[k] = h[k][u[k - 1]]
    <3>1. k \in 0..m /\ k - 1 \in 0..m /\ k - 1 < m
      BY <2>0
    <3>2. CASE k = m
      BY <2>0, <3>1, <3>2
    <3>3. CASE k # m
      <4>1. k < m /\ k \in 1..m - 1
        BY <2>0, <3>3
      <4> QED BY <2>1, <3>1, <4>1 DEF IsRun
    <3> QED BY <3>2, <3>3
  <2>6. IsRun(u, m, S, base, h)
    <3> HIDE DEF u
    <3> QED BY <2>4, <2>5 DEF IsRun
  <2> QED BY <2>0, <2>6
<1>3. n \in 0..n
  OBVIOUS
<1>4. n \in A
  <2> HIDE DEF A
  <2> QED BY <1>1, <1>2, <1>3, AllPositions
<1> QED BY <1>4

-----------------------------------------------------------------------------
(* Layouts of fields, and the space of fields together. *)
Layouts == [size : Nat, align : Nat]
Spaces == [size : Nat, align : Nat \ {0}]
NamedLayouts == [done : BOOLEAN, size : Nat, align : Nat]

LEMMA RoundUpTyped ==
    ASSUME NEW n \in Nat, NEW a \in Nat \ {0}
    PROVE  RoundUp(n, a) \in Nat
<1>1. n + a - 1 \in Nat
  OBVIOUS
<1>2. (n + a - 1) \div a \in Nat
  BY <1>1
<1> DEFINE q == (n + a - 1) \div a
<1>3. RoundUp(n, a) = q * a
  BY DEF RoundUp
<1> HIDE DEF q
<1> QED BY <1>2, <1>3 DEF q

LEMMA PutTyped ==
    ASSUME NEW kind, NEW acc \in Spaces, NEW l \in Layouts
    PROVE  Put(kind, acc, l) \in Spaces
<1>1. /\ acc.size \in Nat /\ acc.align \in Nat \ {0}
      /\ l.size \in Nat /\ l.align \in Nat
  BY DEF Spaces, Layouts
<1>2. Max2(l.align, 1) \in Nat \ {0}
  BY <1>1 DEF Max2
<1>3. RoundUp(acc.size, Max2(l.align, 1)) \in Nat
  BY <1>1, <1>2, RoundUpTyped
<1>4. /\ Max2(acc.align, Max2(l.align, 1)) \in Nat \ {0}
      /\ Max2(acc.size, l.size) \in Nat
      /\ Max2(acc.align, l.align) \in Nat \ {0}
  BY <1>1, <1>2 DEF Max2
<1> QED BY <1>1, <1>3, <1>4 DEF Put, L, Spaces

LEMMA SpaceTyped ==
    ASSUME NEW kind, NEW ls \in Seq(Layouts)
    PROVE  Space(kind, ls) \in Spaces
<1> DEFINE n == Len(ls)
           Def(g) == [f \in 0..n |-> IF f = 0 THEN L(0, 1)
                        ELSE Strict(LAMBDA acc : Put(kind, acc, ls[f]), g[f - 1])]
           Upto == CHOOSE g : g = Def(g)
<1>0. n \in Nat /\ \A f \in 1..n : ls[f] \in Layouts
  OBVIOUS
<1>1. Space(kind, ls) = Upto[n]
  BY DEF Space
<1>2. L(0, 1) \in Spaces
  BY DEF L, Spaces
<1>3. \A f \in 1..n : \A acc \in Spaces : Put(kind, acc, ls[f]) \in Spaces
  BY <1>0, PutTyped
<1> DEFINE h == [f \in 1..n |-> [acc \in Spaces |-> Put(kind, acc, ls[f])]]
<1>4. Steps(h, n, Spaces)
  BY <1>3 DEF Steps
<1>5. PICK g : IsRun(g, n, Spaces, L(0, 1), h)
  <2> HIDE DEF h, n
  <2> QED BY <1>0, <1>2, <1>4, RunsExist
<1>6. \A f \in 1..n : g[f] = Put(kind, g[f - 1], ls[f])
  BY <1>0, <1>5 DEF IsRun
<1>7. \A u : Def(u) = [f \in 0..n |-> IF f = 0 THEN L(0, 1) ELSE Put(kind, u[f - 1], ls[f])]
  BY DEF Strict
<1>8. g = Def(g)
  <2> HIDE DEF Def, n, h
  <2>1. \A f \in 0..n : f # 0 => f \in 1..n
    BY <1>0
  <2> QED BY <1>5, <1>6, <1>7, <2>1 DEF IsRun
<1>9. Upto = Def(Upto)
  <2> HIDE DEF Def
  <2> QED BY <1>8
<1> HIDE DEF Def, Upto, n, h
<1>10. Upto[0] = L(0, 1) /\ \A f \in 1..n : Upto[f] = Put(kind, Upto[f - 1], ls[f])
  <2>1. \A f \in 1..n : f \in 0..n /\ f # 0
    BY <1>0
  <2>2. Upto = [f \in 0..n |-> IF f = 0 THEN L(0, 1) ELSE Put(kind, Upto[f - 1], ls[f])]
    BY <1>7, <1>9
  <2> QED BY <1>0, <2>1, <2>2
<1> DEFINE A == {f \in 0..n : Upto[f] \in Spaces}
<1>11. 0 \in A /\ \A f \in 1..n : f - 1 \in A => f \in A
  BY <1>0, <1>2, <1>3, <1>10
<1>12. n \in A
  <2>1. n \in 0..n
    BY <1>0
  <2> HIDE DEF A
  <2> QED BY <1>0, <1>11, <2>1, AllPositions
<1> QED BY <1>1, <1>12

(* The layout of an aggregate. *)
LEMMA StructLayoutTyped ==
    ASSUME NEW kind, NEW ls \in Seq(Layouts)
    PROVE  calculateStructLayout(kind, ls) \in NamedLayouts
<1> DEFINE all == Space(kind, ls)
<1>1. all \in Spaces
  BY SpaceTyped
<1>2. calculateStructLayout(kind, ls) =
        [done |-> TRUE, size |-> RoundUp(all.size, all.align), align |-> all.align]
  BY DEF calculateStructLayout
<1> HIDE DEF all
<1>3. all.size \in Nat /\ all.align \in Nat \ {0}
  BY <1>1 DEF Spaces
<1>4. RoundUp(all.size, all.align) \in Nat
  BY <1>3, RoundUpTyped
<1> QED BY <1>2, <1>3, <1>4 DEF NamedLayouts

(* The layout of a type built on a complete one. *)
LEMMA LayoutOverTyped ==
    ASSUME NEW kind \in {"ptr", "slice", "opt", "arr"}, NEW base \in NamedLayouts
    PROVE  LayoutOver(kind, base) \in Layouts
<1>1. base.size \in Nat /\ base.align \in Nat
  BY DEF NamedLayouts
<1>2. Max2(base.align, 4) \in Nat \ {0}
  BY <1>1 DEF Max2
<1>3. RoundUp(base.size, 4) + 4 \in Nat
  BY <1>1, RoundUpTyped
<1>4. RoundUp(RoundUp(base.size, 4) + 4, Max2(base.align, 4)) \in Nat
  BY <1>2, <1>3, RoundUpTyped
<1>5. 2 * base.size \in Nat
  BY <1>1
<1> QED BY <1>1, <1>2, <1>4, <1>5 DEF LayoutOver, L, Layouts
-----------------------------------------------------------------------------
(* Type objects, and the states of a refresh. *)
Objects == {"ptr", "slice", "opt", "arr"} \X Decls \X Nat \X Nat

(* The layouts are typed, the completed types have objects for their       *)
(* fields, and the dependents are objects.                                 *)
WellFormed(st) ==
    /\ st.nm \in [Decls -> NamedLayouts]
    /\ DOMAIN st.cp \in SUBSET Objects /\ IsFiniteSet(DOMAIN st.cp)
    /\ st.cp \in [DOMAIN st.cp -> Layouts]
    /\ \A e \in Decls : st.nm[e].done =>
          \A f \in DOMAIN Fields(e) : Composite(Fields(e)[f]) => st.nd[e][f] \in DOMAIN st.cp
    /\ st.ds \in Seq(DOMAIN st.cp)

(* What a refresh recomputes: type objects and completed types. *)
Touched(st) == DOMAIN st.cp \cup {Named(d) : d \in {e \in Decls : st.nm[e].done}}
AllTypes(st) == DOMAIN st.cp \cup {Named(d) : d \in Decls} \cup {NoType}
LeftAlone(st, y) == y = NoType \/ (y[1] = "named" /\ ~st.nm[y[2]].done)

LEMMA ObjectShape ==
    ASSUME NEW o \in Objects
    PROVE  /\ o[1] \in {"ptr", "slice", "opt", "arr"} /\ o[2] \in Decls
           /\ o # NoType /\ \A d : o # Named(d)
<1>1. PICK k \in {"ptr", "slice", "opt", "arr"}, b \in Decls, x \in Nat, y \in Nat :
         o = <<k, b, x, y>>
  BY DEF Objects
<1> QED BY <1>1 DEF NoType, Named

LEMMA NamedShape ==
    ASSUME NEW d
    PROVE  Named(d)[1] = "named" /\ Named(d)[2] = d /\ Named(d) # NoType
BY DEF Named, NoType

(* The parts of a type that is recomputed are types. *)
LEMMA PartsTyped ==
    ASSUME prog \in Programs, NEW st, WellFormed(st), NEW x \in Touched(st)
    PROVE  NeededBy(x, st.nd) \in Seq(AllTypes(st))
<1>1. CASE x \in DOMAIN st.cp
  <2>1. x \in Objects
    BY <1>1 DEF WellFormed
  <2>2. x[1] # "named" /\ Named(x[2]) \in AllTypes(st)
    BY <2>1, ObjectShape DEF AllTypes
  <2>3. NeededBy(x, st.nd) = <<Named(x[2])>>
    BY <2>2 DEF NeededBy
  <2> HIDE DEF AllTypes
  <2> QED BY <2>2, <2>3
<1>2. CASE x \notin DOMAIN st.cp
  <2>1. PICK d \in Decls : st.nm[d].done /\ x = Named(d)
    BY <1>2 DEF Touched
  <2>2. x[1] = "named" /\ x[2] = d
    BY <2>1, NamedShape
  <2> DEFINE P(f) == IF IsPrim(Fields(d)[f]) THEN NoType
                     ELSE IF Fields(d)[f].kind = "val" THEN Named(Fields(d)[f].of)
                     ELSE st.nd[d][f]
  <2>3. NeededBy(x, st.nd) = [f \in DOMAIN Fields(d) |-> P(f)]
    BY <2>2 DEF NeededBy
  <2>4. /\ Fields(d) \in Seq(FieldTypes)
        /\ \A f \in DOMAIN Fields(d) :
               /\ Fields(d)[f].kind \in {"u8", "i32", "val", "ptr", "slice", "opt", "arr"}
               /\ ~IsPrim(Fields(d)[f]) => Fields(d)[f].of \in Decls
    <3>1. Fields(d) \in Seq(FieldTypes) /\ \A f \in DOMAIN Fields(d) :
                ~IsPrim(Fields(d)[f]) => Fields(d)[f].of \in Decls
      BY ProgramTypes
    <3>2. \A f \in DOMAIN Fields(d) : Fields(d)[f] \in FieldTypes
      BY <3>1
    <3>3. \A t \in FieldTypes : t.kind \in {"u8", "i32", "val", "ptr", "slice", "opt", "arr"}
      BY DEF FieldTypes
    <3> QED BY <3>1, <3>2, <3>3
  <2>5. ASSUME NEW f \in DOMAIN Fields(d) PROVE P(f) \in AllTypes(st)
    <3>1. CASE IsPrim(Fields(d)[f])
      BY <3>1 DEF AllTypes
    <3>2. CASE ~IsPrim(Fields(d)[f]) /\ Fields(d)[f].kind = "val"
      BY <3>2, <2>4 DEF AllTypes
    <3>3. CASE ~IsPrim(Fields(d)[f]) /\ Fields(d)[f].kind # "val"
      <4>1. Composite(Fields(d)[f])
        BY <3>3, <2>4 DEF IsPrim, Composite
      <4>2. st.nd[d][f] \in DOMAIN st.cp
        BY <4>1, <2>1 DEF WellFormed
      <4> QED BY <3>3, <4>2 DEF AllTypes
    <3> QED BY <3>1, <3>2, <3>3
  <2>6. Len(Fields(d)) \in Nat /\ DOMAIN Fields(d) = 1..Len(Fields(d))
    BY <2>4
  <2> HIDE DEF P, AllTypes
  <2>7. [f \in DOMAIN Fields(d) |-> P(f)] \in Seq(AllTypes(st))
    BY <2>5, <2>6
  <2> QED BY <2>3, <2>7
<1> QED BY <1>1, <1>2

(* Sequences of members of T, one after the other. *)
LEMMA FlattenTyped ==
    ASSUME NEW T, NEW ss, ss \in Seq(Seq(T))
    PROVE  FlattenSeq(ss) \in Seq(T)
<1> DEFINE n == Len(ss)
           Def(g) == [i \in 1..n |-> IF i = 1 THEN ss[i] ELSE g[i - 1] \o ss[i]]
           Flat == CHOOSE g : g = Def(g)
<1>0. n \in Nat /\ \A i \in 1..n : ss[i] \in Seq(T)
  OBVIOUS
<1>1. CASE n = 0
  BY <1>1 DEF FlattenSeq
<1>2. CASE n # 0
  <2>1. FlattenSeq(ss) = Flat[n]
    BY <1>2 DEF FlattenSeq
  <2> DEFINE h == [i \in 1..n |-> [s \in Seq(T) |-> s \o ss[i]]]
             S == Seq(T)
  <2>2. \A i \in 1..n : \A s \in S : s \o ss[i] \in S
    BY <1>0
  <2>3. Steps(h, n, S) /\ <<>> \in S
    BY <2>2 DEF Steps
  <2>4. PICK g : IsRun(g, n, S, <<>>, h)
    <3> HIDE DEF h, n, S
    <3> QED BY <1>0, <2>3, RunsExist
  <2>5. g[0] = <<>> /\ \A i \in 1..n : g[i - 1] \in S /\ g[i] = g[i - 1] \o ss[i]
    <3>1. \A i \in 1..n : i - 1 \in 0..n
      BY <1>0
    <3> QED BY <1>0, <2>4, <3>1 DEF IsRun
  <2> DEFINE u == [i \in 1..n |-> g[i]]
  <2>6. \A i \in 1..n : u[i] = IF i = 1 THEN ss[i] ELSE u[i - 1] \o ss[i]
    <3> SUFFICES ASSUME NEW i \in 1..n
                 PROVE  u[i] = IF i = 1 THEN ss[i] ELSE u[i - 1] \o ss[i]
      OBVIOUS
    <3>1. CASE i = 1
      <4>0. i - 1 = 0
        BY <3>1
      <4>1. u[i] = g[0] \o ss[i]
        <5>1. u[i] = g[i]
          OBVIOUS
        <5>2. g[i] = g[i - 1] \o ss[i]
          BY <2>5
        <5> HIDE DEF u
        <5> QED BY <5>1, <5>2, <4>0
      <4>2. g[0] = <<>> /\ ss[i] \in Seq(T)
        BY <1>0, <2>5
      <4> QED BY <4>1, <4>2, <3>1
    <3>2. CASE i # 1
      <4>1. i - 1 \in 1..n
        BY <1>0, <3>2
      <4> QED BY <4>1, <3>2, <2>5
    <3> QED BY <3>1, <3>2
  <2>7. u = Def(u)
    <3>1. Def(u) = [i \in 1..n |-> IF i = 1 THEN ss[i] ELSE u[i - 1] \o ss[i]]
      OBVIOUS
    <3>2. u = [i \in 1..n |-> u[i]]
      OBVIOUS
    <3> HIDE DEF Def, u, n, S, h
    <3> QED BY <2>6, <3>1, <3>2
  <2>8. Flat = Def(Flat)
    <3> HIDE DEF Def, u
    <3> QED BY <2>7
  <2> DEFINE A == {i \in 0..n : i # 0 => Flat[i] \in S}
  <2>9. \A i \in 1..n : Flat[i] = IF i = 1 THEN ss[i] ELSE Flat[i - 1] \o ss[i]
    <3>1. Def(Flat) = [i \in 1..n |-> IF i = 1 THEN ss[i] ELSE Flat[i - 1] \o ss[i]]
      OBVIOUS
    <3> HIDE DEF Def, Flat, n
    <3> QED BY <2>8, <3>1
  <2> HIDE DEF Flat, Def, u, h
  <2>10. 0 \in A /\ \A i \in 1..n : i - 1 \in A => i \in A
    <3>1. 0 \in A
      BY <1>0
    <3>2. ASSUME NEW i \in 1..n, i - 1 \in A PROVE i \in A
      <4>1. CASE i = 1
        BY <1>0, <2>9, <4>1
      <4>2. CASE i # 1
        <5>1. i - 1 # 0 /\ i \in 0..n
          BY <4>2, <1>0
        <5>2. Flat[i - 1] \in S
          BY <3>2, <5>1
        <5>3. Flat[i] = Flat[i - 1] \o ss[i]
          BY <4>2, <2>9
        <5>4. Flat[i] \in S
          BY <5>2, <5>3, <2>2
        <5> HIDE DEF S, n
        <5> QED BY <5>1, <5>4
      <4> QED BY <4>1, <4>2
    <3> QED BY <3>1, <3>2
  <2>11. n \in A
    <3>1. n \in 0..n
      BY <1>0
    <3> HIDE DEF A, n
    <3> QED BY <1>0, <2>10, <3>1, AllPositions
  <2> QED BY <2>1, <2>11, <1>2
<1> QED BY <1>1, <1>2
-----------------------------------------------------------------------------
(* The order in which a refresh recomputes types.  The recursion ends      *)
(* because every call adds a type to those being resolved.                 *)
Calls(st) == AllTypes(st) \X SUBSET AllTypes(st)
Rank(st, p) == Cardinality(AllTypes(st) \ p[2])
OrderBody(st, g, p) ==
    IF p[1] \in p[2] \/ LeftAlone(st, p[1])
      THEN <<>>
      ELSE LET parts == NeededBy(p[1], st.nd)
           IN  Append(FlattenSeq([k \in DOMAIN parts |->
                         g[<<parts[k], p[2] \cup {p[1]}>>]]), p[1])

LEMMA TypesFinite ==
    ASSUME prog \in Programs, NEW st, WellFormed(st)
    PROVE  IsFiniteSet(AllTypes(st))
<1>1. Len(prog) \in Nat /\ Decls = 1..Len(prog)
  BY ProgramTypes
<1>2. IsFiniteSet(Decls)
  BY <1>1, FS_Interval
<1> DEFINE T == {Named(d) : d \in Decls}
           m == [d \in Decls |-> Named(d)]
<1>3. m \in Surjection(Decls, T)
  BY DEF Surjection
<1>4. IsFiniteSet(T)
  <2> HIDE DEF T, m
  <2> QED BY <1>2, <1>3, FS_Surjection
<1>5. IsFiniteSet(DOMAIN st.cp)
  BY DEF WellFormed
<1>6. IsFiniteSet(DOMAIN st.cp \cup T)
  <2> HIDE DEF T
  <2> QED BY <1>4, <1>5, FS_Union
<1> QED BY <1>6, FS_AddElement DEF AllTypes

LEMMA RankTyped ==
    ASSUME prog \in Programs, NEW st, WellFormed(st), NEW p \in Calls(st)
    PROVE  /\ Rank(st, p) \in Nat /\ Rank(st, p) <= Cardinality(AllTypes(st))
           /\ Cardinality(AllTypes(st)) \in Nat
           /\ p[1] \in AllTypes(st) /\ p[2] \in SUBSET AllTypes(st)
<1>1. IsFiniteSet(AllTypes(st))
  BY TypesFinite
<1>2. AllTypes(st) \ p[2] \in SUBSET AllTypes(st)
  OBVIOUS
<1>3. IsFiniteSet(AllTypes(st) \ p[2]) /\ Rank(st, p) <= Cardinality(AllTypes(st))
  BY <1>1, <1>2, FS_Subset DEF Rank
<1>4. p[1] \in AllTypes(st) /\ p[2] \in SUBSET AllTypes(st)
  BY DEF Calls
<1> QED BY <1>1, <1>3, <1>4, FS_CardinalityType DEF Rank

LEMMA Deeper ==
    ASSUME prog \in Programs, NEW st, WellFormed(st), NEW p \in Calls(st),
           p[1] \notin p[2], NEW y \in AllTypes(st)
    PROVE  /\ <<y, p[2] \cup {p[1]}>> \in Calls(st)
           /\ Rank(st, <<y, p[2] \cup {p[1]}>>) = Rank(st, p) - 1
<1> DEFINE T == AllTypes(st)
           R == T \ p[2]
<1>1. p[1] \in T /\ p[2] \in SUBSET T /\ p[1] \in R
  BY RankTyped
<1>2. IsFiniteSet(R)
  BY TypesFinite, FS_Subset
<1>3. T \ (p[2] \cup {p[1]}) = R \ {p[1]}
  OBVIOUS
<1>4. Cardinality(R \ {p[1]}) = Cardinality(R) - 1
  BY <1>1, <1>2, FS_RemoveElement
<1>5. <<y, p[2] \cup {p[1]}>>[2] = p[2] \cup {p[1]}
  OBVIOUS
<1>6. <<y, p[2] \cup {p[1]}>> \in Calls(st)
  BY <1>1 DEF Calls
<1> QED BY <1>3, <1>4, <1>5, <1>6 DEF Rank

(* What is not left alone is recomputed. *)
LEMMA TouchedOrLeft ==
    ASSUME NEW st, NEW y \in AllTypes(st), ~LeftAlone(st, y)
    PROVE  y \in Touched(st)
<1>1. CASE y \in DOMAIN st.cp
  BY <1>1 DEF Touched
<1>2. CASE y \notin DOMAIN st.cp
  <2>1. PICK d \in Decls : y = Named(d)
    BY <1>2 DEF AllTypes, LeftAlone
  <2>2. st.nm[d].done
    BY <2>1, NamedShape DEF LeftAlone
  <2> QED BY <2>1, <2>2 DEF Touched
<1> QED BY <1>1, <1>2

LEMMA BodyTyped ==
    ASSUME prog \in Programs, NEW st, WellFormed(st), NEW p \in Calls(st), NEW g,
           \A q \in Calls(st) : Rank(st, q) < Rank(st, p) => g[q] \in Seq(Touched(st))
    PROVE  /\ OrderBody(st, g, p) \in Seq(Touched(st))
           /\ p[1] \notin p[2] /\ ~LeftAlone(st, p[1]) =>
                \E ys \in Seq(Touched(st)) : OrderBody(st, g, p) = Append(ys, p[1])
<1>1. CASE p[1] \in p[2] \/ LeftAlone(st, p[1])
  BY <1>1 DEF OrderBody
<1>2. CASE p[1] \notin p[2] /\ ~LeftAlone(st, p[1])
  <2> DEFINE parts == NeededBy(p[1], st.nd)
             q(k) == <<parts[k], p[2] \cup {p[1]}>>
             ss == [k \in DOMAIN parts |-> g[q(k)]]
  <2>1. p[1] \in Touched(st)
    BY <1>2, RankTyped, TouchedOrLeft
  <2>2. parts \in Seq(AllTypes(st))
    BY <2>1, PartsTyped
  <2>3. Len(parts) \in Nat /\ DOMAIN parts = 1..Len(parts)
        /\ \A k \in DOMAIN parts : parts[k] \in AllTypes(st)
    <3> HIDE DEF parts
    <3> QED BY <2>2
  <2>4. ASSUME NEW k \in DOMAIN parts PROVE g[q(k)] \in Seq(Touched(st))
    <3>1. parts[k] \in AllTypes(st)
      BY <2>3
    <3>2. q(k) \in Calls(st) /\ Rank(st, q(k)) = Rank(st, p) - 1
      BY <1>2, <3>1, Deeper
    <3>3. Rank(st, p) \in Nat
      BY RankTyped
    <3> HIDE DEF q, parts
    <3> QED BY <3>2, <3>3
  <2>5. ss \in Seq(Seq(Touched(st)))
    <3> HIDE DEF q, parts
    <3> QED BY <2>3, <2>4
  <2>6. OrderBody(st, g, p) = Append(FlattenSeq(ss), p[1])
    BY <1>2 DEF OrderBody
  <2> HIDE DEF ss, parts, q
  <2>7. FlattenSeq(ss) \in Seq(Touched(st))
    BY <2>5, FlattenTyped
  <2> DEFINE fl == FlattenSeq(ss)
  <2> HIDE DEF fl
  <2>8. fl \in Seq(Touched(st)) /\ OrderBody(st, g, p) = Append(fl, p[1])
    BY <2>6, <2>7 DEF fl
  <2> QED BY <2>1, <2>8
<1> QED BY <1>1, <1>2

(* The body asks only for calls of lower rank. *)
LEMMA BodySame ==
    ASSUME prog \in Programs, NEW st, WellFormed(st), NEW p \in Calls(st), NEW g, NEW u,
           \A q \in Calls(st) : Rank(st, q) < Rank(st, p) => g[q] = u[q]
    PROVE  OrderBody(st, g, p) = OrderBody(st, u, p)
<1>1. CASE p[1] \in p[2] \/ LeftAlone(st, p[1])
  BY <1>1 DEF OrderBody
<1>2. CASE p[1] \notin p[2] /\ ~LeftAlone(st, p[1])
  <2> DEFINE parts == NeededBy(p[1], st.nd)
             q(k) == <<parts[k], p[2] \cup {p[1]}>>
  <2>1. p[1] \in Touched(st)
    BY <1>2, RankTyped, TouchedOrLeft
  <2>2. parts \in Seq(AllTypes(st))
    BY <2>1, PartsTyped
  <2>3. \A k \in DOMAIN parts : parts[k] \in AllTypes(st)
    <3> HIDE DEF parts
    <3> QED BY <2>2
  <2>4. ASSUME NEW k \in DOMAIN parts PROVE g[q(k)] = u[q(k)]
    <3>1. parts[k] \in AllTypes(st)
      BY <2>3
    <3>2. q(k) \in Calls(st) /\ Rank(st, q(k)) = Rank(st, p) - 1
      BY <1>2, <3>1, Deeper
    <3>3. Rank(st, p) \in Nat
      BY RankTyped
    <3> HIDE DEF q, parts
    <3> QED BY <3>2, <3>3
  <2>5. [k \in DOMAIN parts |-> g[q(k)]] = [k \in DOMAIN parts |-> u[q(k)]]
    <3> HIDE DEF q, parts
    <3> QED BY <2>4
  <2>6. /\ OrderBody(st, g, p) = Append(FlattenSeq([k \in DOMAIN parts |-> g[q(k)]]), p[1])
        /\ OrderBody(st, u, p) = Append(FlattenSeq([k \in DOMAIN parts |-> u[q(k)]]), p[1])
    BY <1>2 DEF OrderBody
  <2> HIDE DEF q, parts
  <2> QED BY <2>5, <2>6
<1> QED BY <1>1, <1>2
Below(st, k) == {p \in Calls(st) : Rank(st, p) <= k}

(* The recursion has a solution: one for the calls of each rank, from the  *)
(* ones below.                                                             *)
LEMMA OrderExists ==
    ASSUME prog \in Programs, NEW st, WellFormed(st)
    PROVE  \E g : g = [p \in Calls(st) |-> OrderBody(st, g, p)]
<1> DEFINE n == Cardinality(AllTypes(st))
           Sol(g, k) == g = [p \in Below(st, k) |-> OrderBody(st, g, p)]
           A == {k \in 0..n : \E g : Sol(g, k)}
<1>0. n \in Nat /\ \A p \in Calls(st) : Rank(st, p) \in Nat /\ Rank(st, p) <= n
  BY RankTyped, TypesFinite, FS_CardinalityType
<1>1. 0 \in A
  <2> DEFINE g == [p \in Below(st, 0) |-> OrderBody(st, <<>>, p)]
  <2>1. ASSUME NEW p \in Below(st, 0) PROVE OrderBody(st, <<>>, p) = OrderBody(st, g, p)
    <3>1. p \in Calls(st) /\ Rank(st, p) = 0
      BY <1>0 DEF Below
    <3>2. \A q \in Calls(st) : ~(Rank(st, q) < Rank(st, p))
      BY <1>0, <3>1
    <3> HIDE DEF g
    <3> QED BY <3>1, <3>2, BodySame
  <2>2. Sol(g, 0)
    BY <2>1
  <2> HIDE DEF Sol, n
  <2> QED BY <2>2, <1>0
<1>2. ASSUME NEW k \in 1..n, k - 1 \in A PROVE k \in A
  <2>0. k \in 0..n /\ k \in Nat /\ k - 1 \in Nat
    BY <1>0
  <2>1. PICK g : Sol(g, k - 1)
    BY <1>2
  <2> DEFINE u == [p \in Below(st, k) |-> OrderBody(st, g, p)]
  <2>2. \A p \in Below(st, k - 1) : g[p] = OrderBody(st, g, p) /\ p \in Below(st, k)
    <3>1. \A p \in Below(st, k - 1) : p \in Below(st, k)
      BY <2>0, <1>0 DEF Below
    <3> QED BY <2>1, <3>1
  <2>3. ASSUME NEW p \in Below(st, k) PROVE OrderBody(st, g, p) = OrderBody(st, u, p)
    <3>1. p \in Calls(st) /\ Rank(st, p) <= k
      BY DEF Below
    <3>2. ASSUME NEW q \in Calls(st), Rank(st, q) < Rank(st, p) PROVE g[q] = u[q]
      <4>1. q \in Below(st, k - 1)
        BY <1>0, <2>0, <3>1, <3>2 DEF Below
      <4>2. g[q] = OrderBody(st, g, q) /\ q \in Below(st, k)
        BY <4>1, <2>2
      <4> QED BY <4>2
    <3> HIDE DEF u
    <3> QED BY <3>1, <3>2, BodySame
  <2>4. Sol(u, k)
    BY <2>3
  <2> HIDE DEF Sol, u, n
  <2> QED BY <2>0, <2>4
<1>3. n \in A
  <2>1. n \in 0..n
    BY <1>0
  <2> HIDE DEF A, n
  <2> QED BY <1>0, <1>1, <1>2, <2>1, AllPositions
<1>4. Below(st, n) = Calls(st)
  BY <1>0 DEF Below
<1> QED BY <1>3, <1>4

(* A refresh of a type object recomputes type objects and completed types, *)
(* the object itself last.                                                 *)
LEMMA OrderTyped ==
    ASSUME prog \in Programs, NEW st, WellFormed(st), NEW x \in DOMAIN st.cp
    PROVE  \E ys \in Seq(Touched(st)) : RefreshOrder(x, st) = Append(ys, x)
<1> DEFINE Order == CHOOSE g : g = [p \in Calls(st) |-> OrderBody(st, g, p)]
           n == Cardinality(AllTypes(st))
<1>1. RefreshOrder(x, st) = Order[<<x, {}>>]
  BY DEF RefreshOrder, Calls, AllTypes, OrderBody, LeftAlone
<1>2. Order = [p \in Calls(st) |-> OrderBody(st, Order, p)]
  BY OrderExists
<1> HIDE DEF Order
<1>3. \A p \in Calls(st) : Order[p] = OrderBody(st, Order, p)
  BY <1>2
<1>4. n \in Nat /\ \A p \in Calls(st) : Rank(st, p) \in Nat /\ Rank(st, p) <= n
  BY RankTyped, TypesFinite, FS_CardinalityType
<1> DEFINE A == {k \in 0..n : \A p \in Below(st, k) : Order[p] \in Seq(Touched(st))}
<1>5. ASSUME NEW p \in Calls(st),
             \A q \in Calls(st) : Rank(st, q) < Rank(st, p) => Order[q] \in Seq(Touched(st))
      PROVE  Order[p] \in Seq(Touched(st))
  BY <1>3, <1>5, BodyTyped
<1>6. 0 \in A
  <2>1. ASSUME NEW p \in Below(st, 0) PROVE Order[p] \in Seq(Touched(st))
    <3>1. p \in Calls(st) /\ \A q \in Calls(st) : ~(Rank(st, q) < Rank(st, p))
      BY <1>4 DEF Below
    <3> QED BY <3>1, <1>5
  <2> QED BY <1>4, <2>1
<1>7. ASSUME NEW k \in 1..n, k - 1 \in A PROVE k \in A
  <2>0. k \in 0..n /\ k \in Nat /\ k - 1 \in Nat
    BY <1>4
  <2>1. ASSUME NEW p \in Below(st, k) PROVE Order[p] \in Seq(Touched(st))
    <3>1. p \in Calls(st) /\ Rank(st, p) <= k
      BY DEF Below
    <3>2. \A q \in Calls(st) : Rank(st, q) < Rank(st, p) => q \in Below(st, k - 1)
      BY <1>4, <2>0, <3>1 DEF Below
    <3>3. \A q \in Below(st, k - 1) : Order[q] \in Seq(Touched(st))
      BY <1>7
    <3> QED BY <3>1, <3>2, <3>3, <1>5
  <2> HIDE DEF n
  <2> QED BY <2>0, <2>1
<1>8. n \in A
  <2>1. n \in 0..n
    BY <1>4
  <2> HIDE DEF A, n
  <2> QED BY <1>4, <1>6, <1>7, <2>1, AllPositions
<1>9. \A q \in Calls(st) : Order[q] \in Seq(Touched(st))
  <2>1. Below(st, n) = Calls(st)
    BY <1>4 DEF Below
  <2> QED BY <1>8, <2>1
<1> DEFINE p == <<x, {}>>
<1>10. x \in Objects /\ x \in AllTypes(st) /\ p \in Calls(st) /\ p[1] = x /\ p[2] = {}
  BY DEF WellFormed, AllTypes, Calls
<1>11. ~LeftAlone(st, x)
  BY <1>10, ObjectShape DEF LeftAlone
<1>12. \E ys \in Seq(Touched(st)) : OrderBody(st, Order, p) = Append(ys, p[1])
  <2> HIDE DEF p
  <2> QED BY <1>9, <1>10, <1>11, BodyTyped
<1> QED BY <1>1, <1>3, <1>10, <1>12
-----------------------------------------------------------------------------
(* Recomputing types one after the other stays in every set of states that *)
(* recomputing one of them stays in.                                       *)
LEMMA RecomputeAllKeeps ==
    ASSUME NEW S, NEW st \in S, NEW T, NEW xs, xs \in Seq(T),
           \A s \in S : \A y \in T : Recompute(s, y) \in S
    PROVE  /\ RecomputeAll(st, xs) \in S
           /\ Len(xs) # 0 => \E s \in S : RecomputeAll(st, xs) = Recompute(s, xs[Len(xs)])
<1> DEFINE n == Len(xs)
           Def(g) == [k \in 0..n |-> IF k = 0 THEN st
                        ELSE Strict(LAMBDA s : Recompute(s, xs[k]), g[k - 1])]
           Run == CHOOSE g : g = Def(g)
           h == [k \in 1..n |-> [s \in S |-> Recompute(s, xs[k])]]
<1>0. n \in Nat /\ \A k \in 1..n : xs[k] \in T
  OBVIOUS
<1>1. RecomputeAll(st, xs) = Run[n]
  BY DEF RecomputeAll
<1>2. \A k \in 1..n : \A s \in S : Recompute(s, xs[k]) \in S
  BY <1>0
<1>3. Steps(h, n, S)
  BY <1>2 DEF Steps
<1>4. PICK g : IsRun(g, n, S, st, h)
  <2> HIDE DEF h, n
  <2> QED BY <1>0, <1>3, RunsExist
<1>5. \A k \in 1..n : g[k] = Recompute(g[k - 1], xs[k])
  <2>1. \A k \in 1..n : k - 1 \in 0..n
    BY <1>0
  <2>2. \A k \in 1..n : g[k - 1] \in S /\ g[k] = h[k][g[k - 1]]
    <3> HIDE DEF h, n
    <3> QED BY <1>4, <2>1 DEF IsRun
  <2> HIDE DEF n
  <2> QED BY <2>2
<1>6. \A u : Def(u) = [k \in 0..n |-> IF k = 0 THEN st ELSE Recompute(u[k - 1], xs[k])]
  BY DEF Strict
<1>7. \A k \in 0..n : k # 0 => k \in 1..n
  BY <1>0
<1>8. g = Def(g)
  <2> HIDE DEF Def, n, h
  <2> QED BY <1>4, <1>5, <1>6, <1>7 DEF IsRun
<1>9. Run = Def(Run)
  <2> HIDE DEF Def
  <2> QED BY <1>8
<1> HIDE DEF Def, Run, n, h
<1>10. Run[0] = st /\ \A k \in 1..n : Run[k] = Recompute(Run[k - 1], xs[k])
  <2>1. \A k \in 1..n : k \in 0..n /\ k # 0
    BY <1>0
  <2>2. Run = [k \in 0..n |-> IF k = 0 THEN st ELSE Recompute(Run[k - 1], xs[k])]
    BY <1>6, <1>9
  <2> QED BY <1>0, <2>1, <2>2
<1> DEFINE A == {k \in 0..n : Run[k] \in S}
<1>11. 0 \in A /\ \A k \in 1..n : k - 1 \in A => k \in A
  BY <1>0, <1>2, <1>10
<1>12. \A k \in 0..n : Run[k] \in S
  <2>1. \A k \in 0..n : k \in A
    <3> HIDE DEF A
    <3> QED BY <1>0, <1>11, AllPositions
  <2> QED BY <2>1
<1>13. RecomputeAll(st, xs) \in S
  BY <1>0, <1>1, <1>12
<1>14. ASSUME n # 0 PROVE \E s \in S : RecomputeAll(st, xs) = Recompute(s, xs[n])
  <2>1. n \in 1..n /\ n - 1 \in 0..n
    BY <1>0, <1>14
  <2> QED BY <2>1, <1>1, <1>10, <1>12
<1> QED BY <1>13, <1>14 DEF n

LEMMA RefreshKeeps ==
    ASSUME prog \in Programs, NEW st, WellFormed(st), NEW S, st \in S,
           \A s \in S : \A y \in Touched(st) : Recompute(s, y) \in S,
           NEW x \in DOMAIN st.cp
    PROVE  /\ refreshLayout(st, x) \in S
           /\ \E s \in S : refreshLayout(st, x) = Recompute(s, x)
<1>1. PICK ys \in Seq(Touched(st)) : RefreshOrder(x, st) = Append(ys, x)
  BY OrderTyped
<1> DEFINE xs == Append(ys, x)
<1>2. refreshLayout(st, x) = RecomputeAll(st, xs)
  BY <1>1 DEF refreshLayout, Strict
<1>3. x \in Touched(st)
  BY DEF Touched
<1>4. xs \in Seq(Touched(st)) /\ Len(xs) # 0 /\ xs[Len(xs)] = x
  BY <1>3
<1> HIDE DEF xs
<1> QED BY <1>2, <1>4, RecomputeAllKeeps

(* The dependents refreshed one after the other: R[k] is where k of them   *)
(* lead.                                                                   *)
LEMMA FinalizeKeeps ==
    ASSUME NEW d, NEW st, NEW T, st.ds \in Seq(T), NEW R, st \in R[0],
           \A k \in 1..Len(st.ds) : \A s \in R[k - 1] : refreshLayout(s, st.ds[k]) \in R[k]
    PROVE  finalizePlaceholder(d, st) \in R[Len(st.ds)]
<1> DEFINE n == Len(st.ds)
           Def(g) == [k \in 0..n |-> IF k = 0 THEN st
                        ELSE Strict(LAMBDA s : refreshLayout(s, st.ds[k]), g[k - 1])]
           Told == CHOOSE g : g = Def(g)
           S == UNION {R[k] : k \in 0..n}
           h == [k \in 1..n |-> [s \in S |->
                    IF s \in R[k - 1] THEN refreshLayout(s, st.ds[k]) ELSE s]]
<1>0. n \in Nat
  OBVIOUS
<1>1. finalizePlaceholder(d, st) = Told[n]
  BY DEF finalizePlaceholder
<1>2. \A k \in 0..n : R[k] \subseteq S
  OBVIOUS
<1>3. \A k \in 1..n : k \in 0..n /\ k - 1 \in 0..n /\ k # 0
  BY <1>0
<1>4. Steps(h, n, S) /\ st \in S
  <2>1. \A k \in 1..n : \A s \in S : s \in R[k - 1] => refreshLayout(s, st.ds[k]) \in S
    <3> HIDE DEF S
    <3> QED BY <1>2, <1>3 DEF n
  <2>2. st \in S
    <3> HIDE DEF S
    <3> QED BY <1>0, <1>2
  <2> HIDE DEF S, n
  <2> QED BY <2>1, <2>2 DEF Steps
<1>5. PICK g : IsRun(g, n, S, st, h)
  <2> HIDE DEF h, n, S
  <2> QED BY <1>0, <1>4, RunsExist
<1>6. \A k \in 1..n : g[k] = IF g[k - 1] \in R[k - 1] THEN refreshLayout(g[k - 1], st.ds[k])
                             ELSE g[k - 1]
  <2>1. \A k \in 1..n : g[k - 1] \in S /\ g[k] = h[k][g[k - 1]]
    <3> HIDE DEF h, n, S
    <3> QED BY <1>3, <1>5 DEF IsRun
  <2> HIDE DEF S, n
  <2> QED BY <2>1
<1> DEFINE A == {k \in 0..n : g[k] \in R[k]}
<1>7. \A k \in 0..n : g[k] \in R[k]
  <2>1. 0 \in A
    <3> HIDE DEF h, n, S
    <3> QED BY <1>0, <1>5 DEF IsRun
  <2>2. \A k \in 1..n : k - 1 \in A => k \in A
    BY <1>3, <1>6
  <2>3. \A k \in 0..n : k \in A
    <3> HIDE DEF A, n
    <3> QED BY <1>0, <2>1, <2>2, AllPositions
  <2> QED BY <2>3
<1>8. \A k \in 1..n : g[k] = refreshLayout(g[k - 1], st.ds[k])
  <2> HIDE DEF n
  <2> QED BY <1>3, <1>6, <1>7
<1>9. \A u : Def(u) = [k \in 0..n |-> IF k = 0 THEN st ELSE refreshLayout(u[k - 1], st.ds[k])]
  BY DEF Strict
<1>10. \A k \in 0..n : k # 0 => k \in 1..n
  BY <1>0
<1>11. g = Def(g)
  <2> HIDE DEF Def, n, h, S
  <2> QED BY <1>5, <1>8, <1>9, <1>10 DEF IsRun
<1>12. Told = Def(Told)
  <2> HIDE DEF Def
  <2> QED BY <1>11
<1> HIDE DEF Def, Told, n, h, S, A
<1>13. Told[0] = st /\ \A k \in 1..n : Told[k] = refreshLayout(Told[k - 1], st.ds[k])
  <2>1. Told = [k \in 0..n |-> IF k = 0 THEN st ELSE refreshLayout(Told[k - 1], st.ds[k])]
    BY <1>9, <1>12
  <2> QED BY <1>0, <1>3, <2>1
<1> DEFINE B == {k \in 0..n : Told[k] \in R[k]}
<1>14. 0 \in B /\ \A k \in 1..n : k - 1 \in B => k \in B
  <2>1. 0 \in B
    BY <1>0, <1>13
  <2>2. \A k \in 1..n : k - 1 \in B => k \in B
    BY <1>3, <1>13 DEF n
  <2> QED BY <2>1, <2>2
<1>15. n \in B
  <2>1. n \in 0..n
    BY <1>0
  <2> HIDE DEF B
  <2> QED BY <1>0, <1>14, <2>1, AllPositions
<1> QED BY <1>1, <1>15 DEF n
-----------------------------------------------------------------------------
(* The states a refresh that starts at st can lead to. *)
SameShape(st) ==
    {s \in [nm : [Decls -> NamedLayouts], nd : {st.nd},
            cp : [DOMAIN st.cp -> Layouts], ds : {st.ds}] :
        \A e \in Decls : s.nm[e].done = st.nm[e].done}

LEMMA FieldKinds ==
    ASSUME prog \in Programs, NEW d \in Decls, NEW f \in DOMAIN Fields(d)
    PROVE  /\ Fields(d)[f].kind \in {"u8", "i32", "val", "ptr", "slice", "opt", "arr"}
           /\ ~IsPrim(Fields(d)[f]) => Fields(d)[f].of \in Decls
           /\ Composite(Fields(d)[f]) => Fields(d)[f].of \in Decls
           /\ Composite(Fields(d)[f]) <=> ~IsPrim(Fields(d)[f]) /\ Fields(d)[f].kind # "val"
<1>1. Fields(d) \in Seq(FieldTypes) /\ (~IsPrim(Fields(d)[f]) => Fields(d)[f].of \in Decls)
  BY ProgramTypes
<1>2. Fields(d)[f] \in FieldTypes
  BY <1>1
<1>3. Fields(d)[f].kind \in {"u8", "i32", "val", "ptr", "slice", "opt", "arr"}
  BY <1>2 DEF FieldTypes
<1> QED BY <1>1, <1>3 DEF IsPrim, Composite

LEMMA AggregateTyped ==
    ASSUME prog \in Programs, NEW d \in Decls, NEW nm \in [Decls -> NamedLayouts], NEW nd,
           NEW D, NEW cp \in [D -> Layouts],
           \A f \in DOMAIN Fields(d) : Composite(Fields(d)[f]) => nd[d][f] \in D
    PROVE  /\ AggregateLayout(d, nm, nd, cp) \in NamedLayouts
           /\ AggregateLayout(d, nm, nd, cp).done = TRUE
<1> DEFINE ls == [f \in DOMAIN Fields(d) |-> FieldLayout(d, f, nm, nd, cp)]
<1>1. ASSUME NEW f \in DOMAIN Fields(d) PROVE FieldLayout(d, f, nm, nd, cp) \in Layouts
  <2> DEFINE t == Fields(d)[f]
  <2>1. CASE IsPrim(t)
    BY <2>1 DEF FieldLayout, PrimLayout, L, Layouts
  <2>2. CASE ~IsPrim(t) /\ t.kind = "val"
    <3>1. nm[t.of] \in NamedLayouts
      BY <2>2, FieldKinds
    <3>2. nm[t.of].size \in Nat /\ nm[t.of].align \in Nat
      BY <3>1 DEF NamedLayouts
    <3> QED BY <2>2, <3>2 DEF FieldLayout, L, Layouts
  <2>3. CASE ~IsPrim(t) /\ t.kind # "val"
    <3>1. nd[d][f] \in D
      BY <2>3, FieldKinds
    <3> QED BY <2>3, <3>1 DEF FieldLayout
  <2> QED BY <2>1, <2>2, <2>3
<1>2. Len(Fields(d)) \in Nat /\ DOMAIN Fields(d) = 1..Len(Fields(d))
  <2>1. Fields(d) \in Seq(FieldTypes)
    BY ProgramTypes
  <2> QED BY <2>1
<1>3. ls \in Seq(Layouts)
  BY <1>1, <1>2
<1>4. AggregateLayout(d, nm, nd, cp) = calculateStructLayout(prog[d].kind, ls)
  BY DEF AggregateLayout
<1>5. calculateStructLayout(prog[d].kind, ls).done = TRUE
  BY DEF calculateStructLayout
<1> HIDE DEF ls
<1> QED BY <1>3, <1>4, <1>5, StructLayoutTyped

LEMMA SameShapeFacts ==
    ASSUME NEW st, WellFormed(st), NEW s \in SameShape(st)
    PROVE  /\ s = [nm |-> s.nm, nd |-> st.nd, cp |-> s.cp, ds |-> st.ds]
           /\ s.nm \in [Decls -> NamedLayouts]
           /\ DOMAIN s.cp = DOMAIN st.cp /\ s.cp \in [DOMAIN st.cp -> Layouts]
           /\ s.nd = st.nd /\ s.ds = st.ds
           /\ \A e \in Decls : s.nm[e].done = st.nm[e].done
           /\ WellFormed(s)
           /\ Touched(s) = Touched(st)
<1>1. /\ s = [nm |-> s.nm, nd |-> st.nd, cp |-> s.cp, ds |-> st.ds]
      /\ s.nm \in [Decls -> NamedLayouts]
      /\ DOMAIN s.cp = DOMAIN st.cp /\ s.cp \in [DOMAIN st.cp -> Layouts]
      /\ s.nd = st.nd /\ s.ds = st.ds
      /\ \A e \in Decls : s.nm[e].done = st.nm[e].done
  BY DEF SameShape
<1>2. WellFormed(s)
  BY <1>1 DEF WellFormed
<1>3. Touched(s) = Touched(st)
  BY <1>1 DEF Touched
<1> QED BY <1>1, <1>2, <1>3

(* What recomputing one type does. *)
LEMMA RecomputeCases ==
    ASSUME prog \in Programs, NEW st, WellFormed(st), NEW s \in SameShape(st),
           NEW y \in Touched(st)
    PROVE  /\ y \in DOMAIN st.cp =>
                Recompute(s, y) = [nm |-> s.nm, nd |-> st.nd, ds |-> st.ds,
                    cp |-> [s.cp EXCEPT ![y] = IF st.nm[y[2]].done
                                THEN LayoutOver(y[1], s.nm[y[2]]) ELSE s.cp[y]]]
           /\ y \notin DOMAIN st.cp =>
                \E d \in Decls :
                    /\ st.nm[d].done /\ y = Named(d)
                    /\ Recompute(s, y) = [nm |-> [s.nm EXCEPT ![d] =
                                            AggregateLayout(d, s.nm, st.nd, s.cp)],
                           nd |-> st.nd, ds |-> st.ds, cp |-> s.cp]
<1>0. /\ s = [nm |-> s.nm, nd |-> st.nd, cp |-> s.cp, ds |-> st.ds]
      /\ s.nd = st.nd
      /\ \A e \in Decls : s.nm[e].done = st.nm[e].done
  BY SameShapeFacts
<1>1. ASSUME y \in DOMAIN st.cp
      PROVE  Recompute(s, y) = [nm |-> s.nm, nd |-> st.nd, ds |-> st.ds,
                    cp |-> [s.cp EXCEPT ![y] = IF st.nm[y[2]].done
                                THEN LayoutOver(y[1], s.nm[y[2]]) ELSE s.cp[y]]]
  <2>1. y \in Objects
    BY <1>1 DEF WellFormed
  <2>2. y[1] # "named" /\ s.nm[y[2]].done = st.nm[y[2]].done
    BY <2>1, <1>0, ObjectShape
  <2>3. Recompute(s, y) = [s EXCEPT !.cp[y] = IF st.nm[y[2]].done
                                THEN LayoutOver(y[1], s.nm[y[2]]) ELSE s.cp[y]]
    BY <2>2 DEF Recompute
  <2> DEFINE w == IF st.nm[y[2]].done THEN LayoutOver(y[1], s.nm[y[2]]) ELSE s.cp[y]
  <2> HIDE DEF w
  <2>4. [s EXCEPT !.cp[y] = w] = [nm |-> s.nm, nd |-> st.nd, ds |-> st.ds,
                                  cp |-> [s.cp EXCEPT ![y] = w]]
    BY <1>0
  <2> QED BY <2>3, <2>4 DEF w
<1>2. ASSUME y \notin DOMAIN st.cp
      PROVE  \E d \in Decls :
                    /\ st.nm[d].done /\ y = Named(d)
                    /\ Recompute(s, y) = [nm |-> [s.nm EXCEPT ![d] =
                                            AggregateLayout(d, s.nm, st.nd, s.cp)],
                           nd |-> st.nd, ds |-> st.ds, cp |-> s.cp]
  <2>1. PICK d \in Decls : st.nm[d].done /\ y = Named(d)
    BY <1>2 DEF Touched
  <2> DEFINE w == AggregateLayout(d, s.nm, st.nd, s.cp)
  <2>2. Recompute(s, y) = [s EXCEPT !.nm[d] = w]
    BY <2>1, <1>0, NamedShape DEF Recompute
  <2> HIDE DEF w
  <2>3. [s EXCEPT !.nm[d] = w] = [nm |-> [s.nm EXCEPT ![d] = w],
                                  nd |-> st.nd, ds |-> st.ds, cp |-> s.cp]
    BY <1>0
  <2> QED BY <2>1, <2>2, <2>3 DEF w
<1> QED BY <1>1, <1>2

LEMMA RecomputeTyped ==
    ASSUME prog \in Programs, NEW st, WellFormed(st), NEW s \in SameShape(st),
           NEW y \in Touched(st)
    PROVE  Recompute(s, y) \in SameShape(st)
<1>0. /\ s.nm \in [Decls -> NamedLayouts]
      /\ DOMAIN s.cp = DOMAIN st.cp /\ s.cp \in [DOMAIN st.cp -> Layouts]
      /\ \A e \in Decls : s.nm[e].done = st.nm[e].done
  BY SameShapeFacts
<1>1. CASE y \in DOMAIN st.cp
  <2> DEFINE w == IF st.nm[y[2]].done THEN LayoutOver(y[1], s.nm[y[2]]) ELSE s.cp[y]
  <2>1. y[1] \in {"ptr", "slice", "opt", "arr"} /\ y[2] \in Decls
    BY <1>1, ObjectShape DEF WellFormed
  <2>2. w \in Layouts
    BY <1>0, <1>1, <2>1, LayoutOverTyped
  <2>3. Recompute(s, y) = [nm |-> s.nm, nd |-> st.nd, ds |-> st.ds,
                           cp |-> [s.cp EXCEPT ![y] = w]]
    BY <1>1, RecomputeCases
  <2> HIDE DEF w
  <2>4. [s.cp EXCEPT ![y] = w] \in [DOMAIN st.cp -> Layouts]
    BY <1>0, <2>2
  <2> QED BY <1>0, <2>3, <2>4 DEF SameShape
<1>2. CASE y \notin DOMAIN st.cp
  <2>1. PICK d \in Decls :
           /\ st.nm[d].done
           /\ Recompute(s, y) = [nm |-> [s.nm EXCEPT ![d] = AggregateLayout(d, s.nm, st.nd, s.cp)],
                                 nd |-> st.nd, ds |-> st.ds, cp |-> s.cp]
    BY <1>2, RecomputeCases
  <2> DEFINE w == AggregateLayout(d, s.nm, st.nd, s.cp)
  <2>2. w \in NamedLayouts /\ w.done = TRUE
    <3>1. \A f \in DOMAIN Fields(d) : Composite(Fields(d)[f]) => st.nd[d][f] \in DOMAIN st.cp
      BY <2>1 DEF WellFormed
    <3> QED BY <1>0, <3>1, AggregateTyped
  <2>3. st.nm[d].done = TRUE
    <3>1. st.nm[d] \in NamedLayouts
      BY DEF WellFormed
    <3> QED BY <2>1, <3>1 DEF NamedLayouts
  <2> DEFINE nm == [s.nm EXCEPT ![d] = w]
  <2>4. Recompute(s, y) = [nm |-> nm, nd |-> st.nd, ds |-> st.ds, cp |-> s.cp]
    BY <2>1
  <2> HIDE DEF w
  <2>5. nm \in [Decls -> NamedLayouts] /\ \A e \in Decls : nm[e].done = st.nm[e].done
    BY <1>0, <2>2, <2>3
  <2> HIDE DEF nm
  <2> QED BY <1>0, <2>4, <2>5 DEF SameShape
<1> QED BY <1>1, <1>2
(* Refreshing the dependents keeps the types. *)
LEMMA FinalizeTyped ==
    ASSUME prog \in Programs, NEW d, NEW st, WellFormed(st), st \in SameShape(st)
    PROVE  finalizePlaceholder(d, st) \in SameShape(st)
<1> DEFINE n == Len(st.ds)
           R == [k \in 0..n |-> SameShape(st)]
<1>0. st.ds \in Seq(DOMAIN st.cp) /\ n \in Nat
  BY DEF WellFormed
<1>1. ASSUME NEW k \in 1..n, NEW s \in SameShape(st)
      PROVE  refreshLayout(s, st.ds[k]) \in SameShape(st)
  <2>1. WellFormed(s) /\ Touched(s) = Touched(st) /\ DOMAIN s.cp = DOMAIN st.cp
    BY SameShapeFacts
  <2>2. st.ds[k] \in DOMAIN s.cp
    BY <1>0, <2>1
  <2>3. \A u \in SameShape(st) : \A y \in Touched(s) : Recompute(u, y) \in SameShape(st)
    BY <2>1, RecomputeTyped
  <2> QED BY <2>1, <2>2, <2>3, RefreshKeeps
<1>2. st \in R[0] /\ R[n] = SameShape(st)
  BY <1>0
<1>3. \A k \in 1..n : \A s \in R[k - 1] : refreshLayout(s, st.ds[k]) \in R[k]
  BY <1>0, <1>1
<1> HIDE DEF R
<1> QED BY <1>0, <1>2, <1>3, FinalizeKeeps

-----------------------------------------------------------------------------
(* In a settled state the completed types have the layouts their fields    *)
(* give them, and the fields those of what they are built on.              *)
Settled(st) ==
    \A e \in Decls : st.nm[e].done =>
        /\ st.nm[e] = AggregateLayout(e, st.nm, st.nd, st.cp)
        /\ \A f \in DOMAIN Fields(e) : Composite(Fields(e)[f]) =>
              LET o == st.nd[e][f]
              IN  st.nm[o[2]].done => st.cp[o] = LayoutOver(o[1], st.nm[o[2]])

(* A refresh that starts there changes objects only, to the layout of what *)
(* they are built on; those of Q have it already.                          *)
OnlyObjects(st, Q) ==
    {s \in SameShape(st) :
        /\ s.nm = st.nm
        /\ \A o \in DOMAIN st.cp :
              IF st.nm[o[2]].done
                THEN \/ s.cp[o] = LayoutOver(o[1], st.nm[o[2]])
                     \/ s.cp[o] = st.cp[o] /\ o \notin Q
                ELSE s.cp[o] = st.cp[o]}

(* Aggregates depend on the layouts of their fields only. *)
LEMMA AggregateSame ==
    ASSUME NEW e, NEW nm, NEW nd, NEW cp, NEW nm2, NEW nd2, NEW cp2,
           \A f \in DOMAIN Fields(e) :
               FieldLayout(e, f, nm, nd, cp) = FieldLayout(e, f, nm2, nd2, cp2)
    PROVE  AggregateLayout(e, nm, nd, cp) = AggregateLayout(e, nm2, nd2, cp2)
<1>1. [f \in DOMAIN Fields(e) |-> FieldLayout(e, f, nm, nd, cp)]
        = [f \in DOMAIN Fields(e) |-> FieldLayout(e, f, nm2, nd2, cp2)]
  OBVIOUS
<1> QED BY <1>1 DEF AggregateLayout

LEMMA SettledAggregates ==
    ASSUME prog \in Programs, NEW st, WellFormed(st), Settled(st),
           NEW Q, NEW s \in OnlyObjects(st, Q), NEW e \in Decls, st.nm[e].done
    PROVE  AggregateLayout(e, s.nm, st.nd, s.cp) = st.nm[e]
<1>1. /\ s.nm = st.nm
      /\ \A o \in DOMAIN st.cp :
              IF st.nm[o[2]].done
                THEN s.cp[o] = LayoutOver(o[1], st.nm[o[2]]) \/ s.cp[o] = st.cp[o]
                ELSE s.cp[o] = st.cp[o]
  BY DEF OnlyObjects
<1>2. ASSUME NEW f \in DOMAIN Fields(e)
      PROVE  FieldLayout(e, f, s.nm, st.nd, s.cp) = FieldLayout(e, f, st.nm, st.nd, st.cp)
  <2>1. CASE ~Composite(Fields(e)[f])
    <3>1. IsPrim(Fields(e)[f]) \/ Fields(e)[f].kind = "val"
      BY <2>1, FieldKinds
    <3> QED BY <3>1, <1>1 DEF FieldLayout
  <2>2. CASE Composite(Fields(e)[f])
    <3> DEFINE o == st.nd[e][f]
    <3>1. o \in DOMAIN st.cp
      BY <2>2 DEF WellFormed
    <3>2. st.nm[o[2]].done => st.cp[o] = LayoutOver(o[1], st.nm[o[2]])
      BY <2>2 DEF Settled
    <3>3. s.cp[o] = st.cp[o]
      BY <1>1, <3>1, <3>2
    <3> QED BY <1>1, <3>3 DEF FieldLayout
  <2> QED BY <2>1, <2>2
<1>3. st.nm[e] = AggregateLayout(e, st.nm, st.nd, st.cp)
  BY DEF Settled
<1> QED BY <1>2, <1>3, AggregateSame

LEMMA RecomputeSettled ==
    ASSUME prog \in Programs, NEW st, WellFormed(st), Settled(st),
           NEW Q, NEW s \in OnlyObjects(st, Q), NEW y \in Touched(st)
    PROVE  /\ Recompute(s, y) \in OnlyObjects(st, Q)
           /\ y \in DOMAIN st.cp => Recompute(s, y) \in OnlyObjects(st, Q \cup {y})
<1>0. s \in SameShape(st) /\ s.nm = st.nm /\ DOMAIN s.cp = DOMAIN st.cp
  BY SameShapeFacts DEF OnlyObjects
<1>1. Recompute(s, y) \in SameShape(st)
  BY <1>0, RecomputeTyped
<1>2. \A o \in DOMAIN st.cp :
              IF st.nm[o[2]].done
                THEN \/ s.cp[o] = LayoutOver(o[1], st.nm[o[2]])
                     \/ s.cp[o] = st.cp[o] /\ o \notin Q
                ELSE s.cp[o] = st.cp[o]
  BY DEF OnlyObjects
<1>3. CASE y \in DOMAIN st.cp
  <2> DEFINE w == IF st.nm[y[2]].done THEN LayoutOver(y[1], st.nm[y[2]]) ELSE s.cp[y]
             t == Recompute(s, y)
  <2>1. t = [nm |-> s.nm, nd |-> st.nd, ds |-> st.ds, cp |-> [s.cp EXCEPT ![y] = w]]
    BY <1>0, <1>3, RecomputeCases
  <2>2. t.nm = st.nm /\ t.cp = [s.cp EXCEPT ![y] = w]
    BY <1>0, <2>1
  <2>3. t.cp[y] = w /\ \A o \in DOMAIN st.cp : o # y => t.cp[o] = s.cp[o]
    <3> HIDE DEF t, w
    <3> QED BY <1>0, <1>3, <2>2
  <2>4. t \in SameShape(st)
    BY <1>1
  <2> HIDE DEF t
  <2>5. ASSUME NEW o \in DOMAIN st.cp
        PROVE  IF st.nm[o[2]].done
                THEN \/ t.cp[o] = LayoutOver(o[1], st.nm[o[2]])
                     \/ t.cp[o] = st.cp[o] /\ o \notin Q \cup {y}
                ELSE t.cp[o] = st.cp[o]
    <3>1. CASE o = y
      BY <3>1, <2>3, <1>2
    <3>2. CASE o # y
      BY <3>2, <2>3, <1>2
    <3> QED BY <3>1, <3>2
  <2>6. t \in OnlyObjects(st, Q \cup {y}) /\ t \in OnlyObjects(st, Q)
    BY <2>2, <2>4, <2>5 DEF OnlyObjects
  <2> QED BY <2>6 DEF t
<1>4. CASE y \notin DOMAIN st.cp
  <2>1. PICK d \in Decls :
           /\ st.nm[d].done
           /\ Recompute(s, y) = [nm |-> [s.nm EXCEPT ![d] = AggregateLayout(d, s.nm, st.nd, s.cp)],
                                 nd |-> st.nd, ds |-> st.ds, cp |-> s.cp]
    BY <1>0, <1>4, RecomputeCases
  <2>2. AggregateLayout(d, s.nm, st.nd, s.cp) = st.nm[d]
    BY <2>1, SettledAggregates
  <2>3. [s.nm EXCEPT ![d] = st.nm[d]] = st.nm
    <3>1. st.nm \in [Decls -> NamedLayouts]
      BY DEF WellFormed
    <3> QED BY <1>0, <3>1
  <2>4. Recompute(s, y) = [nm |-> st.nm, nd |-> st.nd, ds |-> st.ds, cp |-> s.cp]
    BY <2>1, <2>2, <2>3
  <2>5. Recompute(s, y).nm = st.nm /\ Recompute(s, y).cp = s.cp
    BY <2>4
  <2> QED BY <1>1, <1>2, <1>4, <2>5 DEF OnlyObjects
<1> QED BY <1>3, <1>4

(* Once the dependents are refreshed, all of them have the layout of what  *)
(* they are built on, and nothing else has changed.                        *)
LEMMA FinalizeSettled ==
    ASSUME prog \in Programs, NEW d, NEW st, WellFormed(st), Settled(st), st \in SameShape(st)
    PROVE  finalizePlaceholder(d, st)
              \in OnlyObjects(st, {st.ds[k] : k \in 1..Len(st.ds)})
<1> DEFINE n == Len(st.ds)
           Q(k) == {st.ds[i] : i \in 1..k}
           R == [k \in 0..n |-> OnlyObjects(st, Q(k))]
<1>0. st.ds \in Seq(DOMAIN st.cp) /\ n \in Nat
  BY DEF WellFormed
<1>1. ASSUME NEW k \in 1..n, NEW s \in OnlyObjects(st, Q(k - 1))
      PROVE  refreshLayout(s, st.ds[k]) \in OnlyObjects(st, Q(k))
  <2> DEFINE x == st.ds[k]
             P == Q(k - 1)
  <2>0. s \in SameShape(st) /\ s \in OnlyObjects(st, P)
    BY DEF OnlyObjects
  <2>1. WellFormed(s) /\ Touched(s) = Touched(st) /\ DOMAIN s.cp = DOMAIN st.cp
    BY <2>0, SameShapeFacts
  <2>2. x \in DOMAIN s.cp /\ x \in DOMAIN st.cp /\ x \in Touched(st)
    BY <1>0, <2>1 DEF Touched
  <2>3. Q(k) = P \cup {x}
    <3>1. 1..k = (1..(k - 1)) \cup {k}
      BY <1>0
    <3> QED BY <3>1
  <2> HIDE DEF Q, P, x
  <2>4. \A u \in OnlyObjects(st, P) : \A y \in Touched(s) : Recompute(u, y) \in OnlyObjects(st, P)
    BY <2>1, RecomputeSettled
  <2>5. PICK u \in OnlyObjects(st, P) : refreshLayout(s, x) = Recompute(u, x)
    BY <2>0, <2>1, <2>2, <2>4, RefreshKeeps
  <2>6. Recompute(u, x) \in OnlyObjects(st, P \cup {x})
    BY <2>2, RecomputeSettled
  <2> QED BY <2>3, <2>5, <2>6 DEF x
<1>2. st \in R[0] /\ R[n] = OnlyObjects(st, Q(n))
  <2>1. Q(0) = {}
    OBVIOUS
  <2>2. st \in OnlyObjects(st, {})
    BY DEF OnlyObjects
  <2> HIDE DEF Q
  <2> QED BY <1>0, <2>1, <2>2
<1>3. \A k \in 1..n : \A s \in R[k - 1] : refreshLayout(s, st.ds[k]) \in R[k]
  <2>1. \A k \in 1..n : R[k - 1] = OnlyObjects(st, Q(k - 1)) /\ R[k] = OnlyObjects(st, Q(k))
    <3> HIDE DEF Q
    <3> QED BY <1>0
  <2> HIDE DEF Q, R
  <2> QED BY <1>1, <2>1
<1>4. finalizePlaceholder(d, st) \in R[n]
  <2> HIDE DEF R, Q
  <2> QED BY <1>0, <1>2, <1>3, FinalizeKeeps
<1> QED BY <1>2, <1>4
-----------------------------------------------------------------------------
(* The state of the resolver. *)
CompOK(cp) ==
    DOMAIN cp \in SUBSET Objects /\ IsFiniteSet(DOMAIN cp) /\ cp \in [DOMAIN cp -> Layouts]
NodesOK(nd, cp) ==
    /\ DOMAIN nd = Decls
    /\ \A d \in Decls :
          /\ DOMAIN nd[d] = DOMAIN Fields(d)
          /\ \A f \in DOMAIN Fields(d) : nd[d][f] # NoType =>
                /\ nd[d][f] \in DOMAIN cp
                /\ nd[d][f][1] = Fields(d)[f].kind /\ nd[d][f][2] = Fields(d)[f].of
Filled(nd, d) == \A f \in DOMAIN Fields(d) : Composite(Fields(d)[f]) => nd[d][f] # NoType
Listed(o, ds) == \E k \in DOMAIN ds[o[2]] : ds[o[2]][k] = o

(* The objects that are made when the fields of d are visited. *)
LEMMA ObjectTyped ==
    ASSUME prog \in Programs, NEW d \in Decls, NEW f \in DOMAIN Fields(d),
           Composite(Fields(d)[f])
    PROVE  /\ ObjectOf(d, f) \in Objects
           /\ ObjectOf(d, f)[1] = Fields(d)[f].kind /\ ObjectOf(d, f)[2] = Fields(d)[f].of
<1>1. Fields(d)[f].kind \in {"ptr", "slice", "opt", "arr"} /\ Fields(d)[f].of \in Decls
  BY FieldKinds DEF Composite
<1>2. d \in Nat /\ f \in Nat
  BY ProgramTypes
<1> QED BY <1>1, <1>2 DEF ObjectOf, Objects

LEMMA FreshFields ==
    ASSUME prog \in Programs, NEW d \in Decls
    PROVE  /\ Fresh(d) \in SUBSET DOMAIN Fields(d)
           /\ \A f \in Fresh(d) : Composite(Fields(d)[f]) /\ node[d][f] = NoType
           /\ IsFiniteSet(Fresh(d))
           /\ Ready(d) => \A f \in DOMAIN Fields(d) :
                  Composite(Fields(d)[f]) /\ node[d][f] = NoType => f \in Fresh(d)
<1>1. Len(Fields(d)) \in Nat /\ DOMAIN Fields(d) = 1..Len(Fields(d))
  <2>1. Fields(d) \in Seq(FieldTypes)
    BY ProgramTypes
  <2> QED BY <2>1
<1> DEFINE bad == {f \in DOMAIN Fields(d) : ~isTypeComplete(Fields(d)[f])}
<1>2. Stop(d) = 0 \/ Stop(d) \in DOMAIN Fields(d)
  <2>1. Stop(d) = IF bad = {} THEN 0 ELSE CHOOSE f \in bad : \A g \in bad : f <= g
    BY DEF Stop
  <2>2. bad # {} => \E f \in bad : \A g \in bad : f <= g
    <3>1. bad \in SUBSET Nat
      BY <1>1
    <3> HIDE DEF bad
    <3> QED BY <3>1, LeastExists
  <2>3. bad \subseteq DOMAIN Fields(d)
    OBVIOUS
  <2> HIDE DEF bad
  <2> QED BY <2>1, <2>2, <2>3
<1>3. Visited(d) \subseteq DOMAIN Fields(d)
  BY <1>1, <1>2 DEF Visited
<1>4. Fresh(d) \in SUBSET DOMAIN Fields(d)
      /\ \A f \in Fresh(d) : Composite(Fields(d)[f]) /\ node[d][f] = NoType
  BY <1>3 DEF Fresh
<1>5. IsFiniteSet(DOMAIN Fields(d))
  BY <1>1, FS_Interval
<1>6. IsFiniteSet(Fresh(d))
  BY <1>4, <1>5, FS_Subset
<1>7. Ready(d) => Visited(d) = DOMAIN Fields(d)
  BY StopsUnlessReady DEF Visited
<1> QED BY <1>4, <1>6, <1>7 DEF Fresh

(* The dependents registered for some fields are these fields' objects. *)
LEMMA RegisteredTyped ==
    ASSUME prog \in Programs, NEW d \in Decls, NEW fs, fs \in SUBSET DOMAIN Fields(d), NEW D,
           \A f \in fs : ObjectOf(d, f) \in D
    PROVE  /\ Registered(d, fs) \in Seq(D)
           /\ \A f \in fs : \E k \in DOMAIN Registered(d, fs) :
                 Registered(d, fs)[k] = ObjectOf(d, f)
<1> DEFINE n == Len(Fields(d))
           Def(g) == [f \in 0..n |-> IF f = 0 THEN <<>>
                        ELSE IF f \in fs THEN Append(g[f - 1], ObjectOf(d, f)) ELSE g[f - 1]]
           Upto == CHOOSE g : g = Def(g)
           S == Seq(D)
           h == [f \in 1..n |-> [s \in S |-> IF f \in fs THEN Append(s, ObjectOf(d, f)) ELSE s]]
<1>0. n \in Nat /\ DOMAIN Fields(d) = 1..n
  <2>1. Fields(d) \in Seq(FieldTypes)
    BY ProgramTypes
  <2> QED BY <2>1
<1>1. Registered(d, fs) = Upto[n]
  BY DEF Registered
<1>2. Steps(h, n, S) /\ <<>> \in S
  BY DEF Steps
<1>3. PICK g : IsRun(g, n, S, <<>>, h)
  <2> HIDE DEF h, n, S
  <2> QED BY <1>0, <1>2, RunsExist
<1>4. \A f \in 1..n : f \in 0..n /\ f - 1 \in 0..n /\ f # 0
  BY <1>0
<1>5. \A f \in 1..n : g[f] = IF f \in fs THEN Append(g[f - 1], ObjectOf(d, f)) ELSE g[f - 1]
  <2>1. \A f \in 1..n : g[f - 1] \in S /\ g[f] = h[f][g[f - 1]]
    <3> HIDE DEF h, n, S
    <3> QED BY <1>3, <1>4 DEF IsRun
  <2> HIDE DEF n, S
  <2> QED BY <2>1
<1>6. \A f \in 0..n : f # 0 => f \in 1..n
  BY <1>0
<1>7. g = Def(g)
  <2>1. g[0] = <<>> /\ DOMAIN g = 0..n /\ g = [f \in DOMAIN g |-> g[f]]
    <3> HIDE DEF h, n, S
    <3> QED BY <1>3 DEF IsRun
  <2>2. Def(g) = [f \in 0..n |-> IF f = 0 THEN <<>>
                    ELSE IF f \in fs THEN Append(g[f - 1], ObjectOf(d, f)) ELSE g[f - 1]]
    OBVIOUS
  <2> HIDE DEF Def, n, S, h
  <2> QED BY <1>5, <1>6, <2>1, <2>2
<1>8. Upto = Def(Upto)
  <2> HIDE DEF Def
  <2> QED BY <1>7
<1>9. Upto[0] = <<>> /\ \A f \in 1..n : Upto[f] = IF f \in fs
                            THEN Append(Upto[f - 1], ObjectOf(d, f)) ELSE Upto[f - 1]
  <2> DEFINE Next1(f) == IF f \in fs THEN Append(Upto[f - 1], ObjectOf(d, f)) ELSE Upto[f - 1]
  <2>1. Def(Upto) = [f \in 0..n |-> IF f = 0 THEN <<>> ELSE Next1(f)]
    OBVIOUS
  <2> HIDE DEF Def, Upto, n, Next1
  <2>2. Def(Upto)[0] = <<>> /\ \A f \in 1..n : Def(Upto)[f] = Next1(f)
    BY <1>0, <1>4, <2>1
  <2>3. Upto[0] = <<>> /\ \A f \in 1..n : Upto[f] = Next1(f)
    BY <1>8, <2>2
  <2> QED BY <2>3 DEF Next1
<1> HIDE DEF Def, Upto, n, h, S
<1> DEFINE Good(k) == /\ Upto[k] \in Seq(D)
                      /\ \A f \in fs : f <= k => \E j \in DOMAIN Upto[k] :
                              Upto[k][j] = ObjectOf(d, f)
           A == {k \in 0..n : Good(k)}
<1>10. \A f \in fs : f \in 1..n /\ f \in Nat
  BY <1>0
<1>11. 0 \in A
  <2>1. \A f \in fs : ~(f <= 0)
    BY <1>10
  <2>2. 0 \in 0..n /\ Upto[0] \in Seq(D)
    BY <1>0, <1>9
  <2> QED BY <2>1, <2>2
<1>12. ASSUME NEW k \in 1..n, k - 1 \in A PROVE k \in A
  <2> DEFINE s == Upto[k - 1]
             o == ObjectOf(d, k)
  <2>0. k \in 0..n /\ k \in Nat /\ k - 1 \in Nat
    BY <1>0
  <2>1. s \in Seq(D) /\ \A f \in fs : f <= k - 1 => \E j \in DOMAIN s : s[j] = ObjectOf(d, f)
    BY <1>12
  <2>2. Upto[k] = IF k \in fs THEN Append(s, o) ELSE s
    BY <1>9
  <2>3. CASE k \notin fs
    <3>1. \A f \in fs : f <= k => f <= k - 1
      BY <2>0, <2>3, <1>10
    <3>2. Upto[k] = s
      BY <2>2, <2>3
    <3> HIDE DEF s
    <3>3. Good(k)
      BY <2>1, <3>1, <3>2
    <3> HIDE DEF Good
    <3> QED BY <2>0, <3>3
  <2>4. CASE k \in fs
    <3>1. o \in D /\ Upto[k] = Append(s, o)
      BY <2>2, <2>4
    <3>2. \A f \in fs : f <= k => f <= k - 1 \/ f = k
      BY <2>0, <1>10
    <3>3. o = ObjectOf(d, k)
      OBVIOUS
    <3> HIDE DEF s, o
    <3>4. /\ Append(s, o) \in Seq(D)
          /\ Len(s) + 1 \in DOMAIN Append(s, o) /\ Append(s, o)[Len(s) + 1] = o
          /\ \A j \in DOMAIN s : j \in DOMAIN Append(s, o) /\ Append(s, o)[j] = s[j]
      BY <2>1, <3>1
    <3>5. ASSUME NEW f \in fs, f <= k
          PROVE  \E j \in DOMAIN Append(s, o) : Append(s, o)[j] = ObjectOf(d, f)
      <4>1. CASE f = k
        BY <3>3, <3>4, <4>1
      <4>2. CASE f <= k - 1
        <5>1. PICK j \in DOMAIN s : s[j] = ObjectOf(d, f)
          BY <2>1, <4>2
        <5> QED BY <3>4, <5>1
      <4> QED BY <3>2, <3>5, <4>1, <4>2
    <3>6. Good(k)
      BY <3>1, <3>4, <3>5
    <3> HIDE DEF Good
    <3> QED BY <2>0, <3>6
  <2> QED BY <2>3, <2>4
<1>13. Good(n)
  <2>1. n \in 0..n
    BY <1>0
  <2>2. n \in A
    <3> HIDE DEF A
    <3> QED BY <1>0, <1>11, <1>12, <2>1, AllPositions
  <2> QED BY <2>2
<1> QED BY <1>0, <1>1, <1>10, <1>13
-----------------------------------------------------------------------------
(* What visiting the fields of d leaves. *)
RegisteredOn(d, b) == Registered(d, {f \in Fresh(d) : Fields(d)[f].of = b})
DependentsAfter(d) == [b \in Decls |-> IF named[b].done THEN deps[b]
                                       ELSE deps[b] \o RegisteredOn(d, b)]

LEMMA VisitIs ==
    ASSUME NEW d
    PROVE  /\ VisitFields(d).nd = [node EXCEPT ![d] = [f \in DOMAIN @ |->
                     IF f \in Fresh(d) THEN ObjectOf(d, f) ELSE @[f]]]
           /\ VisitFields(d).cp =
                [o \in DOMAIN comp \cup ({ObjectOf(d, f) : f \in Fresh(d)} \ DOMAIN comp) |->
                     IF o \in DOMAIN comp THEN comp[o] ELSE CreatedLayout(o[1], named[o[2]])]
           /\ VisitFields(d).ds = DependentsAfter(d)
<1> DEFINE Nd(fresh) == [node EXCEPT ![d] = [f \in DOMAIN @ |->
                            IF f \in fresh THEN ObjectOf(d, f) ELSE @[f]]]
           Cp(fresh) == LET new == {ObjectOf(d, f) : f \in fresh} \ DOMAIN comp
                        IN  [o \in DOMAIN comp \cup new |->
                               IF o \in DOMAIN comp THEN comp[o]
                               ELSE CreatedLayout(o[1], named[o[2]])]
           Ds(fresh) == [b \in Decls |-> IF named[b].done THEN deps[b] ELSE
                            deps[b] \o Registered(d, {f \in fresh : Fields(d)[f].of = b})]
           After(fresh) == [nd |-> Nd(fresh), cp |-> Cp(fresh), ds |-> Ds(fresh)]
<1>1. VisitFields(d) = CHOOSE r \in {After(s) : s \in {Fresh(d)}} : TRUE
  BY DEF VisitFields, Strict
<1>2. VisitFields(d) = After(Fresh(d))
  <2> HIDE DEF After
  <2> QED BY <1>1
<1>3. /\ VisitFields(d).nd = Nd(Fresh(d)) /\ VisitFields(d).cp = Cp(Fresh(d))
      /\ VisitFields(d).ds = Ds(Fresh(d))
  <2> HIDE DEF Nd, Cp, Ds
  <2> QED BY <1>2
<1>4. Nd(Fresh(d)) = [node EXCEPT ![d] = [f \in DOMAIN @ |->
                     IF f \in Fresh(d) THEN ObjectOf(d, f) ELSE @[f]]]
  OBVIOUS
<1>5. Cp(Fresh(d)) =
                [o \in DOMAIN comp \cup ({ObjectOf(d, f) : f \in Fresh(d)} \ DOMAIN comp) |->
                     IF o \in DOMAIN comp THEN comp[o] ELSE CreatedLayout(o[1], named[o[2]])]
  OBVIOUS
<1>6. Ds(Fresh(d)) = DependentsAfter(d)
  BY DEF DependentsAfter, RegisteredOn
<1> HIDE DEF Nd, Cp, Ds
<1> QED BY <1>3, <1>4, <1>5, <1>6, Zenon

LEMMA CreatedTyped ==
    ASSUME NEW o \in Objects, named \in [Decls -> NamedLayouts]
    PROVE  CreatedLayout(o[1], named[o[2]]) \in Layouts
<1>1. o[1] \in {"ptr", "slice", "opt", "arr"} /\ named[o[2]] \in NamedLayouts
  BY ObjectShape
<1>2. LayoutOver(o[1], named[o[2]]) \in Layouts
  BY <1>1, LayoutOverTyped
<1>3. L(0, 0) \in Layouts
  BY DEF L, Layouts
<1> QED BY <1>2, <1>3 DEF CreatedLayout

(* The objects. *)
LEMMA VisitObjects ==
    ASSUME prog \in Programs, NEW d \in Decls, CompOK(comp), named \in [Decls -> NamedLayouts]
    PROVE  LET v == VisitFields(d) IN
           /\ CompOK(v.cp)
           /\ DOMAIN comp \subseteq DOMAIN v.cp
           /\ \A f \in Fresh(d) : ObjectOf(d, f) \in DOMAIN v.cp
           /\ \A o \in DOMAIN comp : v.cp[o] = comp[o]
           /\ \A o \in DOMAIN v.cp : o \notin DOMAIN comp =>
                  /\ v.cp[o] = CreatedLayout(o[1], named[o[2]])
                  /\ \E f \in Fresh(d) : o = ObjectOf(d, f)
<1> DEFINE cp == VisitFields(d).cp
           im == {ObjectOf(d, f) : f \in Fresh(d)}
           D == DOMAIN comp \cup (im \ DOMAIN comp)
<1>1. cp = [o \in D |-> IF o \in DOMAIN comp THEN comp[o] ELSE CreatedLayout(o[1], named[o[2]])]
  BY VisitIs
<1>2. \A f \in Fresh(d) : ObjectOf(d, f) \in Objects
  BY FreshFields, ObjectTyped
<1>3. im \in SUBSET Objects /\ D = DOMAIN comp \cup im
  BY <1>2
<1>4. IsFiniteSet(im)
  <2>1. IsFiniteSet(Fresh(d))
    BY FreshFields
  <2> DEFINE m == [f \in Fresh(d) |-> ObjectOf(d, f)]
  <2>2. m \in Surjection(Fresh(d), im)
    BY DEF Surjection
  <2> HIDE DEF m, im
  <2> QED BY <2>1, <2>2, FS_Surjection
<1>5. IsFiniteSet(D)
  <2>1. IsFiniteSet(DOMAIN comp)
    BY DEF CompOK
  <2>2. IsFiniteSet(DOMAIN comp \cup im)
    <3> HIDE DEF im
    <3> QED BY <1>4, <2>1, FS_Union
  <2> QED BY <1>3, <2>2
<1>6. \A f \in Fresh(d) : ObjectOf(d, f) \in D
  BY <1>3
<1>7. \A o \in D : o \notin DOMAIN comp => \E f \in Fresh(d) : o = ObjectOf(d, f)
  OBVIOUS
<1>8. D \in SUBSET Objects /\ DOMAIN comp \subseteq D
  BY <1>3 DEF CompOK
<1> HIDE DEF cp, D, im
<1>9. DOMAIN cp = D /\ (\A o \in DOMAIN comp : cp[o] = comp[o])
      /\ \A o \in D : o \notin DOMAIN comp => cp[o] = CreatedLayout(o[1], named[o[2]])
  BY <1>1, <1>8
<1>10. cp \in [D -> Layouts]
  <2>1. ASSUME NEW o \in D PROVE cp[o] \in Layouts
    <3>1. CASE o \in DOMAIN comp
      BY <3>1, <1>9 DEF CompOK
    <3>2. CASE o \notin DOMAIN comp
      BY <3>2, <1>8, <1>9, CreatedTyped
    <3> QED BY <3>1, <3>2
  <2>2. cp = [o \in D |-> cp[o]]
    BY <1>1
  <2> QED BY <2>1, <2>2
<1>11. CompOK(cp)
  BY <1>5, <1>8, <1>9, <1>10 DEF CompOK
<1> QED BY <1>6, <1>7, <1>8, <1>9, <1>11 DEF cp

(* The type nodes. *)
LEMMA VisitNodes ==
    ASSUME prog \in Programs, NEW d \in Decls, CompOK(comp), named \in [Decls -> NamedLayouts],
           NodesOK(node, comp)
    PROVE  LET v == VisitFields(d) IN
           /\ NodesOK(v.nd, v.cp)
           /\ \A e \in Decls : e # d => v.nd[e] = node[e]
           /\ \A e \in Decls : \A f \in DOMAIN Fields(e) :
                  node[e][f] # NoType => v.nd[e][f] = node[e][f]
           /\ Ready(d) => Filled(v.nd, d)
<1> DEFINE nd == VisitFields(d).nd
           cp == VisitFields(d).cp
<1>0. DOMAIN comp \subseteq DOMAIN cp /\ \A f \in Fresh(d) : ObjectOf(d, f) \in DOMAIN cp
  BY VisitObjects
<1>1. nd = [node EXCEPT ![d] = [f \in DOMAIN @ |->
                     IF f \in Fresh(d) THEN ObjectOf(d, f) ELSE @[f]]]
  BY VisitIs
<1>2. DOMAIN node = Decls /\ DOMAIN node[d] = DOMAIN Fields(d)
  BY DEF NodesOK
<1> HIDE DEF nd, cp
<1>3. DOMAIN nd = Decls /\ \A e \in Decls : e # d => nd[e] = node[e]
  BY <1>1, <1>2
<1>4. nd[d] = [f \in DOMAIN Fields(d) |-> IF f \in Fresh(d) THEN ObjectOf(d, f) ELSE node[d][f]]
  BY <1>1, <1>2
<1>5. /\ \A f \in Fresh(d) : f \in DOMAIN Fields(d) /\ Composite(Fields(d)[f])
                             /\ node[d][f] = NoType
      /\ Ready(d) => \A f \in DOMAIN Fields(d) :
                  Composite(Fields(d)[f]) /\ node[d][f] = NoType => f \in Fresh(d)
  BY FreshFields
<1>6. \A f \in Fresh(d) : /\ ObjectOf(d, f)[1] = Fields(d)[f].kind
                          /\ ObjectOf(d, f)[2] = Fields(d)[f].of
                          /\ ObjectOf(d, f) # NoType
  BY <1>5, ObjectTyped, ObjectShape
<1>7. ASSUME NEW e \in Decls
      PROVE  /\ DOMAIN nd[e] = DOMAIN Fields(e)
             /\ \A f \in DOMAIN Fields(e) : nd[e][f] # NoType =>
                  /\ nd[e][f] \in DOMAIN cp
                  /\ nd[e][f][1] = Fields(e)[f].kind /\ nd[e][f][2] = Fields(e)[f].of
  <2>0. /\ DOMAIN node[e] = DOMAIN Fields(e)
        /\ \A f \in DOMAIN Fields(e) : node[e][f] # NoType =>
                  /\ node[e][f] \in DOMAIN cp
                  /\ node[e][f][1] = Fields(e)[f].kind /\ node[e][f][2] = Fields(e)[f].of
    BY <1>0 DEF NodesOK
  <2>1. CASE e # d
    BY <2>0, <2>1, <1>3
  <2>2. CASE e = d
    BY <2>0, <2>2, <1>0, <1>4, <1>6
  <2> QED BY <2>1, <2>2
<1>8. NodesOK(nd, cp)
  BY <1>3, <1>7 DEF NodesOK
<1>9. \A e \in Decls : \A f \in DOMAIN Fields(e) : node[e][f] # NoType => nd[e][f] = node[e][f]
  BY <1>3, <1>4, <1>5
<1>10. Ready(d) => Filled(nd, d)
  BY <1>4, <1>5, <1>6 DEF Filled
<1> QED BY <1>3, <1>8, <1>9, <1>10 DEF nd, cp

(* The dependents. *)
LEMMA VisitDependents ==
    ASSUME prog \in Programs, NEW d \in Decls, CompOK(comp), named \in [Decls -> NamedLayouts],
           deps \in [Decls -> Seq(DOMAIN comp)]
    PROVE  LET v == VisitFields(d) IN
           /\ v.ds \in [Decls -> Seq(DOMAIN v.cp)]
           /\ \A o \in DOMAIN comp : Listed(o, deps) => Listed(o, v.ds)
           /\ \A o \in DOMAIN v.cp :
                  o \notin DOMAIN comp /\ ~named[o[2]].done => Listed(o, v.ds)
<1> DEFINE ds == VisitFields(d).ds
           cp == VisitFields(d).cp
           On(b) == {f \in Fresh(d) : Fields(d)[f].of = b}
           reg(b) == RegisteredOn(d, b)
<1>0. /\ DOMAIN comp \subseteq DOMAIN cp /\ \A f \in Fresh(d) : ObjectOf(d, f) \in DOMAIN cp
      /\ \A o \in DOMAIN cp : o \notin DOMAIN comp => \E f \in Fresh(d) : o = ObjectOf(d, f)
      /\ DOMAIN cp \in SUBSET Objects
  BY VisitObjects DEF CompOK
<1>1. ds = [b \in Decls |-> IF named[b].done THEN deps[b] ELSE deps[b] \o reg(b)]
  BY VisitIs DEF DependentsAfter
<1> HIDE DEF ds, cp
<1>2. ASSUME NEW b \in Decls
      PROVE  /\ reg(b) \in Seq(DOMAIN cp)
             /\ \A f \in On(b) : \E k \in DOMAIN reg(b) : reg(b)[k] = ObjectOf(d, f)
  <2>1. On(b) \in SUBSET DOMAIN Fields(d) /\ \A f \in On(b) : ObjectOf(d, f) \in DOMAIN cp
    BY <1>0, FreshFields
  <2>2. reg(b) = Registered(d, On(b))
    BY DEF RegisteredOn
  <2> HIDE DEF On, reg
  <2> QED BY <2>1, <2>2, RegisteredTyped
<1>3. \A b \in Decls : deps[b] \in Seq(DOMAIN cp)
  <2>1. \A b \in Decls : deps[b] \in Seq(DOMAIN comp)
    OBVIOUS
  <2>2. \A s \in Seq(DOMAIN comp) : s \in Seq(DOMAIN cp)
    BY <1>0
  <2> QED BY <2>1, <2>2
<1> HIDE DEF reg
<1>4. ASSUME NEW b \in Decls
      PROVE  /\ ds[b] \in Seq(DOMAIN cp)
             /\ \A k \in DOMAIN deps[b] : k \in DOMAIN ds[b] /\ ds[b][k] = deps[b][k]
             /\ ~named[b].done => \A k \in DOMAIN reg(b) :
                   \E j \in DOMAIN ds[b] : ds[b][j] = reg(b)[k]
  <2> DEFINE s == deps[b]
             r == reg(b)
  <2>1. s \in Seq(DOMAIN cp) /\ r \in Seq(DOMAIN cp)
    BY <1>2, <1>3
  <2>2. ds[b] = IF named[b].done THEN s ELSE s \o r
    BY <1>1
  <2> HIDE DEF s, r
  <2>3. /\ s \o r \in Seq(DOMAIN cp)
        /\ \A k \in DOMAIN s : k \in DOMAIN (s \o r) /\ (s \o r)[k] = s[k]
        /\ \A k \in DOMAIN r : Len(s) + k \in DOMAIN (s \o r) /\ (s \o r)[Len(s) + k] = r[k]
    BY <2>1
  <2>4. /\ ds[b] \in Seq(DOMAIN cp)
        /\ \A k \in DOMAIN s : k \in DOMAIN ds[b] /\ ds[b][k] = s[k]
        /\ ~named[b].done => \A k \in DOMAIN r : \E j \in DOMAIN ds[b] : ds[b][j] = r[k]
    BY <2>1, <2>2, <2>3
  <2> QED BY <2>4 DEF s, r
<1>5. ds \in [Decls -> Seq(DOMAIN cp)]
  BY <1>1, <1>4
<1>6. ASSUME NEW o \in DOMAIN comp, Listed(o, deps) PROVE Listed(o, ds)
  <2>1. o[2] \in Decls
    BY <1>0, ObjectShape
  <2>2. PICK k \in DOMAIN deps[o[2]] : deps[o[2]][k] = o
    BY <1>6 DEF Listed
  <2> QED BY <2>1, <2>2, <1>4 DEF Listed
<1>7. ASSUME NEW o \in DOMAIN cp, o \notin DOMAIN comp, ~named[o[2]].done PROVE Listed(o, ds)
  <2>1. PICK f \in Fresh(d) : o = ObjectOf(d, f)
    BY <1>0, <1>7
  <2>2. o[2] = Fields(d)[f].of /\ o[2] \in Decls
    BY <2>1, <1>0, FreshFields, ObjectTyped, ObjectShape
  <2>3. f \in On(o[2])
    BY <2>2
  <2> HIDE DEF On
  <2>4. PICK k \in DOMAIN reg(o[2]) : reg(o[2])[k] = o
    BY <1>2, <2>1, <2>2, <2>3
  <2>5. PICK j \in DOMAIN ds[o[2]] : ds[o[2]][j] = reg(o[2])[k]
    BY <2>2, <1>4, <1>7
  <2> QED BY <2>4, <2>5 DEF Listed
<1> QED BY <1>5, <1>6, <1>7 DEF ds, cp
-----------------------------------------------------------------------------
(* The invariant.  While phase 0.5 runs, every completed type has the      *)
(* layout its fields give it, every object on a completed type has the     *)
(* layout of that type, and the others wait among its dependents.          *)
Typed ==
    /\ named \in [Decls -> NamedLayouts] /\ anon \in [Decls -> NamedLayouts]
    /\ CompOK(comp) /\ NodesOK(node, comp)
    /\ \A d \in Decls : named[d].done \/ anon[d].done => Filled(node, d)
    /\ deps \in [Decls -> Seq(DOMAIN comp)]
    /\ passes \in 0..MaxPasses /\ pos \in 1..Len(prog) + 1

NoOptionals(cp) == \A o \in DOMAIN cp : o[1] # "opt"
ObjectsRight(nm, cp) ==
    \A o \in DOMAIN cp : nm[o[2]].done \/ o[1] \in {"ptr", "slice"} =>
        cp[o] = LayoutOver(o[1], nm[o[2]])
AggregatesRight(nm, nd, cp) ==
    \A e \in Decls : nm[e].done => nm[e] = AggregateLayout(e, nm, nd, cp)
OthersListed(nm, cp, ds) == \A o \in DOMAIN cp : ~nm[o[2]].done => Listed(o, ds)

Consistent ==
    NoOptionals(comp) =>
        /\ ObjectsRight(named, comp)
        /\ AggregatesRight(named, node, comp)
        /\ OthersListed(named, comp, deps)

LInv ==
    /\ IInv
    /\ Typed
    /\ phase = "named" \/ (phase = "pass1" /\ pos = 1) => Consistent

LEMMA ImpliesLayoutInv == LInv => LayoutInv
<1> SUFFICES ASSUME LInv PROVE LayoutInv
  OBVIOUS
<1>1. ASSUME NEW d \in Decls
      PROVE  /\ named[d] \in NamedLayouts /\ anon[d] \in NamedLayouts
             /\ \A f \in DOMAIN Fields(d) : node[d][f] \in DOMAIN comp \cup {NoType}
             /\ \A k \in DOMAIN deps[d] : deps[d][k] \in DOMAIN comp
  BY DEF LInv, Typed, NodesOK
<1>2. /\ deferred \in Seq(Decls) /\ to_retry \in Seq(Decls)
      /\ passes \in 0..MaxPasses /\ pos \in 1..Len(prog) + 1
      /\ errors \in {"none", "type", "internal"}
  BY DEF LInv, IInv, Shape, Typed
<1>3. TypeOK
  BY <1>1, <1>2 DEF TypeOK, NamedLayouts
<1>4. LayoutsRefreshed
  BY DEF LInv, Consistent, LayoutsRefreshed, NoOptionals, ObjectsRight, AggregatesRight
<1> QED BY <1>3, <1>4 DEF LayoutInv

LEMMA LayoutsInitially == Init => LInv
<1> SUFFICES ASSUME Init PROVE LInv
  OBVIOUS
<1>1. IInv
  BY Initially
<1>2. prog \in Programs /\ Len(prog) \in Nat /\ Decls = 1..Len(prog)
  BY ProgramTypes DEF Init
<1>3. Placeholder \in NamedLayouts /\ Placeholder.done = FALSE
  BY DEF Placeholder, NamedLayouts
<1>4. named \in [Decls -> NamedLayouts] /\ anon \in [Decls -> NamedLayouts]
      /\ \A d \in Decls : ~(named[d].done \/ anon[d].done)
  BY <1>3 DEF Init
<1>5. DOMAIN comp = {}
  BY DEF Init
<1>6. CompOK(comp)
  <2>1. comp \in [DOMAIN comp -> Layouts]
    BY <1>5 DEF Init
  <2> QED BY <1>5, <2>1, FS_EmptySet DEF CompOK
<1>7. NodesOK(node, comp)
  BY DEF Init, NodesOK
<1>8. deps \in [Decls -> Seq(DOMAIN comp)]
  BY DEF Init
<1>9. passes \in 0..MaxPasses /\ pos \in 1..Len(prog) + 1
  BY <1>2, TypeResolutionConstants DEF Init
<1>10. Consistent
  BY <1>4, <1>5 DEF Consistent, ObjectsRight, AggregatesRight, OthersListed
<1> QED BY <1>1, <1>4, <1>6, <1>7, <1>8, <1>9, <1>10 DEF LInv, Typed

(* Steps that leave the types alone. *)
LEMMA TypesKept ==
    ASSUME LInv, UNCHANGED <<prog, types>>, IInv',
           passes' \in 0..MaxPasses, pos' \in 1..Len(prog) + 1,
           phase' = "named" \/ (phase' = "pass1" /\ pos' = 1) =>
              phase = "named" \/ (phase = "pass1" /\ pos = 1)
    PROVE  LInv'
<1>1. UNCHANGED <<named, anon, node, comp, deps>>
  BY DEF types
<1>2. Typed'
  BY <1>1 DEF LInv, Typed, CompOK, NodesOK, Filled, Objects, Decls, Fields, Composite
<1>3. Consistent' = Consistent
  BY <1>1 DEF Consistent, NoOptionals, ObjectsRight, AggregatesRight, OthersListed, Listed,
              Decls, AggregateLayout, FieldLayout, Fields
<1> QED BY <1>2, <1>3 DEF LInv

(* Typed after a step that does not change the program. *)
LEMMA TypedAfter ==
    ASSUME UNCHANGED prog,
           named' \in [Decls -> NamedLayouts], anon' \in [Decls -> NamedLayouts],
           CompOK(comp'), NodesOK(node', comp'),
           \A d \in Decls : named'[d].done \/ anon'[d].done => Filled(node', d),
           deps' \in [Decls -> Seq(DOMAIN comp')],
           passes' \in 0..MaxPasses, pos' \in 1..Len(prog) + 1
    PROVE  Typed'
<1>1. Decls' = Decls /\ \A d : Fields(d)' = Fields(d)
  BY DEF Decls, Fields
<1>2. Objects' = Objects
  BY <1>1 DEF Objects
<1>3. CompOK(comp)'
  BY <1>2 DEF CompOK
<1>4. NodesOK(node, comp)'
  BY <1>1 DEF NodesOK
<1>5. \A d \in Decls' : (named[d].done \/ anon[d].done)' => Filled(node, d)'
  BY <1>1 DEF Filled, Composite
<1> QED BY <1>1, <1>3, <1>4, <1>5 DEF Typed

LEMMA ConsistentAfter ==
    ASSUME UNCHANGED prog,
           NoOptionals(comp') =>
              /\ ObjectsRight(named', comp')
              /\ AggregatesRight(named', node', comp')
              /\ OthersListed(named', comp', deps')
    PROVE  Consistent'
<1>1. Decls' = Decls /\ \A d : Fields(d)' = Fields(d)
  BY DEF Decls, Fields
<1>2. NoOptionals(comp)' <=> NoOptionals(comp')
  BY DEF NoOptionals
<1>3. ObjectsRight(named', comp') => ObjectsRight(named, comp)'
  BY DEF ObjectsRight
<1>4. ASSUME AggregatesRight(named', node', comp') PROVE AggregatesRight(named, node, comp)'
  <2>1. \A e : AggregateLayout(e, named, node, comp)' = AggregateLayout(e, named', node', comp')
    BY <1>1 DEF AggregateLayout, FieldLayout
  <2> QED BY <1>1, <1>4, <2>1 DEF AggregatesRight
<1>5. OthersListed(named', comp', deps') => OthersListed(named, comp, deps)'
  BY DEF OthersListed, Listed
<1> QED BY <1>2, <1>3, <1>4, <1>5 DEF Consistent
-----------------------------------------------------------------------------
(* Visiting the fields of d keeps the state typed... *)
LEMMA VisitTyped ==
    ASSUME prog \in Programs, Typed, NEW d \in Decls, NEW v, v = VisitFields(d)
    PROVE  /\ CompOK(v.cp) /\ NodesOK(v.nd, v.cp)
           /\ \A e \in Decls : named[e].done \/ anon[e].done => Filled(v.nd, e)
           /\ v.ds \in [Decls -> Seq(DOMAIN v.cp)]
           /\ Ready(d) => Filled(v.nd, d) /\ NewLayout(d, v) \in NamedLayouts
                          /\ NewLayout(d, v).done = TRUE
<1>0. /\ named \in [Decls -> NamedLayouts] /\ CompOK(comp) /\ NodesOK(node, comp)
      /\ deps \in [Decls -> Seq(DOMAIN comp)]
      /\ \A e \in Decls : named[e].done \/ anon[e].done => Filled(node, e)
  BY DEF Typed
<1>1. CompOK(v.cp)
  BY <1>0, VisitObjects
<1>2. /\ NodesOK(v.nd, v.cp) /\ (Ready(d) => Filled(v.nd, d))
      /\ \A e \in Decls : \A f \in DOMAIN Fields(e) :
            node[e][f] # NoType => v.nd[e][f] = node[e][f]
  BY <1>0, VisitNodes
<1>3. v.ds \in [Decls -> Seq(DOMAIN v.cp)]
  BY <1>0, VisitDependents
<1>4. \A e \in Decls : named[e].done \/ anon[e].done => Filled(v.nd, e)
  BY <1>0, <1>2 DEF Filled
<1>5. ASSUME Ready(d) PROVE NewLayout(d, v) \in NamedLayouts /\ NewLayout(d, v).done = TRUE
  <2>1. \A f \in DOMAIN Fields(d) : Composite(Fields(d)[f]) => v.nd[d][f] \in DOMAIN v.cp
    BY <1>2, <1>5 DEF Filled, NodesOK
  <2>2. v.cp \in [DOMAIN v.cp -> Layouts]
    BY <1>1 DEF CompOK
  <2> QED BY <1>0, <2>1, <2>2, AggregateTyped DEF NewLayout
<1> QED BY <1>1, <1>2, <1>3, <1>4, <1>5

(* ... and consistent, as far as the types completed before go. *)
LEMMA VisitConsistent ==
    ASSUME prog \in Programs, Typed, Consistent, NEW d \in Decls, NEW v, v = VisitFields(d),
           NoOptionals(v.cp)
    PROVE  /\ ObjectsRight(named, v.cp)
           /\ AggregatesRight(named, v.nd, v.cp)
           /\ OthersListed(named, v.cp, v.ds)
<1>0. /\ named \in [Decls -> NamedLayouts] /\ CompOK(comp) /\ NodesOK(node, comp)
      /\ deps \in [Decls -> Seq(DOMAIN comp)]
      /\ \A e \in Decls : named[e].done => Filled(node, e)
  BY DEF Typed
<1>1. /\ DOMAIN comp \subseteq DOMAIN v.cp
      /\ \A o \in DOMAIN comp : v.cp[o] = comp[o]
      /\ \A o \in DOMAIN v.cp : o \notin DOMAIN comp =>
             v.cp[o] = CreatedLayout(o[1], named[o[2]])
  BY <1>0, VisitObjects
<1>2. /\ ObjectsRight(named, comp) /\ AggregatesRight(named, node, comp)
      /\ OthersListed(named, comp, deps)
  BY <1>1 DEF NoOptionals, Consistent
<1>3. ObjectsRight(named, v.cp)
  BY <1>1, <1>2 DEF ObjectsRight, CreatedLayout
<1>4. \A e \in Decls : \A f \in DOMAIN Fields(e) :
            node[e][f] # NoType => v.nd[e][f] = node[e][f]
  BY <1>0, VisitNodes
<1>5. ASSUME NEW e \in Decls, named[e].done
      PROVE  named[e] = AggregateLayout(e, named, v.nd, v.cp)
  <2>1. ASSUME NEW f \in DOMAIN Fields(e)
        PROVE  FieldLayout(e, f, named, node, comp) = FieldLayout(e, f, named, v.nd, v.cp)
    <3>1. CASE Composite(Fields(e)[f])
      <4>1. node[e][f] \in DOMAIN comp /\ v.nd[e][f] = node[e][f]
        BY <1>0, <1>4, <1>5, <3>1 DEF Filled, NodesOK
      <4>2. v.cp[v.nd[e][f]] = comp[node[e][f]]
        BY <1>1, <4>1
      <4> QED BY <4>2 DEF FieldLayout
    <3>2. CASE ~Composite(Fields(e)[f])
      <4>1. IsPrim(Fields(e)[f]) \/ Fields(e)[f].kind = "val"
        BY <3>2, FieldKinds
      <4> QED BY <4>1 DEF FieldLayout
    <3> QED BY <3>1, <3>2
  <2>2. AggregateLayout(e, named, node, comp) = AggregateLayout(e, named, v.nd, v.cp)
    BY <2>1, AggregateSame
  <2> QED BY <2>2, <1>2, <1>5 DEF AggregatesRight
<1>6. OthersListed(named, v.cp, v.ds)
  <2>1. /\ \A o \in DOMAIN comp : Listed(o, deps) => Listed(o, v.ds)
        /\ \A o \in DOMAIN v.cp :
               o \notin DOMAIN comp /\ ~named[o[2]].done => Listed(o, v.ds)
    BY <1>0, VisitDependents
  <2> QED BY <2>1, <1>2 DEF OthersListed
<1> QED BY <1>3, <1>5, <1>6 DEF AggregatesRight

(* A state to start a refresh from. *)
LEMMA StateWellFormed ==
    ASSUME NEW nm \in [Decls -> NamedLayouts], NEW nd, NEW cp, NEW ds,
           CompOK(cp), NodesOK(nd, cp), ds \in Seq(DOMAIN cp),
           \A e \in Decls : nm[e].done => Filled(nd, e),
           NEW st, st = [nm |-> nm, nd |-> nd, cp |-> cp, ds |-> ds]
    PROVE  WellFormed(st) /\ st \in SameShape(st)
<1>1. st.nm = nm /\ st.nd = nd /\ st.cp = cp /\ st.ds = ds
  OBVIOUS
<1>2. ASSUME NEW e \in Decls, nm[e].done, NEW f \in DOMAIN Fields(e), Composite(Fields(e)[f])
      PROVE  nd[e][f] \in DOMAIN cp
  BY <1>2 DEF Filled, NodesOK
<1>3. WellFormed(st)
  BY <1>1, <1>2 DEF WellFormed, CompOK
<1>4. st \in SameShape(st)
  BY <1>1 DEF SameShape, CompOK
<1> QED BY <1>3, <1>4

(* The objects after a refresh of the dependents listed in st. *)
DependentsRefreshed(st, cp) ==
    \E s \in OnlyObjects(st, {st.ds[k] : k \in 1..Len(st.ds)}) : cp = s.cp

(* What Finalize does. *)
LEMMA FinalizeIs ==
    ASSUME prog \in Programs, NEW d, NEW st, WellFormed(st), st \in SameShape(st),
           Finalize(d, st)
    PROVE  /\ named' \in [Decls -> NamedLayouts]
           /\ \A e \in Decls : named'[e].done = st.nm[e].done
           /\ DOMAIN comp' = DOMAIN st.cp /\ comp' \in [DOMAIN st.cp -> Layouts]
           /\ Settled(st) => named' = st.nm /\ DependentsRefreshed(st, comp')
<1> DEFINE new == finalizePlaceholder(d, st)
<1>1. /\ named' = [e \in Decls |-> [done |-> st.nm[e].done,
                        size |-> new.nm[e].size, align |-> new.nm[e].align]]
      /\ comp' = new.cp
  BY DEF Finalize, Strict
<1>2. new \in SameShape(st)
  BY FinalizeTyped
<1>3. Settled(st) => new \in OnlyObjects(st, {st.ds[k] : k \in 1..Len(st.ds)})
  BY FinalizeSettled
<1> HIDE DEF new
<1>4. /\ new.nm \in [Decls -> NamedLayouts] /\ DOMAIN new.cp = DOMAIN st.cp
      /\ new.cp \in [DOMAIN st.cp -> Layouts]
      /\ \A e \in Decls : new.nm[e].done = st.nm[e].done
  BY <1>2, SameShapeFacts
<1>5. \A r \in NamedLayouts : r = [done |-> r.done, size |-> r.size, align |-> r.align]
                              /\ r.done \in BOOLEAN /\ r.size \in Nat /\ r.align \in Nat
  BY DEF NamedLayouts
<1>6. \A e \in Decls : named'[e] = new.nm[e]
  BY <1>1, <1>4, <1>5
<1>7. named' = new.nm
  BY <1>1, <1>4, <1>6
<1>8. Settled(st) => new.nm = st.nm
  BY <1>3 DEF OnlyObjects
<1>9. Settled(st) => DependentsRefreshed(st, comp')
  BY <1>1, <1>3 DEF DependentsRefreshed
<1> QED BY <1>1, <1>4, <1>7, <1>8, <1>9
-----------------------------------------------------------------------------
(* The objects that are not on d have the layout of what they are on. *)
RightExceptOn(d, st) ==
    \A o \in DOMAIN st.cp : o[2] # d =>
        (named[o[2]].done \/ o[1] \in {"ptr", "slice"} =>
            st.cp[o] = LayoutOver(o[1], st.nm[o[2]]))

(* The state st in which d, all of whose fields are complete, has just got *)
(* its layout.                                                             *)
JustCompleted(d, v, st) ==
    /\ v = VisitFields(d) /\ NoOptionals(v.cp)
    /\ st.nm = [named EXCEPT ![d] = NewLayout(d, v)]
    /\ st.nd = v.nd /\ st.cp = v.cp /\ st.ds = v.ds[d]
    /\ WellFormed(st) /\ st \in SameShape(st)

(* Only objects on d are behind there. *)
LEMMA CompletedSettled ==
    ASSUME prog \in Programs, Typed, Sound, Consistent, NEW d \in Decls, ~named[d].done,
           Ready(d), NEW v, NEW st, JustCompleted(d, v, st)
    PROVE  Settled(st) /\ RightExceptOn(d, st)
<1>0. /\ named \in [Decls -> NamedLayouts] /\ v = VisitFields(d) /\ NoOptionals(v.cp)
      /\ st.nd = v.nd /\ st.cp = v.cp /\ st.nm = [named EXCEPT ![d] = NewLayout(d, v)]
  BY DEF Typed, JustCompleted
<1>1. st.nm[d] = NewLayout(d, v) /\ \A e \in Decls : e # d => st.nm[e] = named[e]
  BY <1>0
<1>2. ObjectsRight(named, v.cp) /\ AggregatesRight(named, v.nd, v.cp)
  BY <1>0, VisitConsistent
<1>3. NodesOK(v.nd, v.cp) /\ Filled(v.nd, d) /\ CompOK(v.cp)
      /\ \A e \in Decls : named[e].done => Filled(v.nd, e)
  BY <1>0, VisitTyped
<1>4. ASSUME NEW e \in Decls, e = d \/ named[e].done,
             NEW f \in DOMAIN Fields(e), Fields(e)[f].kind \in {"val", "arr"}
      PROVE  Fields(e)[f].of # d /\ Fields(e)[f].of \in Decls /\ named[Fields(e)[f].of].done
  <2>1. ByValue(e) \subseteq Done
    BY <1>4, ReadyHoldsDone DEF Sound
  <2>2. Fields(e)[f].of \in ByValue(e)
    BY <1>4 DEF ByValue
  <2> QED BY <2>1, <2>2 DEF Done
<1>5. ASSUME NEW e \in Decls, e = d \/ named[e].done, NEW f \in DOMAIN Fields(e)
      PROVE  FieldLayout(e, f, named, v.nd, v.cp) = FieldLayout(e, f, st.nm, st.nd, st.cp)
  <2>1. CASE Fields(e)[f].kind = "val"
    <3>1. named[Fields(e)[f].of] = st.nm[Fields(e)[f].of]
      BY <1>1, <1>4, <1>5, <2>1
    <3> QED BY <1>0, <3>1 DEF FieldLayout
  <2>2. CASE Fields(e)[f].kind # "val"
    BY <1>0, <2>2 DEF FieldLayout
  <2> QED BY <2>1, <2>2
<1>6. ASSUME NEW e \in Decls, e = d \/ named[e].done
      PROVE  AggregateLayout(e, named, v.nd, v.cp) = AggregateLayout(e, st.nm, st.nd, st.cp)
  <2>1. \A f \in DOMAIN Fields(e) :
            FieldLayout(e, f, named, v.nd, v.cp) = FieldLayout(e, f, st.nm, st.nd, st.cp)
    BY <1>5, <1>6
  <2> QED BY <2>1, AggregateSame
<1>7. ASSUME NEW e \in Decls, st.nm[e].done
      PROVE  st.nm[e] = AggregateLayout(e, st.nm, st.nd, st.cp)
  <2>1. CASE e = d
    BY <1>1, <1>6, <2>1 DEF NewLayout
  <2>2. CASE e # d
    BY <1>1, <1>2, <1>6, <1>7, <2>2 DEF AggregatesRight
  <2> QED BY <2>1, <2>2
<1>8. \A b \in Decls : LayoutOver("ptr", st.nm[b]) = LayoutOver("ptr", named[b])
                       /\ LayoutOver("slice", st.nm[b]) = LayoutOver("slice", named[b])
  BY DEF LayoutOver
<1>9. ASSUME NEW e \in Decls, st.nm[e].done, NEW f \in DOMAIN Fields(e),
             Composite(Fields(e)[f]), NEW o, o = st.nd[e][f], st.nm[o[2]].done
      PROVE  st.cp[o] = LayoutOver(o[1], st.nm[o[2]])
  <2>0. e = d \/ named[e].done
    BY <1>1, <1>9
  <2>1. o \in DOMAIN v.cp /\ o[1] = Fields(e)[f].kind /\ o[2] = Fields(e)[f].of
    BY <1>0, <1>3, <1>9, <2>0 DEF NodesOK, Filled
  <2>2. o[2] \in Decls /\ o[1] \in {"ptr", "slice", "arr"}
    BY <1>0, <1>9, <2>1, FieldKinds DEF Composite, NoOptionals
  <2>3. CASE o[1] \in {"ptr", "slice"}
    <3>1. v.cp[o] = LayoutOver(o[1], named[o[2]])
      BY <1>2, <2>1, <2>3 DEF ObjectsRight
    <3> QED BY <1>0, <1>8, <2>2, <2>3, <3>1
  <2>4. CASE o[1] = "arr"
    <3>1. o[2] # d /\ named[o[2]].done
      BY <1>4, <2>0, <2>1, <2>4
    <3>2. v.cp[o] = LayoutOver(o[1], named[o[2]])
      BY <1>2, <2>1, <3>1 DEF ObjectsRight
    <3> QED BY <1>0, <1>1, <2>2, <3>1, <3>2
  <2> QED BY <2>2, <2>3, <2>4
<1>10. Settled(st)
  <2>1. \A e \in Decls : st.nm[e].done =>
           \A f \in DOMAIN Fields(e) : Composite(Fields(e)[f]) =>
              (st.nm[st.nd[e][f][2]].done =>
                 st.cp[st.nd[e][f]] = LayoutOver(st.nd[e][f][1], st.nm[st.nd[e][f][2]]))
    BY <1>9
  <2> QED BY <1>7, <2>1 DEF Settled
<1>11. ASSUME NEW o \in DOMAIN v.cp, o[2] # d, named[o[2]].done \/ o[1] \in {"ptr", "slice"}
       PROVE  v.cp[o] = LayoutOver(o[1], st.nm[o[2]])
  <2>1. o[2] \in Decls
    BY <1>3, ObjectShape DEF CompOK
  <2> QED BY <1>1, <1>2, <1>11, <2>1 DEF ObjectsRight
<1>12. RightExceptOn(d, st)
  BY <1>0, <1>11 DEF RightExceptOn
<1> QED BY <1>10, <1>12

(* Completing d in phase 0.5. *)
LEMMA CompletedConsistent ==
    ASSUME prog \in Programs, Typed, Sound, Consistent, NEW d \in Decls, ~named[d].done,
           Ready(d), NEW v, NEW st, JustCompleted(d, v, st), Finalize(d, st)
    PROVE  /\ ObjectsRight(named', comp')
           /\ AggregatesRight(named', v.nd, comp')
           /\ OthersListed(named', comp', v.ds)
<1>0. /\ named \in [Decls -> NamedLayouts]
      /\ st.nd = v.nd /\ st.cp = v.cp /\ st.nm = [named EXCEPT ![d] = NewLayout(d, v)]
      /\ st.ds = v.ds[d] /\ v = VisitFields(d) /\ NoOptionals(v.cp)
  BY DEF Typed, JustCompleted
<1>w. WellFormed(st) /\ st \in SameShape(st)
  BY DEF JustCompleted
<1>1. st.nm[d] = NewLayout(d, v) /\ \A e \in Decls : e # d => st.nm[e] = named[e]
  BY <1>0
<1>2. Settled(st)
  BY CompletedSettled
<1>3. \A o \in DOMAIN v.cp : o[2] # d =>
         (named[o[2]].done \/ o[1] \in {"ptr", "slice"} =>
             v.cp[o] = LayoutOver(o[1], st.nm[o[2]]))
  <2>1. RightExceptOn(d, st)
    BY CompletedSettled
  <2> QED BY <1>0, <2>1 DEF RightExceptOn
<1> DEFINE Q == {st.ds[k] : k \in 1..Len(st.ds)}
<1>4. named' = st.nm /\ DOMAIN comp' = DOMAIN v.cp /\ \E s \in OnlyObjects(st, Q) : comp' = s.cp
  <2>1. named' = st.nm /\ DependentsRefreshed(st, comp')
    BY <1>w, <1>2, FinalizeIs
  <2>2. DOMAIN comp' = DOMAIN st.cp
    BY <1>w, FinalizeIs
  <2> QED BY <1>0, <2>1, <2>2 DEF DependentsRefreshed
<1>5. PICK s \in OnlyObjects(st, Q) : comp' = s.cp
  BY <1>4
<1>6. OthersListed(named, v.cp, v.ds)
  BY <1>0, VisitConsistent
<1>7. st.nm[d].done
  <2>1. NewLayout(d, v).done = TRUE
    BY <1>0, VisitTyped
  <2> QED BY <1>1, <2>1
<1>8. CompOK(v.cp) /\ v.ds \in [Decls -> Seq(DOMAIN v.cp)]
  BY <1>0, VisitTyped
<1>9. \A o \in DOMAIN v.cp : o[2] = d => o \in Q
  <2>1. \A o \in DOMAIN v.cp : o[2] = d => \E k \in DOMAIN v.ds[d] : v.ds[d][k] = o
    BY <1>6 DEF OthersListed, Listed
  <2>2. DOMAIN v.ds[d] = 1..Len(v.ds[d])
    BY <1>8
  <2> QED BY <1>0, <2>1, <2>2
<1> HIDE DEF Q
<1>10. \A o \in DOMAIN v.cp :
          IF st.nm[o[2]].done
            THEN \/ s.cp[o] = LayoutOver(o[1], st.nm[o[2]])
                 \/ s.cp[o] = v.cp[o] /\ o \notin Q
            ELSE s.cp[o] = v.cp[o]
  BY <1>0 DEF OnlyObjects
<1>11. ASSUME NEW o \in DOMAIN comp', named'[o[2]].done \/ o[1] \in {"ptr", "slice"}
       PROVE  comp'[o] = LayoutOver(o[1], named'[o[2]])
  <2>0. o \in DOMAIN v.cp /\ o[2] \in Decls
    BY <1>4, <1>8, ObjectShape DEF CompOK
  <2>1. CASE o[2] = d
    BY <1>4, <1>5, <1>7, <1>9, <1>10, <2>0, <2>1
  <2>2. CASE o[2] # d
    <3>1. v.cp[o] = LayoutOver(o[1], st.nm[o[2]])
      BY <1>1, <1>3, <1>4, <1>11, <2>0, <2>2
    <3> QED BY <1>4, <1>5, <1>10, <2>0, <3>1
  <2> QED BY <2>1, <2>2
<1>12. ASSUME NEW e \in Decls, named'[e].done
       PROVE  named'[e] = AggregateLayout(e, named', v.nd, comp')
  <2>1. st.nm[e].done
    BY <1>4, <1>12
  <2>2. AggregateLayout(e, s.nm, st.nd, s.cp) = st.nm[e]
    BY <1>w, <1>2, <2>1, SettledAggregates
  <2>3. s.nm = st.nm
    BY DEF OnlyObjects
  <2> QED BY <1>0, <1>4, <1>5, <2>2, <2>3
<1>13. ASSUME NEW o \in DOMAIN comp', ~named'[o[2]].done PROVE Listed(o, v.ds)
  <2>1. o \in DOMAIN v.cp /\ o[2] \in Decls
    BY <1>4, <1>8, ObjectShape DEF CompOK
  <2>2. o[2] # d /\ ~named[o[2]].done
    BY <1>1, <1>4, <1>7, <1>13, <2>1
  <2> QED BY <1>6, <2>1, <2>2 DEF OthersListed
<1> QED BY <1>11, <1>12, <1>13 DEF ObjectsRight, AggregatesRight, OthersListed-----------------------------------------------------------------------------
(* The actions keep the invariant.  First a type d that gets the layout    *)
(* lay and whose dependents are refreshed.                                 *)
Replaces(d, lay, nd, cp, ds, st) ==
    st = [nm |-> [named EXCEPT ![d] = lay], nd |-> nd, cp |-> cp, ds |-> ds]

LEMMA FinalizedTyped ==
    ASSUME prog \in Programs, named \in [Decls -> NamedLayouts],
           NEW d \in Decls, NEW lay \in NamedLayouts, NEW nd, NEW cp, NEW ds, NEW st,
           Replaces(d, lay, nd, cp, ds, st),
           CompOK(cp), NodesOK(nd, cp), ds \in Seq(DOMAIN cp), Filled(nd, d),
           \A e \in Decls : named[e].done \/ anon[e].done => Filled(nd, e),
           Finalize(d, st)
    PROVE  /\ WellFormed(st) /\ st \in SameShape(st)
           /\ named' \in [Decls -> NamedLayouts]
           /\ \A e \in Decls : named'[e].done \/ anon[e].done => Filled(nd, e)
           /\ DOMAIN comp' = DOMAIN cp /\ CompOK(comp') /\ NodesOK(nd, comp')
<1> DEFINE nm == [named EXCEPT ![d] = lay]
<1>1. nm \in [Decls -> NamedLayouts] /\ \A e \in Decls : e # d => nm[e] = named[e]
  OBVIOUS
<1> HIDE DEF nm
<1>2. \A e \in Decls : nm[e].done => Filled(nd, e)
  BY <1>1
<1>3. st = [nm |-> nm, nd |-> nd, cp |-> cp, ds |-> ds]
  BY DEF nm, Replaces
<1>4. WellFormed(st) /\ st \in SameShape(st)
  BY <1>1, <1>2, <1>3, StateWellFormed
<1>5. st.nm = nm /\ st.cp = cp
  BY <1>3
<1>6. /\ named' \in [Decls -> NamedLayouts]
      /\ \A e \in Decls : named'[e].done = st.nm[e].done
      /\ DOMAIN comp' = DOMAIN st.cp /\ comp' \in [DOMAIN st.cp -> Layouts]
  BY <1>4, FinalizeIs
<1>7. \A e \in Decls : named'[e].done \/ anon[e].done => Filled(nd, e)
  BY <1>2, <1>5, <1>6
<1>8. CompOK(comp') /\ NodesOK(nd, comp')
  BY <1>5, <1>6 DEF CompOK, NodesOK
<1> QED BY <1>4, <1>5, <1>6, <1>7, <1>8

LEMMA ResolveNamedLayouts ==
    ASSUME LInv, ResolveNamed, IInv'
    PROVE  LInv'
<1>0. /\ prog \in Programs /\ Typed /\ Sound /\ Consistent /\ pos \in Decls /\ ~named[pos].done
      /\ named \in [Decls -> NamedLayouts] /\ anon \in [Decls -> NamedLayouts]
      /\ pos' = pos + 1 /\ pos' \in 1..Len(prog) + 1 /\ passes' \in 0..MaxPasses
      /\ UNCHANGED <<prog, anon>>
  <2>1. prog \in Programs /\ Typed /\ Sound /\ Consistent /\ Accounted
    BY DEF LInv, IInv, Shape, ResolveNamed
  <2>2. pos \in 1..Len(prog) /\ Len(prog) \in Nat /\ Decls = 1..Len(prog)
    BY <2>1, ProgramTypes DEF Typed, ResolveNamed
  <2>3. ~named[pos].done
    BY <2>1, <2>2 DEF Accounted, ResolveNamed
  <2>4. pos' = pos + 1 /\ UNCHANGED <<prog, anon, passes>>
    BY DEF ResolveNamed
  <2> QED BY <2>1, <2>2, <2>3, <2>4 DEF Typed
<1> DEFINE v == VisitFields(pos)
           lay == NewLayout(pos, v)
           st == [nm |-> [named EXCEPT ![pos] = lay], nd |-> v.nd, cp |-> v.cp, ds |-> v.ds[pos]]
<1>1. /\ node' = v.nd /\ deps' = v.ds
      /\ \/ Ready(pos) /\ Finalize(pos, st)
         \/ ~Ready(pos) /\ comp' = v.cp /\ named' = named
  BY <1>0, StopsUnlessReady DEF ResolveNamed
<1>2. /\ CompOK(v.cp) /\ NodesOK(v.nd, v.cp)
      /\ \A e \in Decls : named[e].done \/ anon[e].done => Filled(v.nd, e)
      /\ v.ds \in [Decls -> Seq(DOMAIN v.cp)]
      /\ Ready(pos) => Filled(v.nd, pos) /\ lay \in NamedLayouts
  BY <1>0, VisitTyped
<1>3. v = VisitFields(pos)
  OBVIOUS
<1> HIDE DEF v
<1>4. CASE ~Ready(pos)
  <2>1. Typed'
    BY <1>0, <1>1, <1>2, <1>4, TypedAfter
  <2>2. NoOptionals(v.cp) => /\ ObjectsRight(named, v.cp)
                             /\ AggregatesRight(named, v.nd, v.cp)
                             /\ OthersListed(named, v.cp, v.ds)
    BY <1>0, <1>3, VisitConsistent
  <2>3. Consistent'
    BY <1>0, <1>1, <1>4, <2>2, ConsistentAfter
  <2> QED BY <2>1, <2>3 DEF LInv
<1>5. CASE Ready(pos)
  <2>0. lay = NewLayout(pos, v)
    OBVIOUS
  <2> HIDE DEF lay
  <2>a. /\ lay \in NamedLayouts /\ Filled(v.nd, pos) /\ v.ds[pos] \in Seq(DOMAIN v.cp)
        /\ Finalize(pos, st)
    BY <1>0, <1>1, <1>2, <1>5
  <2>b. Replaces(pos, lay, v.nd, v.cp, v.ds[pos], st)
    BY DEF Replaces
  <2>c. st.nm = [named EXCEPT ![pos] = lay] /\ st.nd = v.nd /\ st.cp = v.cp /\ st.ds = v.ds[pos]
    OBVIOUS
  <2> HIDE DEF st
  <2>1. /\ WellFormed(st) /\ st \in SameShape(st)
        /\ named' \in [Decls -> NamedLayouts]
        /\ \A e \in Decls : named'[e].done \/ anon[e].done => Filled(v.nd, e)
        /\ DOMAIN comp' = DOMAIN v.cp /\ CompOK(comp') /\ NodesOK(v.nd, comp')
    BY <1>0, <1>2, <2>a, <2>b, FinalizedTyped
  <2>2. Typed'
    BY <1>0, <1>1, <1>2, <2>1, TypedAfter
  <2>3. ASSUME NoOptionals(comp')
        PROVE  /\ ObjectsRight(named', comp')
               /\ AggregatesRight(named', v.nd, comp')
               /\ OthersListed(named', comp', v.ds)
    <3>1. NoOptionals(v.cp)
      BY <2>1, <2>3 DEF NoOptionals
    <3>2. JustCompleted(pos, v, st)
      BY <1>3, <2>0, <2>c, <2>1, <3>1 DEF JustCompleted
    <3> QED BY <1>0, <1>5, <2>a, <3>2, CompletedConsistent
  <2>4. Consistent'
    BY <1>0, <1>1, <2>3, ConsistentAfter
  <2> QED BY <2>2, <2>4 DEF LInv
<1> QED BY <1>4, <1>5
(* Phase 0.5 is over: only the types matter from here on. *)
LEMMA LaterStep ==
    ASSUME IInv', Typed', phase' # "named", ~(phase' = "pass1" /\ pos' = 1)
    PROVE  LInv'
BY DEF LInv

LEMMA VisitPlaceholderTyped ==
    ASSUME prog \in Programs, Typed, NEW d \in Decls, VisitPlaceholder(d), UNCHANGED <<prog, anon>>,
           passes' \in 0..MaxPasses, pos' \in 1..Len(prog) + 1
    PROVE  Typed'
<1> DEFINE v == VisitFields(d)
           lay == NewLayout(d, v)
<1>0. named \in [Decls -> NamedLayouts] /\ anon \in [Decls -> NamedLayouts]
  BY DEF Typed
<1>1. /\ node' = v.nd /\ deps' = v.ds /\ comp' = v.cp
      /\ \/ Ready(d) /\ named' = [named EXCEPT ![d] = lay]
         \/ named' = named
  BY StopsUnlessReady DEF VisitPlaceholder
<1>2. /\ CompOK(v.cp) /\ NodesOK(v.nd, v.cp)
      /\ \A e \in Decls : named[e].done \/ anon[e].done => Filled(v.nd, e)
      /\ v.ds \in [Decls -> Seq(DOMAIN v.cp)]
      /\ Ready(d) => Filled(v.nd, d) /\ lay \in NamedLayouts
  BY VisitTyped
<1> HIDE DEF v, lay
<1>3. /\ named' \in [Decls -> NamedLayouts]
      /\ \A e \in Decls : named'[e].done \/ anon'[e].done => Filled(v.nd, e)
  BY <1>0, <1>1, <1>2
<1> QED BY <1>0, <1>1, <1>2, <1>3, TypedAfter

LEMMA Pass1Layouts ==
    ASSUME LInv, Pass1, IInv'
    PROVE  LInv'
<1>0. /\ prog \in Programs /\ Typed /\ pos \in Decls /\ phase' = "pass1" /\ pos' = pos + 1
      /\ pos' \in 2..Len(prog) + 1 /\ passes' \in 0..MaxPasses /\ UNCHANGED <<prog, anon>>
  <2>1. prog \in Programs /\ Typed
    BY DEF LInv, IInv, Shape
  <2>2. pos \in 1..Len(prog) /\ Len(prog) \in Nat /\ Decls = 1..Len(prog)
    BY <2>1, ProgramTypes DEF Typed, Pass1
  <2>3. pos' = pos + 1 /\ UNCHANGED <<prog, anon, passes, phase>> /\ phase = "pass1"
    BY DEF Pass1
  <2> QED BY <2>1, <2>2, <2>3 DEF Typed
<1>1. CASE named[pos].done
  <2>1. UNCHANGED <<named, anon, node, comp, deps>>
    BY <1>0, <1>1 DEF Pass1
  <2>2. Typed'
    BY <1>0, <2>1, TypedAfter DEF Typed
  <2> QED BY <1>0, <2>2, LaterStep
<1>2. CASE ~named[pos].done
  <2>1. VisitPlaceholder(pos)
    BY <1>2 DEF Pass1
  <2>2. Typed'
    BY <1>0, <2>1, VisitPlaceholderTyped
  <2> QED BY <1>0, <2>2, LaterStep
<1> QED BY <1>1, <1>2

LEMMA RetryLayouts ==
    ASSUME LInv, Retry, IInv'
    PROVE  LInv'
<1> DEFINE d == Head(to_retry)
           v == VisitFields(d)
           lay == NewLayout(d, v)
<1>0. /\ prog \in Programs /\ Typed /\ d \in Decls /\ phase' = "retry"
      /\ pos' \in 1..Len(prog) + 1 /\ passes' \in 0..MaxPasses /\ UNCHANGED <<prog, named>>
      /\ named \in [Decls -> NamedLayouts] /\ anon \in [Decls -> NamedLayouts]
  <2>1. prog \in Programs /\ Typed /\ to_retry \in Seq(Decls)
    BY DEF LInv, IInv, Shape
  <2>2. to_retry # <<>> /\ UNCHANGED <<prog, named, passes, pos, phase>> /\ phase = "retry"
    BY DEF Retry
  <2> QED BY <2>1, <2>2 DEF Typed
<1>1. CASE anon[d].done
  <2>1. UNCHANGED <<named, anon, node, comp, deps>>
    BY <1>0, <1>1 DEF Retry
  <2>2. Typed'
    BY <1>0, <2>1, TypedAfter DEF Typed
  <2> QED BY <1>0, <2>2, LaterStep
<1>2. CASE ~anon[d].done
  <2>1. /\ node' = v.nd /\ deps' = v.ds /\ comp' = v.cp
        /\ \/ Ready(d) /\ anon' = [anon EXCEPT ![d] = lay]
           \/ anon' = anon
    BY <1>0, <1>2, StopsUnlessReady DEF Retry
  <2> HIDE DEF d
  <2>2. /\ CompOK(v.cp) /\ NodesOK(v.nd, v.cp)
        /\ \A e \in Decls : named[e].done \/ anon[e].done => Filled(v.nd, e)
        /\ v.ds \in [Decls -> Seq(DOMAIN v.cp)]
        /\ Ready(d) => Filled(v.nd, d) /\ lay \in NamedLayouts
    BY <1>0, VisitTyped
  <2> HIDE DEF v, lay
  <2>3. /\ anon' \in [Decls -> NamedLayouts]
        /\ \A e \in Decls : named'[e].done \/ anon'[e].done => Filled(v.nd, e)
    BY <1>0, <2>1, <2>2
  <2>4. Typed'
    BY <1>0, <2>1, <2>2, <2>3, TypedAfter
  <2> QED BY <1>0, <2>4, LaterStep
<1> QED BY <1>1, <1>2

LEMMA Pass2Layouts ==
    ASSUME LInv, Pass2, IInv'
    PROVE  LInv'
<1>0. /\ prog \in Programs /\ Typed /\ pos \in Decls /\ phase' = "pass2" /\ pos' = pos + 1
      /\ pos' \in 1..Len(prog) + 1 /\ passes' \in 0..MaxPasses /\ UNCHANGED <<prog, anon>>
  <2>1. prog \in Programs /\ Typed
    BY DEF LInv, IInv, Shape
  <2>2. pos \in 1..Len(prog) /\ Len(prog) \in Nat /\ Decls = 1..Len(prog)
    BY <2>1, ProgramTypes DEF Typed, Pass2
  <2>3. pos' = pos + 1 /\ UNCHANGED <<prog, anon, passes, phase>> /\ phase = "pass2"
    BY DEF Pass2
  <2> QED BY <2>1, <2>2, <2>3 DEF Typed
<1>1. CASE named[pos].done
  <2>1. UNCHANGED <<named, anon, node, comp, deps>>
    BY <1>0, <1>1 DEF Pass2
  <2>2. Typed'
    BY <1>0, <2>1, TypedAfter DEF Typed
  <2> QED BY <1>0, <2>2, LaterStep
<1>2. CASE ~named[pos].done /\ anon[pos].done
  <2> DEFINE st == [nm |-> [named EXCEPT ![pos] = anon[pos]],
                    nd |-> node, cp |-> comp, ds |-> deps[pos]]
  <2>1. Finalize(pos, st) /\ UNCHANGED <<node, deps>>
    BY <1>2 DEF Pass2
  <2>2. Replaces(pos, anon[pos], node, comp, deps[pos], st)
    BY DEF Replaces
  <2> HIDE DEF st
  <2>3. /\ named \in [Decls -> NamedLayouts] /\ anon \in [Decls -> NamedLayouts]
        /\ anon[pos] \in NamedLayouts
        /\ CompOK(comp) /\ NodesOK(node, comp)
        /\ deps \in [Decls -> Seq(DOMAIN comp)] /\ deps[pos] \in Seq(DOMAIN comp)
        /\ \A e \in Decls : named[e].done \/ anon[e].done => Filled(node, e)
        /\ Filled(node, pos)
    BY <1>0, <1>2 DEF Typed
  <2>4. /\ named' \in [Decls -> NamedLayouts]
        /\ \A e \in Decls : named'[e].done \/ anon[e].done => Filled(node, e)
        /\ DOMAIN comp' = DOMAIN comp /\ CompOK(comp') /\ NodesOK(node, comp')
    BY <1>0, <2>1, <2>2, <2>3, FinalizedTyped
  <2>5. Typed'
    BY <1>0, <2>1, <2>3, <2>4, TypedAfter
  <2> QED BY <1>0, <2>5, LaterStep
<1>3. CASE ~named[pos].done /\ ~anon[pos].done
  <2>1. VisitPlaceholder(pos)
    BY <1>3 DEF Pass2
  <2>2. Typed'
    BY <1>0, <2>1, VisitPlaceholderTyped
  <2> QED BY <1>0, <2>2, LaterStep
<1> QED BY <1>1, <1>2, <1>3

(* The actions that only move from one pass to the next. *)
LEMMA PassesLayouts ==
    ASSUME LInv, IInv',
           \/ NamedDone \/ Pass1Done \/ RetryPass \/ RetryDone \/ Forced \/ Verify
           \/ UNCHANGED vars
    PROVE  LInv'
<1>1. /\ prog \in Programs /\ Len(prog) \in Nat /\ passes \in 0..MaxPasses
      /\ pos \in 1..Len(prog) + 1 /\ MaxPasses \in Nat
  BY ProgramTypes, TypeResolutionConstants DEF LInv, IInv, Shape, Typed
<1>2. CASE NamedDone
  BY <1>1, <1>2, TypesKept DEF NamedDone
<1>3. CASE Pass1Done
  BY <1>1, <1>3, TypesKept DEF Pass1Done
<1>4. CASE RetryPass
  BY <1>1, <1>4, TypesKept DEF RetryPass
<1>5. CASE RetryDone
  BY <1>1, <1>5, TypesKept DEF RetryDone
<1>6. CASE Forced
  BY <1>1, <1>6, TypesKept DEF Forced
<1>7. CASE Verify
  BY <1>1, <1>7, TypesKept DEF Verify
<1>8. CASE UNCHANGED vars
  BY <1>1, <1>8, TypesKept DEF vars, types
<1> QED BY <1>2, <1>3, <1>4, <1>5, <1>6, <1>7, <1>8

LEMMA LayoutsInductive == LInv /\ [Next]_vars => LInv'
<1> SUFFICES ASSUME LInv, [Next]_vars PROVE LInv'
  OBVIOUS
<1>1. IInv'
  BY Inductive DEF LInv
<1>2. CASE ResolveNamed
  BY <1>1, <1>2, ResolveNamedLayouts
<1>3. CASE Pass1
  BY <1>1, <1>3, Pass1Layouts
<1>4. CASE Retry
  BY <1>1, <1>4, RetryLayouts
<1>5. CASE Pass2
  BY <1>1, <1>5, Pass2Layouts
<1>6. CASE \/ NamedDone \/ Pass1Done \/ RetryPass \/ RetryDone \/ Forced \/ Verify
           \/ UNCHANGED vars
  BY <1>1, <1>6, PassesLayouts
<1> QED BY <1>2, <1>3, <1>4, <1>5, <1>6 DEF Next, Step, Finished

(* Every layout stays typed, every type node and every dependent stands    *)
(* for an existing type object, and when phase 0.5 ends in a module        *)
(* without optionals, every object on a completed type has the layout of   *)
(* that type and every completed type the layout of its fields:            *)
(* finalizePlaceholder and refreshLayout have reached them all, whatever   *)
(* the declarations and their order.                                       *)
THEOREM LayoutsKeptRight == Spec => []LayoutInv
<1>1. Init => LInv
  BY LayoutsInitially
<1>2. LInv /\ [Next]_vars => LInv'
  BY LayoutsInductive
<1>3. LInv => LayoutInv
  BY ImpliesLayoutInv
<1> QED BY <1>1, <1>2, <1>3, PTL DEF Spec
=============================================================================
