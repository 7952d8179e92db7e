----------------------- MODULE StaticAnalyzersProofs ------------------------
(***************************************************************************)
(* Proof that the null pointer and the double free analyzer take back what *)
(* they push (Balanced), for every set of function bodies.                 *)
(*                                                                         *)
(* todo is a call stack: the end entries are the visitors that have not    *)
(* returned.  A level says what an analyzer's stacks hold when an entry is *)
(* reached; Fit(todo, l) says that there are levels for all the entries,   *)
(* from l at the first one down to the ground, such that each entry leads  *)
(* from its level to the next one (Entry).  The inductive invariant says   *)
(* that the stacks are as high as the level of the first entry.            *)
(***************************************************************************)
EXTENDS StaticAnalyzers, FiniteSetTheorems, SequenceTheorems, NaturalsInduction,
        WellFoundedInduction, TLAPS

(* scopes: open scopes; depth: open blocks; due: no deferred action is of  *)
(* a block deeper than that; err: the error path; null: the analyzer is    *)
(* the one for null pointers, which has scopes only.                       *)
Levels == [scopes : Nat, depth : Nat, due : Nat, err : BOOLEAN, null : BOOLEAN]
Ground(l) == l.scopes = 0 /\ l.depth = 0 /\ l.due = 0 /\ ~l.err

(* The scopes of the double free analyzer, and the branch states it keeps. *)
TrackedPointers == [state : DF!AllocationStates, depth : Nat, returned : BOOLEAN, is_arena : BOOLEAN]
FreeMap(m) == \A x \in DOMAIN m : m[x] \in TrackedPointers
Stack(ss) == \E M : ss \in Seq(M) /\ \A m \in M : FreeMap(m)

(* The states of the null pointer analyzer. *)
NullMaps == [vars : Seq([name : STRING, state : NP!PointerStates]),
             modified : {S \in SUBSET STRING : IsFiniteSet(S)}]

Same(l, m) == l.scopes = m.scopes /\ l.depth = m.depth /\ l.due = m.due /\ l.err = m.err

(* A node is visited inside a block, except the body, which is one.        *)
NodeEntry(x, l, m) ==
    /\ x \in Nodes
    /\ Same(l, m)
    /\ l.due = l.depth
    /\ l.scopes > 0
    /\ x.k = "block" \/ l.depth > 0
FnEntry(x, l, m) ==
    /\ x.k = "fn" /\ x.body \in Nodes /\ x.body.k = "block"
    /\ Same(l, m) /\ Ground(l)

EndFnEntry(x, l, m) ==
    /\ x.k = "endfn"
    /\ l.scopes = 1 /\ l.depth = 0 /\ l.due = 0 /\ ~l.err
    /\ Ground(m)
DefersEntry(x, l, m) ==
    /\ x.k = "defers" /\ x.kept \in Nat \ {0}
    /\ l.scopes = m.scopes /\ l.depth = m.depth /\ l.err = m.err
    /\ l.due = l.depth /\ l.depth > 0 /\ l.scopes > 0
    /\ m.due >= x.kept - 1
(* Between its defers and its end a block has no action left.              *)
EndBlockEntry(x, l, m) ==
    /\ x.k = "endblock"
    /\ l.scopes = m.scopes + 1 /\ l.depth = m.depth + 1 /\ l.err = m.err
    /\ l.due = m.depth /\ m.due = m.depth /\ m.scopes > 0
EndReturnEntry(x, l, m) ==
    /\ x.k = "endreturn"
    /\ l.scopes = m.scopes /\ l.depth = m.depth
    /\ l.due = l.depth /\ m.due = m.depth /\ m.err = x.kept /\ m.scopes > 0
(* Two scopes: the state before the branches and the branch.               *)
EndPairEntry(x, l, m) ==
    /\ x.k \in {"endbranch", "endloop"}
    /\ l.scopes = m.scopes + 2 /\ l.depth = m.depth /\ l.err = m.err
    /\ l.due = l.depth /\ m.due = m.depth /\ m.scopes > 0 /\ m.depth > 0
    /\ x.k = "endbranch" =>
         /\ x.of \in Nodes /\ x.of.k \in {"if", "switch"}
         /\ Stack(x.kept) /\ Len(x.kept) < Len(DF!Branches(x.of))

FreeEntry(x, l, m) ==
    \/ NodeEntry(x, l, m) \/ FnEntry(x, l, m) \/ EndFnEntry(x, l, m) \/ DefersEntry(x, l, m)
    \/ EndBlockEntry(x, l, m) \/ EndReturnEntry(x, l, m) \/ EndPairEntry(x, l, m)

NullEntry(x, l, m) ==
    \/ x \in Nodes /\ l.scopes = m.scopes
    \/ x.k = "fn" /\ x.body \in Nodes /\ l.scopes = m.scopes
    \/ x.k \in {"endfn", "endblock", "endfor"} /\ l.scopes = m.scopes + 1
    \/ /\ x.k \in {"endthen", "endelse", "endwhile"}
       /\ l.scopes = m.scopes + 2
       /\ x.of \in Nodes
       /\ x.k = "endthen" => x.of.k = "if"
       /\ x.k = "endelse" => x.kept \in NullMaps

Entry(x, l, m) ==
    /\ l.null = m.null
    /\ IF l.null THEN NullEntry(x, l, m) ELSE FreeEntry(x, l, m)

Sequence(t) == \E S : t \in Seq(S)
(* The levels from l at the first entry down to the ground.                *)
Fit(t, l) ==
    /\ Sequence(t)
    /\ \E L \in [1..Len(t) + 1 -> Levels] :
         /\ L[1] = l
         /\ Ground(L[Len(t) + 1])
         /\ \A i \in 1..Len(t) : Entry(t[i], L[i], L[i + 1])

(* Nothing is left to visit on the ground only. *)
LEMMA FitNil ==
    ASSUME NEW l \in Levels
    PROVE  Fit(<<>>, l) <=> Ground(l)
<1>1. Sequence(<<>>)
  <2>1. <<>> \in Seq({}) OBVIOUS
  <2> QED BY <2>1 DEF Sequence
<1>2. ASSUME Ground(l) PROVE Fit(<<>>, l)
  <2> DEFINE L == [i \in 1..1 |-> l]
  <2>1. L \in [1..Len(<<>>) + 1 -> Levels] /\ L[1] = l /\ L[Len(<<>>) + 1] = l
    OBVIOUS
  <2>2. \A i \in 1..Len(<<>>) : Entry(<<>>[i], L[i], L[i + 1])
    OBVIOUS
  <2> QED BY <1>1, <1>2, <2>1, <2>2 DEF Fit
<1>3. ASSUME Fit(<<>>, l) PROVE Ground(l)
  BY <1>3 DEF Fit
<1> QED BY <1>2, <1>3

(* The first entry is taken off: the rest fits at the next level. *)
LEMMA FitTail ==
    ASSUME NEW t, NEW l \in Levels, Fit(t, l), t # <<>>
    PROVE  /\ Sequence(Tail(t))
           /\ \E m \in Levels : Fit(Tail(t), m) /\ Entry(Head(t), l, m)
<1>1. PICK S : t \in Seq(S)
  BY DEF Fit, Sequence
<1>2. PICK L \in [1..Len(t) + 1 -> Levels] :
         /\ L[1] = l
         /\ Ground(L[Len(t) + 1])
         /\ \A i \in 1..Len(t) : Entry(t[i], L[i], L[i + 1])
  BY DEF Fit
<1>3. Len(t) \in Nat /\ Len(t) > 0 /\ Tail(t) \in Seq(S) /\ Len(Tail(t)) = Len(t) - 1
      /\ Head(t) = t[1] /\ \A i \in 1..Len(t) - 1 : Tail(t)[i] = t[i + 1]
  BY <1>1
<1> DEFINE M == [i \in 1..Len(t) |-> L[i + 1]]
<1>4. M \in [1..Len(Tail(t)) + 1 -> Levels] /\ M[1] = L[2] /\ M[Len(Tail(t)) + 1] = L[Len(t) + 1]
  BY <1>2, <1>3
<1>5. ASSUME NEW i \in 1..Len(Tail(t))
      PROVE  Entry(Tail(t)[i], M[i], M[i + 1])
  <2>1. i \in 1..Len(t) - 1 /\ i + 1 \in 1..Len(t) /\ i \in 1..Len(t) /\ i \in Int
    BY <1>3
  <2>2. Entry(t[i + 1], L[i + 1], L[(i + 1) + 1])
    BY <1>2, <2>1
  <2>3. M[i] = L[i + 1] /\ M[i + 1] = L[(i + 1) + 1]
    BY <2>1
  <2> QED BY <1>3, <2>1, <2>2, <2>3
<1>6. Sequence(Tail(t))
  BY <1>3 DEF Sequence
<1>7. Fit(Tail(t), L[2])
  BY <1>2, <1>4, <1>5, <1>6 DEF Fit
<1>8. L[2] \in Levels /\ Entry(Head(t), l, L[2])
  BY <1>2, <1>3
<1> QED BY <1>6, <1>7, <1>8
(* A visitor is entered: its entry is put before what fits. *)
LEMMA FitPush ==
    ASSUME NEW t, NEW x, NEW l \in Levels, NEW m \in Levels, Fit(t, m), Entry(x, l, m)
    PROVE  Fit(<<x>> \o t, l)
<1>1. PICK S : t \in Seq(S)
  BY DEF Fit, Sequence
<1>2. PICK L \in [1..Len(t) + 1 -> Levels] :
         /\ L[1] = m
         /\ Ground(L[Len(t) + 1])
         /\ \A i \in 1..Len(t) : Entry(t[i], L[i], L[i + 1])
  BY DEF Fit
<1> DEFINE T == <<x>> \o t
           M == [i \in 1..Len(t) + 2 |-> IF i = 1 THEN l ELSE L[i - 1]]
<1>3. Len(t) \in Nat /\ T \in Seq(S \cup {x}) /\ Len(T) = Len(t) + 1
      /\ T[1] = x /\ \A i \in 1..Len(t) : T[i + 1] = t[i]
  <2>1. t \in Seq(S \cup {x}) /\ <<x>> \in Seq(S \cup {x})
    BY <1>1
  <2> QED BY <2>1
<1> HIDE DEF T
<1>4. M \in [1..Len(T) + 1 -> Levels] /\ M[1] = l /\ M[Len(T) + 1] = L[Len(t) + 1]
  BY <1>2, <1>3
<1>5. ASSUME NEW i \in 1..Len(T)
      PROVE  Entry(T[i], M[i], M[i + 1])
  <2>1. CASE i = 1
    <3>1. M[1] = l /\ M[1 + 1] = m
      BY <1>2, <1>3
    <3> QED BY <1>3, <2>1, <3>1
  <2>2. CASE i # 1
    <3>1. i - 1 \in 1..Len(t) /\ i \in 1..Len(t) + 2 /\ i + 1 \in 1..Len(t) + 2 /\ (i - 1) + 1 = i /\ (i + 1) - 1 = i
      BY <1>3, <2>2
    <3>2. M[i] = L[i - 1] /\ M[i + 1] = L[i] /\ T[i] = t[i - 1]
      BY <1>3, <2>2, <3>1
    <3>3. Entry(t[i - 1], L[i - 1], L[(i - 1) + 1])
      BY <1>2, <3>1
    <3> QED BY <3>1, <3>2, <3>3
  <2> QED BY <2>1, <2>2
<1>6. Sequence(T)
  BY <1>3 DEF Sequence
<1>7. Fit(T, l)
  BY <1>2, <1>4, <1>5, <1>6 DEF Fit
<1> QED BY <1>7 DEF T

(* Statements are put before what fits: they change no level. *)
LEMMA FitNodes ==
    ASSUME NEW t, NEW ss \in Seq(Nodes), NEW l \in Levels, Fit(t, l),
           \A x \in Nodes : Entry(x, l, l)
    PROVE  Fit(ss \o t, l)
<1>1. PICK S : t \in Seq(S)
  BY DEF Fit, Sequence
<1>2. PICK L \in [1..Len(t) + 1 -> Levels] :
         /\ L[1] = l
         /\ Ground(L[Len(t) + 1])
         /\ \A i \in 1..Len(t) : Entry(t[i], L[i], L[i + 1])
  BY DEF Fit
<1> DEFINE T == ss \o t
           k == Len(ss)
           M == [i \in 1..k + Len(t) + 1 |-> IF i <= k THEN l ELSE L[i - k]]
<1>3. Len(t) \in Nat /\ k \in Nat /\ T \in Seq(S \cup Nodes) /\ Len(T) = k + Len(t)
      /\ (\A i \in 1..k : T[i] = ss[i] /\ ss[i] \in Nodes) /\ \A i \in k + 1..k + Len(t) : T[i] = t[i - k]
  <2>1. t \in Seq(S \cup Nodes) /\ ss \in Seq(S \cup Nodes)
    BY <1>1
  <2> QED BY <2>1
<1> HIDE DEF T, k
<1>4. M \in [1..Len(T) + 1 -> Levels] /\ M[1] = l /\ M[Len(T) + 1] = L[Len(t) + 1]
  BY <1>2, <1>3
<1>5. ASSUME NEW i \in 1..Len(T)
      PROVE  Entry(T[i], M[i], M[i + 1])
  <2>1. CASE i <= k
    <3>1. M[i] = l /\ M[i + 1] = l
      BY <1>2, <1>3, <2>1
    <3>2. T[i] \in Nodes
      <4>1. i \in 1..k
        BY <1>3, <2>1
      <4> QED BY <1>3, <4>1
    <3>3. Entry(T[i], l, l)
      BY <3>2
    <3> HIDE DEF M
    <3> QED BY <3>1, <3>3
  <2>2. CASE ~(i <= k)
    <3>1. i - k \in 1..Len(t) /\ i \in k + 1..k + Len(t) /\ i \in 1..k + Len(t) + 1 /\ i + 1 \in 1..k + Len(t) + 1
          /\ (i + 1) - k = (i - k) + 1
      BY <1>3, <2>2
    <3>2. M[i] = L[i - k] /\ M[i + 1] = L[(i - k) + 1] /\ T[i] = t[i - k]
      BY <1>3, <2>2, <3>1
    <3>3. Entry(t[i - k], L[i - k], L[(i - k) + 1])
      BY <1>2, <3>1
    <3> QED BY <3>2, <3>3
  <2> QED BY <2>1, <2>2
<1>6. Sequence(T)
  BY <1>3 DEF Sequence
<1>7. Fit(T, l)
  BY <1>2, <1>4, <1>5, <1>6 DEF Fit
<1> QED BY <1>7 DEF T
-----------------------------------------------------------------------------
(* A level with given parts. *)
LEMMA LevelMade ==
    ASSUME NEW n \in Nat, NEW d \in Nat, NEW b \in Nat, NEW e \in BOOLEAN, NEW p \in BOOLEAN
    PROVE  \E l \in Levels : l.scopes = n /\ l.depth = d /\ l.due = b /\ l.err = e /\ l.null = p
<1> DEFINE l == [scopes |-> n, depth |-> d, due |-> b, err |-> e, null |-> p]
<1>1. l \in Levels /\ l.scopes = n /\ l.depth = d /\ l.due = b /\ l.err = e /\ l.null = p
  BY DEF Levels
<1> QED BY <1>1

(* The parts of a level. *)
LEMMA LevelParts ==
    ASSUME NEW l \in Levels
    PROVE  /\ l.scopes \in Nat /\ l.depth \in Nat /\ l.due \in Nat
           /\ l.err \in BOOLEAN /\ l.null \in BOOLEAN
  BY DEF Levels

(* The kind of an entry tells which visitor it is the end of. *)
LEMMA FreeEntryKinds ==
    ASSUME NEW x, NEW l, NEW m, FreeEntry(x, l, m)
    PROVE  /\ x.k \in NodeKinds => NodeEntry(x, l, m)
           /\ x.k = "fn" => FnEntry(x, l, m)
           /\ x.k = "endfn" => EndFnEntry(x, l, m)
           /\ x.k = "defers" => DefersEntry(x, l, m)
           /\ x.k = "endblock" => EndBlockEntry(x, l, m)
           /\ x.k = "endreturn" => EndReturnEntry(x, l, m)
           /\ x.k \in {"endbranch", "endloop"} => EndPairEntry(x, l, m)
<1>1. NodeEntry(x, l, m) => x.k \in NodeKinds
  BY NodesAssumption DEF NodeEntry
<1>2. FnEntry(x, l, m) => x.k = "fn"
  BY DEF FnEntry
<1>3. EndFnEntry(x, l, m) => x.k = "endfn"
  BY DEF EndFnEntry
<1>4. DefersEntry(x, l, m) => x.k = "defers"
  BY DEF DefersEntry
<1>5. EndBlockEntry(x, l, m) => x.k = "endblock"
  BY DEF EndBlockEntry
<1>6. EndReturnEntry(x, l, m) => x.k = "endreturn"
  BY DEF EndReturnEntry
<1>7. EndPairEntry(x, l, m) => x.k \in {"endbranch", "endloop"}
  BY DEF EndPairEntry
<1> QED BY <1>1, <1>2, <1>3, <1>4, <1>5, <1>6, <1>7 DEF FreeEntry, NodeKinds

(* Between Head and Tail: the sequence without the first entry. *)
LEMMA NothingAdded ==
    ASSUME NEW t, Sequence(t)
    PROVE  <<>> \o t = t
<1>1. PICK S : t \in Seq(S)
  BY DEF Sequence
<1> QED BY <1>1
-----------------------------------------------------------------------------
(* The stack of a new function. *)
LEMMA StackOne ==
    /\ Stack(<<>>) /\ Len(<<>>) = 0
    /\ Stack(<<DF!EmptyMap>>) /\ Len(<<DF!EmptyMap>>) = 1
<1>1. FreeMap(DF!EmptyMap)
  BY DEF FreeMap, DF!EmptyMap
<1> DEFINE M == {DF!EmptyMap}
<1>2. <<>> \in Seq(M) /\ <<DF!EmptyMap>> \in Seq(M) /\ \A m \in M : FreeMap(m)
  BY <1>1
<1>3. Len(<<>>) = 0 /\ Len(<<DF!EmptyMap>>) = 1
  OBVIOUS
<1> HIDE DEF M
<1>4. Stack(<<>>)
  BY <1>2 DEF Stack
<1>5. Stack(<<DF!EmptyMap>>)
  BY <1>2 DEF Stack
<1> QED BY <1>3, <1>4, <1>5

(* A state is put on the stack. *)
LEMMA StackAppend ==
    ASSUME NEW ss, NEW g, Stack(ss), FreeMap(g)
    PROVE  Stack(Append(ss, g)) /\ Len(ss) \in Nat /\ Len(Append(ss, g)) = Len(ss) + 1
<1>1. PICK M : ss \in Seq(M) /\ \A m \in M : FreeMap(m)
  BY DEF Stack
<1>2. ss \in Seq(M \cup {g}) /\ \A m \in M \cup {g} : FreeMap(m)
  BY <1>1
<1>3. Append(ss, g) \in Seq(M \cup {g}) /\ Len(ss) \in Nat /\ Len(Append(ss, g)) = Len(ss) + 1
  BY <1>2
<1> QED BY <1>2, <1>3 DEF Stack

(* A scope is opened (pushScope). *)
LEMMA StackPush ==
    ASSUME NEW ss, Stack(ss)
    PROVE  Stack(DF!Push(ss)) /\ Len(ss) \in Nat /\ Len(DF!Push(ss)) = Len(ss) + 1
<1>1. FreeMap(DF!EmptyMap)
  BY DEF FreeMap, DF!EmptyMap
<1> QED BY <1>1, StackAppend DEF DF!Push

(* A sequence without its last element. *)
LEMMA FrontOf ==
    ASSUME NEW S, NEW s \in Seq(S), Len(s) > 0
    PROVE  /\ Len(s) \in Nat /\ s[Len(s)] \in S
           /\ SubSeq(s, 1, Len(s) - 1) \in Seq(S)
           /\ Len(SubSeq(s, 1, Len(s) - 1)) = Len(s) - 1
           /\ \A i \in 1..Len(s) - 1 : SubSeq(s, 1, Len(s) - 1)[i] = s[i]
<1> DEFINE n == Len(s) - 1
<1>1. Len(s) \in Nat /\ n \in Int /\ n >= 0 /\ s[Len(s)] \in S /\ \A i \in 1..n : s[i] \in S
  OBVIOUS
<1> HIDE DEF n
<1>2. /\ SubSeq(s, 1, n) \in Seq(S)
      /\ Len(SubSeq(s, 1, n)) = (IF 1 <= n THEN n - 1 + 1 ELSE 0)
      /\ \A i \in 1..n - 1 + 1 : SubSeq(s, 1, n)[i] = s[1 + i - 1]
  BY <1>1, SubSeqProperties
<1>3. Len(SubSeq(s, 1, n)) = n
  BY <1>1, <1>2
<1>4. ASSUME NEW i \in 1..n PROVE SubSeq(s, 1, n)[i] = s[i]
  <2>1. i \in 1..n - 1 + 1 /\ 1 + i - 1 = i
    BY <1>1
  <2> QED BY <1>2, <2>1
<1> QED BY <1>1, <1>2, <1>3, <1>4 DEF n

(* The last scope is taken off (popScope). *)
LEMMA StackFront ==
    ASSUME NEW ss, Stack(ss), Len(ss) > 0
    PROVE  /\ Stack(DF!Front(ss)) /\ Len(ss) \in Nat /\ Len(DF!Front(ss)) = Len(ss) - 1
           /\ FreeMap(DF!Last(ss))
<1>1. PICK M : ss \in Seq(M) /\ \A m \in M : FreeMap(m)
  BY DEF Stack
<1>2. Len(ss) \in Nat /\ DF!Front(ss) \in Seq(M) /\ Len(DF!Front(ss)) = Len(ss) - 1 /\ DF!Last(ss) \in M
  <2>1. DF!Front(ss) = SubSeq(ss, 1, Len(ss) - 1) /\ DF!Last(ss) = ss[Len(ss)]
    BY DEF DF!Front, DF!Last
  <2> QED BY <1>1, <2>1, FrontOf
<1> QED BY <1>1, <1>2 DEF Stack

(* The last scope is replaced. *)
LEMMA StackTop ==
    ASSUME NEW ss, NEW g, Stack(ss), Len(ss) > 0, FreeMap(g)
    PROVE  Stack([ss EXCEPT ![Len(ss)] = g]) /\ Len([ss EXCEPT ![Len(ss)] = g]) = Len(ss)
<1>1. PICK M : ss \in Seq(M) /\ \A m \in M : FreeMap(m)
  BY DEF Stack
<1>2. ss \in Seq(M \cup {g}) /\ \A m \in M \cup {g} : FreeMap(m)
  BY <1>1
<1>3. [ss EXCEPT ![Len(ss)] = g] \in Seq(M \cup {g}) /\ Len([ss EXCEPT ![Len(ss)] = g]) = Len(ss)
  BY <1>2
<1> QED BY <1>2, <1>3 DEF Stack
(* A set of numbers that is not empty has a least one. *)
LEMMA LeastExists ==
    ASSUME NEW bad \in SUBSET Nat, bad # {}
    PROVE  \E f \in bad : \A g \in bad : f <= g
<1> DEFINE less == OpToRel(<, Nat)
<1>1. PICK x \in bad : \A y \in bad : ~(<<y, x>> \in less)
  <2> HIDE DEF less
  <2> QED BY NatLessThanWellFounded, WFMin DEF less
<1>2. \A y \in bad : <<y, x>> \in less <=> y < x
  BY DEF OpToRel
<1>3. \A y \in bad : ~(y < x) /\ y \in Nat /\ x \in Nat
  BY <1>1, <1>2
<1> QED BY <1>3

(* The largest of some indices (Max of the lookup). *)
LEMMA LargestIndex ==
    ASSUME NEW n \in Nat, NEW S \in SUBSET (1..n), S # {}
    PROVE  DF!Max(S) \in S /\ NP!Max(S) \in S
<1>1. \E x \in S : \A y \in S : x >= y
  <2> DEFINE T == {n - i : i \in S}
  <2>1. T \in SUBSET Nat /\ T # {}
    <3>1. ASSUME NEW i \in S PROVE n - i \in Nat
      OBVIOUS
    <3>2. PICK i \in S : TRUE
      OBVIOUS
    <3>3. n - i \in T
      OBVIOUS
    <3> QED BY <3>1, <3>3
  <2>2. PICK t \in T : \A u \in T : t <= u
    <3> HIDE DEF T
    <3> QED BY <2>1, LeastExists
  <2>3. PICK x \in S : t = n - x
    OBVIOUS
  <2>4. ASSUME NEW y \in S PROVE x >= y
    <3>1. n - y \in T
      OBVIOUS
    <3> HIDE DEF T
    <3>2. n - x <= n - y
      BY <2>2, <2>3, <3>1
    <3> QED BY <3>2
  <2> QED BY <2>4
<1> QED BY <1>1 DEF DF!Max, NP!Max

(* What a lookup finds: nothing, or the state of a tracked pointer. *)
LEMMA StackGet ==
    ASSUME NEW ss, NEW x, Stack(ss)
    PROVE  /\ DF!hasVariable(ss, x) => DF!getState(ss, x) \in TrackedPointers
           /\ ~DF!hasVariable(ss, x) => DF!getState(ss, x) = DF!NotTracked
<1>1. PICK M : ss \in Seq(M) /\ \A m \in M : FreeMap(m)
  BY DEF Stack
<1>2. ASSUME DF!hasVariable(ss, x)
      PROVE  DF!getState(ss, x) \in TrackedPointers
  <2> DEFINE I == {i \in DOMAIN ss : x \in DOMAIN ss[i]}
  <2>1. Len(ss) \in Nat /\ DOMAIN ss = 1..Len(ss)
    BY <1>1
  <2>2. I \in SUBSET (1..Len(ss)) /\ I # {}
    BY <1>2, <2>1 DEF DF!hasVariable
  <2>3. DF!Max(I) \in I
    BY <2>1, <2>2, LargestIndex
  <2>4. DF!Max(I) \in DOMAIN ss /\ x \in DOMAIN ss[DF!Max(I)]
    BY <2>3
  <2>5. DF!getState(ss, x) = ss[DF!Max(I)][x]
    BY <1>2 DEF DF!getState
  <2> HIDE DEF I
  <2>6. ss[DF!Max(I)] \in M
    BY <1>1, <2>1, <2>4
  <2> QED BY <1>1, <2>4, <2>5, <2>6 DEF FreeMap
<1>3. ASSUME ~DF!hasVariable(ss, x)
      PROVE  DF!getState(ss, x) = DF!NotTracked
  BY <1>3 DEF DF!getState
<1> QED BY <1>2, <1>3

(* The state of one pointer is set. *)
LEMMA StackSet ==
    ASSUME NEW ss, NEW x, NEW tp \in TrackedPointers, Stack(ss), Len(ss) > 0
    PROVE  Stack(DF!setState(ss, x, tp)) /\ Len(DF!setState(ss, x, tp)) = Len(ss)
<1>1. PICK M : ss \in Seq(M) /\ \A m \in M : FreeMap(m)
  BY DEF Stack
<1> DEFINE top == ss[Len(ss)]
           g == [y \in DOMAIN top \cup {x} |-> IF y = x THEN tp ELSE top[y]]
<1>2. FreeMap(top)
  BY <1>1
<1>3. FreeMap(g)
  BY <1>2 DEF FreeMap
<1>4. DF!setState(ss, x, tp) = [ss EXCEPT ![Len(ss)] = g]
  BY <1>1 DEF DF!setState
<1> HIDE DEF g
<1>5. Stack([ss EXCEPT ![Len(ss)] = g]) /\ Len([ss EXCEPT ![Len(ss)] = g]) = Len(ss)
  BY <1>3, StackTop
<1> QED BY <1>4, <1>5
-----------------------------------------------------------------------------
(* The last scope takes over the states f gives to the names of ys. *)
Taken(ss, ys, f) ==
    [ss EXCEPT ![Len(ss)] = [y \in DOMAIN ss[Len(ss)] \cup ys |->
                               IF y \in ys THEN f[y] ELSE ss[Len(ss)][y]]]

(* A scope that takes over tracked pointers holds tracked pointers. *)
LEMMA StackTake ==
    ASSUME NEW ss, NEW ys, NEW f, Stack(ss), Len(ss) > 0,
           \A y \in ys : f[y] \in TrackedPointers
    PROVE  Stack(Taken(ss, ys, f)) /\ Len(Taken(ss, ys, f)) = Len(ss)
<1>1. PICK M : ss \in Seq(M) /\ \A m \in M : FreeMap(m)
  BY DEF Stack
<1> DEFINE top == ss[Len(ss)]
           g == [y \in DOMAIN top \cup ys |-> IF y \in ys THEN f[y] ELSE top[y]]
<1>2. FreeMap(top)
  BY <1>1
<1>3. FreeMap(g)
  BY <1>2 DEF FreeMap
<1> HIDE DEF g
<1>5. Stack([ss EXCEPT ![Len(ss)] = g]) /\ Len([ss EXCEPT ![Len(ss)] = g]) = Len(ss)
  BY <1>3, StackTop
<1> QED BY <1>5 DEF Taken, g

(* The parts of a tracked pointer can be changed. *)
LEMMA TrackedChanged ==
    ASSUME NEW tp \in TrackedPointers, NEW s \in DF!AllocationStates, NEW d \in Nat, NEW b \in BOOLEAN
    PROVE  /\ [tp EXCEPT !.state = s] \in TrackedPointers
           /\ [tp EXCEPT !.depth = d] \in TrackedPointers
           /\ [tp EXCEPT !.returned = b] \in TrackedPointers
           /\ tp.state \in DF!AllocationStates /\ tp.depth \in Nat
  BY DEF TrackedPointers

(* A merged pointer is a tracked pointer. *)
LEMMA TrackedMerged ==
    ASSUME NEW a \in TrackedPointers, NEW b
    PROVE  DF!mergeTrackedPointers(a, b) \in TrackedPointers
<1>1. "UNKNOWN" \in DF!AllocationStates
  BY DEF DF!AllocationStates
<1>2. [a EXCEPT !.state = "UNKNOWN"] \in TrackedPointers
  BY <1>1, TrackedChanged
<1> QED BY <1>2 DEF DF!mergeTrackedPointers

(* A scope is left for good. *)
LEMMA StackLinear ==
    ASSUME NEW ss, Stack(ss), Len(ss) >= 2
    PROVE  Stack(DF!mergeScopesLinear(ss)) /\ Len(DF!mergeScopesLinear(ss)) = Len(ss) - 1
<1> DEFINE t == DF!Front(ss)
           f == DF!Last(ss)
           ys == {x \in DF!modified(f) : DF!hasVariable(t, x)}
<1>1. Len(ss) \in Nat /\ Stack(t) /\ Len(t) = Len(ss) - 1 /\ FreeMap(f)
  BY StackFront
<1>2. \A y \in ys : f[y] \in TrackedPointers
  BY <1>1 DEF FreeMap, DF!modified
<1>3. DF!mergeScopesLinear(ss) = Taken(t, ys, f)
  <2>1. PICK M : t \in Seq(M)
    BY <1>1 DEF Stack
  <2> HIDE DEF t, f
  <2> QED BY <2>1 DEF DF!mergeScopesLinear, DF!SetAll, Taken, t, f
<1>4. Len(t) > 0
  BY <1>1
<1> HIDE DEF t, f, ys
<1> QED BY <1>1, <1>2, <1>3, <1>4, StackTake

(* A branch is merged into the state before it. *)
LEMMA StackAlternative ==
    ASSUME NEW ss, Stack(ss), Len(ss) >= 2
    PROVE  Stack(DF!mergeScopesAlternative(ss)) /\ Len(DF!mergeScopesAlternative(ss)) = Len(ss) - 1
<1> DEFINE t == DF!Front(ss)
           b == DF!Last(ss)
           ys == {x \in DF!modified(b) : DF!hasVariable(t, x)}
           f == [x \in ys |-> DF!mergeTrackedPointers(DF!getState(t, x), b[x])]
<1>1. Len(ss) \in Nat /\ Stack(t) /\ Len(t) = Len(ss) - 1
  BY StackFront
<1>2. \A y \in ys : f[y] \in TrackedPointers
  <2> HIDE DEF t, b
  <2>1. ASSUME NEW y \in ys
        PROVE  DF!mergeTrackedPointers(DF!getState(t, y), b[y]) \in TrackedPointers
    <3>1. DF!getState(t, y) \in TrackedPointers
      BY <1>1, StackGet
    <3> QED BY <3>1, TrackedMerged
  <2> QED BY <2>1
<1>3. DF!mergeScopesAlternative(ss) = Taken(t, ys, f)
  <2>1. PICK M : t \in Seq(M)
    BY <1>1 DEF Stack
  <2> HIDE DEF t, b
  <2> QED BY <2>1 DEF DF!mergeScopesAlternative, DF!SetAll, Taken, t, b
<1>4. Len(t) > 0
  BY <1>1
<1> HIDE DEF t, f, ys
<1> QED BY <1>1, <1>2, <1>3, <1>4, StackTake

(* What a loop's body has set is unknown in the state before it. *)
LEMMA StackLoop ==
    ASSUME NEW t, NEW ys, Stack(t), Len(t) > 0, \A y \in ys : DF!hasVariable(t, y),
           NEW f, f = [y \in ys |-> [DF!getState(t, y) EXCEPT !.state = "UNKNOWN"]]
    PROVE  Stack(Taken(t, ys, f)) /\ Len(Taken(t, ys, f)) = Len(t)
<1>1. "UNKNOWN" \in DF!AllocationStates
  BY DEF DF!AllocationStates
<1>2. ASSUME NEW y \in ys
      PROVE  [DF!getState(t, y) EXCEPT !.state = "UNKNOWN"] \in TrackedPointers
  <2>1. DF!getState(t, y) \in TrackedPointers
    BY StackGet
  <2> QED BY <1>1, <2>1, TrackedChanged
<1>3. \A y \in ys : f[y] \in TrackedPointers
  BY <1>2
<1> QED BY <1>3, StackTake

(* A name known before a branch is known in it. *)
LEMMA KnownInBranch ==
    ASSUME NEW ss, NEW g, NEW x, Stack(ss), FreeMap(g), DF!hasVariable(ss, x)
    PROVE  DF!getState(Append(ss, g), x) \in TrackedPointers
<1>1. PICK M : ss \in Seq(M)
  BY DEF Stack
<1>2. PICK i \in DOMAIN ss : x \in DOMAIN ss[i]
  BY DEF DF!hasVariable
<1>3. i \in DOMAIN Append(ss, g) /\ Append(ss, g)[i] = ss[i]
  BY <1>1
<1>4. DF!hasVariable(Append(ss, g), x)
  BY <1>2, <1>3 DEF DF!hasVariable
<1>5. Stack(Append(ss, g))
  BY StackAppend
<1> QED BY <1>4, <1>5, StackGet

(* All the branches are merged into the state before them. *)
LEMMA StackProngs ==
    ASSUME NEW t, NEW bs, Stack(t), Stack(bs), Len(t) > 0, Len(bs) > 0
    PROVE  /\ Stack(DF!mergeSwitchProngStates(t, bs))
           /\ Len(DF!mergeSwitchProngStates(t, bs)) = Len(t)
<1> DEFINE of(i, x) == DF!getState(Append(t, bs[i]), x)
           merged(i, x) == DF!mergeTrackedPointers(of(1, x), of(i, x))
           differ(x) == {i \in DOMAIN bs : merged(i, x) # of(1, x)}
           all(x) == IF differ(x) = {} THEN of(1, x) ELSE merged(CHOOSE i \in differ(x) : TRUE, x)
           ys == {x \in UNION {DF!modified(bs[i]) : i \in DOMAIN bs} : DF!hasVariable(t, x)}
           f == [x \in ys |-> all(x)]
<1>1. FreeMap(bs[1])
  <2>1. PICK M : bs \in Seq(M) /\ \A m \in M : FreeMap(m)
    BY DEF Stack
  <2>2. bs[1] \in M
    BY <2>1
  <2> QED BY <2>1, <2>2
<1>2. ASSUME NEW y \in ys PROVE all(y) \in TrackedPointers
  <2>1. DF!hasVariable(t, y)
    OBVIOUS
  <2>2. of(1, y) \in TrackedPointers
    BY <1>1, <2>1, KnownInBranch
  <2> HIDE DEF of
  <2>3. ASSUME NEW i PROVE merged(i, y) \in TrackedPointers
    BY <2>2, TrackedMerged
  <2> HIDE DEF merged, differ
  <2> QED BY <2>2, <2>3
<1>3. \A y \in ys : f[y] \in TrackedPointers
  <2> HIDE DEF all, ys
  <2> QED BY <1>2
<1>4. DF!mergeSwitchProngStates(t, bs) = Taken(t, ys, f)
  <2>1. PICK M : t \in Seq(M)
    BY DEF Stack
  <2>2. DF!mergeSwitchProngStates(t, bs)
          = [t EXCEPT ![Len(t)] = [y \in DOMAIN t[Len(t)] \cup ys |->
                                     IF y \in ys THEN all(y) ELSE t[Len(t)][y]]]
    BY <2>1 DEF DF!mergeSwitchProngStates, DF!SetAll
  <2> HIDE DEF all, ys
  <2> QED BY <2>1, <2>2 DEF Taken
<1> HIDE DEF f, ys
<1> QED BY <1>3, <1>4, StackTake

(* if and switch have branches. *)
LEMMA BranchesOK ==
    ASSUME NEW n \in Nodes, n.k \in {"if", "switch"}
    PROVE  DF!Branches(n) \in Seq(Nodes) /\ Len(DF!Branches(n)) > 0
<1>1. CASE n.k = "switch"
  <2>1. n.prongs \in Seq(Nodes) /\ n.prongs # <<>>
    BY <1>1, NodesAssumption
  <2>2. Len(n.prongs) > 0
    BY <2>1
  <2>3. DF!Branches(n) = n.prongs
    BY <1>1 DEF DF!Branches
  <2> QED BY <2>1, <2>2, <2>3
<1>2. CASE n.k = "if"
  <2>1. n.then \in Nodes /\ n.else \in Nodes
    BY <1>2, NodesAssumption
  <2>2. DF!Branches(n) = <<n.then>> \/ DF!Branches(n) = <<n.then, n.else>>
    BY <1>2 DEF DF!Branches
  <2>3. <<n.then>> \in Seq(Nodes) /\ <<n.then, n.else>> \in Seq(Nodes)
        /\ Len(<<n.then>>) > 0 /\ Len(<<n.then, n.else>>) > 0
    BY <2>1
  <2> QED BY <2>2, <2>3
<1> QED BY <1>1, <1>2
-----------------------------------------------------------------------------
(* The deferred actions, none of a block deeper than due. *)
DeferredActions == [statement : Nodes, depth : Nat \ {0}, is_errdefer : BOOLEAN]
DefersOK(ds, due) ==
    /\ ds \in Seq(DeferredActions)
    /\ \A i \in 1..Len(ds) : ds[i].depth <= due
    /\ \A i, j \in 1..Len(ds) : i <= j => ds[i].depth <= ds[j].depth

(* The parts of a deferred action. *)
LEMMA DeferredParts ==
    ASSUME NEW a \in DeferredActions
    PROVE  a.statement \in Nodes /\ a.depth \in Nat /\ a.depth > 0 /\ a.is_errdefer \in BOOLEAN
  BY DEF DeferredActions

(* No deferred actions. *)
LEMMA DefersNone ==
    ASSUME NEW due \in Nat
    PROVE  DefersOK(<<>>, due)
<1>1. <<>> \in Seq(DeferredActions) /\ Len(<<>>) = 0
  OBVIOUS
<1> QED BY <1>1 DEF DefersOK

(* Without actions there is no block of one. *)
LEMMA DefersGone ==
    ASSUME NEW ds, DefersOK(ds, 0)
    PROVE  ds = <<>>
<1>1. ds \in Seq(DeferredActions) /\ Len(ds) \in Nat /\ \A i \in 1..Len(ds) : ds[i] \in DeferredActions
  BY DEF DefersOK
<1>2. ASSUME Len(ds) > 0 PROVE FALSE
  <2>1. 1 \in 1..Len(ds)
    BY <1>1, <1>2
  <2>2. ds[1] \in DeferredActions /\ ds[1].depth <= 0
    BY <1>1, <2>1 DEF DefersOK
  <2> QED BY <2>2, DeferredParts
<1>3. Len(ds) = 0
  BY <1>1, <1>2
<1> QED BY <1>1, <1>3

(* visitDeferStmt in the innermost block. *)
LEMMA DefersAppend ==
    ASSUME NEW ds, NEW due \in Nat, due > 0, DefersOK(ds, due), NEW a \in DeferredActions, a.depth = due
    PROVE  DefersOK(Append(ds, a), due)
<1> DEFINE es == Append(ds, a)
<1>1. ds \in Seq(DeferredActions) /\ \A i \in 1..Len(ds) : ds[i].depth <= due
  BY DEF DefersOK
<1>2. es \in Seq(DeferredActions) /\ Len(ds) \in Nat /\ Len(es) = Len(ds) + 1
      /\ es[Len(ds) + 1] = a /\ \A i \in 1..Len(ds) : es[i] = ds[i]
  BY <1>1
<1> HIDE DEF es
<1>3. ASSUME NEW i \in 1..Len(es) PROVE es[i].depth <= due
  <2>1. CASE i = Len(es)
    BY <1>2, <2>1
  <2>2. CASE i # Len(es)
    <3>1. i \in 1..Len(ds)
      BY <1>2, <2>2
    <3> QED BY <1>1, <1>2, <3>1
  <2> QED BY <2>1, <2>2
<1>4. ASSUME NEW i \in 1..Len(es), NEW j \in 1..Len(es), i <= j
      PROVE  es[i].depth <= es[j].depth
  <2>1. CASE j = Len(es)
    BY <1>2, <1>3, <2>1
  <2>2. CASE j # Len(es)
    <3>1. i \in 1..Len(ds) /\ j \in 1..Len(ds)
      BY <1>2, <1>4, <2>2
    <3> QED BY <1>2, <1>4, <3>1 DEF DefersOK
  <2> QED BY <2>1, <2>2
<1>5. DefersOK(es, due)
  BY <1>2, <1>3, <1>4 DEF DefersOK
<1> QED BY <1>5 DEF es

(* The last action is the one of the deepest block, and can be taken off.  *)
LEMMA DefersFront ==
    ASSUME NEW ds, NEW due \in Nat, DefersOK(ds, due), ds # <<>>
    PROVE  /\ DF!Last(ds) \in DeferredActions
           /\ DefersOK(DF!Front(ds), due)
           /\ \A b \in Nat : DF!Last(ds).depth <= b => DefersOK(ds, b)
<1>1. ds \in Seq(DeferredActions) /\ \A i \in 1..Len(ds) : ds[i].depth <= due
  BY DEF DefersOK
<1>2. Len(ds) \in Nat /\ Len(ds) > 0
  BY <1>1
<1> DEFINE es == SubSeq(ds, 1, Len(ds) - 1)
<1>3. es \in Seq(DeferredActions) /\ Len(es) = Len(ds) - 1 /\ ds[Len(ds)] \in DeferredActions
      /\ \A i \in 1..Len(ds) - 1 : es[i] = ds[i]
  BY <1>1, <1>2, FrontOf
<1>4. DF!Front(ds) = es /\ DF!Last(ds) = ds[Len(ds)]
  BY DEF DF!Front, DF!Last
<1> HIDE DEF es
<1>5. DefersOK(es, due)
  <2>1. ASSUME NEW i \in 1..Len(es) PROVE i \in 1..Len(ds) /\ es[i] = ds[i]
    BY <1>2, <1>3
  <2>2. \A i \in 1..Len(es) : es[i].depth <= due
    BY <1>1, <2>1
  <2>3. \A i, j \in 1..Len(es) : i <= j => es[i].depth <= es[j].depth
    BY <2>1 DEF DefersOK
  <2> QED BY <1>3, <2>2, <2>3 DEF DefersOK
<1>6. ASSUME NEW b \in Nat, ds[Len(ds)].depth <= b
      PROVE  DefersOK(ds, b)
  <2>1. ASSUME NEW i \in 1..Len(ds) PROVE ds[i].depth <= b
    <3>1. ds[i].depth <= ds[Len(ds)].depth
      BY <1>2 DEF DefersOK
    <3>2. ds[i] \in DeferredActions
      BY <1>1
    <3>3. ds[i].depth \in Nat /\ ds[Len(ds)].depth \in Nat
      BY <1>3, <3>2, DeferredParts
    <3> QED BY <1>6, <3>1, <3>3
  <2> QED BY <1>1, <2>1 DEF DefersOK
<1> QED BY <1>3, <1>4, <1>5, <1>6

(* A larger bound holds as well. *)
LEMMA DefersWeaken ==
    ASSUME NEW ds, NEW a \in Nat, NEW b \in Nat, a <= b, DefersOK(ds, a)
    PROVE  DefersOK(ds, b)
<1>1. ASSUME NEW i \in 1..Len(ds) PROVE ds[i].depth <= b
  <2>1. ds[i] \in DeferredActions /\ ds[i].depth <= a
    BY DEF DefersOK
  <2> QED BY <2>1, DeferredParts
<1> QED BY <1>1 DEF DefersOK
-----------------------------------------------------------------------------
(* A level that differs from m in its heights. *)
LevelOf(m, n, d, b) == [m EXCEPT !.scopes = n, !.depth = d, !.due = b]

(* The parts of such a level. *)
LEMMA LevelOfParts ==
    ASSUME NEW m \in Levels, NEW n \in Nat, NEW d \in Nat, NEW b \in Nat
    PROVE  /\ LevelOf(m, n, d, b) \in Levels
           /\ LevelOf(m, n, d, b).scopes = n
           /\ LevelOf(m, n, d, b).depth = d
           /\ LevelOf(m, n, d, b).due = b
           /\ LevelOf(m, n, d, b).err = m.err
           /\ LevelOf(m, n, d, b).null = m.null
  BY DEF Levels, LevelOf

(* Two entries put before the others, one by one. *)
LEMMA TwoBefore ==
    ASSUME NEW x, NEW y, NEW t, Sequence(t)
    PROVE  <<x, y>> \o t = <<x>> \o (<<y>> \o t)
<1>1. PICK S : t \in Seq(S)
  BY DEF Sequence
<1> DEFINE R == S \cup {x, y}
<1>2. t \in Seq(R) /\ <<x>> \in Seq(R) /\ <<y>> \in Seq(R)
  BY <1>1
<1>3. <<x, y>> = <<x>> \o <<y>>
  <2>1. <<x, y>> \in Seq(R) /\ Len(<<x, y>>) = 2 /\ <<x, y>>[1] = x /\ <<x, y>>[2] = y
    OBVIOUS
  <2>2. <<x>> \o <<y>> \in Seq(R) /\ Len(<<x>> \o <<y>>) = 2
        /\ (<<x>> \o <<y>>)[1] = x /\ (<<x>> \o <<y>>)[2] = y
    BY <1>2
  <2>3. ASSUME NEW i \in 1..2 PROVE <<x, y>>[i] = (<<x>> \o <<y>>)[i]
    <3>1. i = 1 \/ i = 2
      OBVIOUS
    <3> QED BY <2>1, <2>2, <3>1
  <2> QED BY <2>1, <2>2, <2>3, SeqEqual
<1> HIDE DEF R
<1> QED BY <1>2, <1>3, ConcatAssociative

(* The double free analyzer is at level l: its stacks are as high as what  *)
(* is left to visit expects.                                               *)
FreeAt(l) ==
    /\ ~l.null
    /\ Fit(todo, l)
    /\ Stack(free_scopes) /\ Len(free_scopes) = l.scopes
    /\ current_scope_depth_ = l.depth
    /\ in_error_path_ = l.err
    /\ DefersOK(deferred_actions_, l.due)
FreeOK == \E l \in Levels : FreeAt(l)

(* What the analyzer meets leads to the level of the rest. *)
LEMMA FreeHead ==
    ASSUME NEW l \in Levels, FreeAt(l), todo # <<>>
    PROVE  \E m \in Levels : /\ ~m.null /\ Fit(Tail(todo), m)
                             /\ <<>> \o Tail(todo) = Tail(todo)
                             /\ FreeEntry(Head(todo), l, m)
<1>1. Fit(todo, l) /\ ~l.null
  BY DEF FreeAt
<1>2. PICK m \in Levels : Fit(Tail(todo), m) /\ Entry(Head(todo), l, m)
  BY <1>1, FitTail
<1>3. <<>> \o Tail(todo) = Tail(todo)
  BY <1>1, FitTail, NothingAdded
<1>4. ~m.null /\ FreeEntry(Head(todo), l, m)
  BY <1>1, <1>2 DEF Entry
<1> QED BY <1>2, <1>3, <1>4

(* A node is met: the rest is of the same level. *)
LEMMA FreeNode ==
    ASSUME FreeOK, todo # <<>>, Head(todo).k \in NodeKinds
    PROVE  \E l \in Levels :
             /\ FreeAt(l) /\ Fit(Tail(todo), l) /\ <<>> \o Tail(todo) = Tail(todo)
             /\ Head(todo) \in Nodes
             /\ l.due = l.depth /\ l.scopes > 0
             /\ Head(todo).k = "block" \/ l.depth > 0
<1>1. PICK l \in Levels : FreeAt(l)
  BY DEF FreeOK
<1>2. PICK m \in Levels : /\ ~m.null /\ Fit(Tail(todo), m)
                          /\ <<>> \o Tail(todo) = Tail(todo)
                          /\ FreeEntry(Head(todo), l, m)
  BY <1>1, FreeHead
<1>3. NodeEntry(Head(todo), l, m)
  BY <1>2, FreeEntryKinds
<1>4. l = m
  <2>1. Same(l, m) /\ ~l.null /\ ~m.null
    BY <1>1, <1>2, <1>3 DEF NodeEntry, FreeAt
  <2>2. l.null = m.null
    BY <2>1, LevelParts
  <2> QED BY <2>1, <2>2 DEF Same, Levels
<1> QED BY <1>1, <1>2, <1>3, <1>4 DEF NodeEntry

(* A node that changes states only: the level stays. *)
LEMMA FreeStays ==
    ASSUME FreeOK, todo # <<>>, Head(todo).k \in NodeKinds, DF!Goto(<<>>),
           Stack(free_scopes'), Len(free_scopes') = Len(free_scopes), UNCHANGED DF!analyzer
    PROVE  FreeOK'
<1>1. PICK l \in Levels : /\ FreeAt(l) /\ Fit(Tail(todo), l) /\ <<>> \o Tail(todo) = Tail(todo)
  BY FreeNode
<1>2. todo' = Tail(todo)
  BY <1>1 DEF DF!Goto
<1>3. FreeAt(l)'
  BY <1>1, <1>2 DEF FreeAt, DF!analyzer
<1> QED BY <1>3 DEF FreeOK

(* The scopes where a node is met. *)
LEMMA FreeNodeScopes ==
    ASSUME FreeOK, todo # <<>>, Head(todo).k \in NodeKinds
    PROVE  Stack(free_scopes) /\ Len(free_scopes) > 0 /\ current_scope_depth_ \in Nat /\ Head(todo) \in Nodes
<1>1. PICK l \in Levels : FreeAt(l) /\ l.scopes > 0 /\ Head(todo) \in Nodes
  BY FreeNode
<1> QED BY <1>1, LevelParts DEF FreeAt

(* The function is entered. *)
LEMMA FreeFn ==
    ASSUME FreeOK, DF!visitFnDecl
    PROVE  FreeOK'
<1>1. todo # <<>> /\ Head(todo).k = "fn"
  BY DEF DF!visitFnDecl, DF!At
<1>2. PICK l \in Levels : FreeAt(l)
  BY DEF FreeOK
<1>3. PICK m \in Levels : ~m.null /\ Fit(Tail(todo), m) /\ FreeEntry(Head(todo), l, m)
  BY <1>1, <1>2, FreeHead
<1>4. FnEntry(Head(todo), l, m)
  BY <1>1, <1>3, FreeEntryKinds
<1> DEFINE b == Head(todo).body
           e == DF!End("endfn", DF!None, <<>>)
<1>5. b \in Nodes /\ b.k = "block" /\ Ground(m) /\ ~in_error_path_
  <2>1. ~l.err
    BY <1>4 DEF FnEntry, Ground
  <2> QED BY <1>2, <1>4, <2>1 DEF FnEntry, Same, Ground, FreeAt
<1>6. PICK n \in Levels : n.scopes = 1 /\ n.depth = 0 /\ n.due = 0 /\ n.err = m.err /\ n.null = m.null
  <2>1. 1 \in Nat /\ 0 \in Nat
    OBVIOUS
  <2> QED BY <2>1, LevelOfParts
<1> ~n.null
  BY <1>3, <1>6
<1>7. Entry(e, n, m)
  <2>1. e.k = "endfn"
    BY DEF DF!End
  <2>2. EndFnEntry(e, n, m)
    BY <1>5, <1>6, <2>1 DEF EndFnEntry, Ground
  <2> QED BY <1>3, <1>6, <2>2 DEF Entry, FreeEntry
<1>8. Entry(b, n, n)
  <2>1. NodeEntry(b, n, n)
    BY <1>5, <1>6 DEF NodeEntry, Same
  <2> QED BY <1>6, <2>1 DEF Entry, FreeEntry
<1>9. Fit(todo', n)
  <2> HIDE DEF b, e
  <2>1. Fit(<<e>> \o Tail(todo), n)
    BY <1>3, <1>7, FitPush
  <2>2. Fit(<<b>> \o (<<e>> \o Tail(todo)), n)
    BY <1>8, <2>1, FitPush
  <2>3. todo' = <<b, e>> \o Tail(todo)
    BY DEF DF!visitFnDecl, DF!Goto, b, e
  <2>4. <<b, e>> \o Tail(todo) = <<b>> \o (<<e>> \o Tail(todo))
    BY <1>3, TwoBefore DEF Fit
  <2> QED BY <2>2, <2>3, <2>4
<1>10. FreeAt(n)'
  <2>1. free_scopes' = <<DF!EmptyMap>> /\ deferred_actions_' = <<>> /\ current_scope_depth_' = 0
        /\ in_error_path_' = in_error_path_
    BY DEF DF!visitFnDecl
  <2>2. Stack(free_scopes') /\ Len(free_scopes') = 1
    BY <2>1, StackOne
  <2>3. DefersOK(deferred_actions_', n.due)
    BY <1>6, <2>1, DefersNone
  <2>4. in_error_path_' = n.err
    BY <1>2, <1>4, <1>6, <2>1 DEF FnEntry, Same, FreeAt
  <2> QED BY <1>6, <1>9, <2>1, <2>2, <2>3, <2>4 DEF FreeAt
<1> QED BY <1>10 DEF FreeOK

(* The function is left. *)
LEMMA FreeEndFn ==
    ASSUME FreeOK, DF!EndFn
    PROVE  FreeOK'
<1>1. todo # <<>> /\ Head(todo).k = "endfn"
  BY DEF DF!EndFn, DF!At
<1>2. PICK l \in Levels : FreeAt(l)
  BY DEF FreeOK
<1>3. PICK m \in Levels : /\ ~m.null /\ Fit(Tail(todo), m) /\ <<>> \o Tail(todo) = Tail(todo)
                          /\ FreeEntry(Head(todo), l, m)
  BY <1>1, <1>2, FreeHead
<1>4. EndFnEntry(Head(todo), l, m)
  BY <1>1, <1>3, FreeEntryKinds
<1>5. todo' = Tail(todo) /\ free_scopes' = <<>> /\ UNCHANGED <<deferred_actions_, current_scope_depth_, in_error_path_>>
  BY <1>3 DEF DF!EndFn, DF!Goto, DF!analyzer
<1>6. Stack(free_scopes') /\ Len(free_scopes') = 0
  BY <1>5, StackOne
<1>7. m.scopes = 0 /\ m.depth = l.depth /\ m.due = l.due /\ ~m.err /\ ~l.err
  BY <1>4 DEF EndFnEntry, Ground
<1>8. m.err = l.err
  BY <1>7, LevelParts
<1>9. FreeAt(m)'
  BY <1>2, <1>3, <1>5, <1>6, <1>7, <1>8 DEF FreeAt
<1> QED BY <1>9 DEF FreeOK

(* A block is entered. *)
LEMMA FreeBlock ==
    ASSUME FreeOK, DF!visitBlockStmt
    PROVE  FreeOK'
<1>1. todo # <<>> /\ Head(todo).k = "block" /\ Head(todo).k \in NodeKinds
  BY DEF DF!visitBlockStmt, DF!At, NodeKinds
<1>2. PICK l \in Levels : /\ FreeAt(l) /\ Fit(Tail(todo), l)
                          /\ Head(todo) \in Nodes
                          /\ l.due = l.depth /\ l.scopes > 0
  BY <1>1, FreeNode
<1>3. ~l.null /\ l.depth \in Nat /\ l.scopes \in Nat /\ current_scope_depth_ = l.depth
  BY <1>2, LevelParts DEF FreeAt
<1> DEFINE ss == Head(todo).ss
           d == DF!End("defers", DF!None, current_scope_depth_ + 1)
           e == DF!End("endblock", DF!None, <<>>)
<1>4. ss \in Seq(Nodes)
  BY <1>1, <1>2, NodesAssumption
<1>a. PICK p \in Nat, q \in Nat, r \in Nat : p = l.scopes + 1 /\ q = l.depth + 1 /\ r = l.depth
  BY <1>3
<1>5. PICK n \in Levels : n.scopes = l.scopes + 1 /\ n.depth = l.depth + 1 /\ n.due = l.depth
                          /\ n.err = l.err /\ n.null = l.null
  <2>1. /\ LevelOf(l, p, q, r) \in Levels /\ LevelOf(l, p, q, r).scopes = p
        /\ LevelOf(l, p, q, r).depth = q /\ LevelOf(l, p, q, r).due = r
        /\ LevelOf(l, p, q, r).err = l.err /\ LevelOf(l, p, q, r).null = l.null
    BY LevelOfParts
  <2> QED BY <1>a, <2>1
<1>6. PICK o \in Levels : o.scopes = l.scopes + 1 /\ o.depth = l.depth + 1 /\ o.due = l.depth + 1
                          /\ o.err = l.err /\ o.null = l.null
  <2>1. /\ LevelOf(l, p, q, q) \in Levels /\ LevelOf(l, p, q, q).scopes = p
        /\ LevelOf(l, p, q, q).depth = q /\ LevelOf(l, p, q, q).due = q
        /\ LevelOf(l, p, q, q).err = l.err /\ LevelOf(l, p, q, q).null = l.null
    BY LevelOfParts
  <2> QED BY <1>a, <2>1
<1>7. Entry(e, n, l)
  <2>1. e.k = "endblock"
    BY DEF DF!End
  <2>2. EndBlockEntry(e, n, l)
    BY <1>2, <1>5, <2>1 DEF EndBlockEntry
  <2> QED BY <1>3, <1>5, <2>2 DEF Entry, FreeEntry
<1>8. Entry(d, o, n)
  <2>1. d.k = "defers" /\ d.kept = l.depth + 1
    BY <1>3 DEF DF!End
  <2>2. DefersEntry(d, o, n)
    <3>1. d.kept \in Nat \ {0} /\ n.due >= d.kept - 1 /\ o.depth > 0 /\ o.scopes > 0
      BY <1>2, <1>3, <1>5, <1>6, <2>1
    <3> HIDE DEF d
    <3> QED BY <1>5, <1>6, <2>1, <3>1 DEF DefersEntry
  <2> QED BY <1>3, <1>5, <1>6, <2>2 DEF Entry, FreeEntry
<1>9. ASSUME NEW x \in Nodes PROVE Entry(x, o, o)
  <2>1. NodeEntry(x, o, o)
    BY <1>2, <1>3, <1>6 DEF NodeEntry, Same
  <2> QED BY <1>3, <1>6, <2>1 DEF Entry, FreeEntry
<1>10. Fit(todo', o)
  <2> HIDE DEF ss, d, e
  <2>1. Fit(<<e>> \o Tail(todo), n)
    BY <1>2, <1>7, FitPush
  <2>2. Fit(<<d>> \o (<<e>> \o Tail(todo)), o)
    BY <1>8, <2>1, FitPush
  <2>3. Fit(ss \o (<<d>> \o (<<e>> \o Tail(todo))), o)
    BY <1>4, <1>9, <2>2, FitNodes
  <2>4. todo' = (ss \o <<d, e>>) \o Tail(todo)
    BY DEF DF!visitBlockStmt, DF!Goto, ss, d, e
  <2>5. Sequence(Tail(todo))
    BY <1>2 DEF Fit
  <2>6. (ss \o <<d, e>>) \o Tail(todo) = ss \o (<<d, e>> \o Tail(todo))
    <3>1. PICK S : Tail(todo) \in Seq(S)
      BY <2>5 DEF Sequence
    <3> DEFINE R == S \cup Nodes \cup {d, e}
    <3>2. Tail(todo) \in Seq(R) /\ ss \in Seq(R) /\ <<d, e>> \in Seq(R)
      BY <1>4, <3>1
    <3> HIDE DEF R
    <3> QED BY <3>2, ConcatAssociative
  <2>7. <<d, e>> \o Tail(todo) = <<d>> \o (<<e>> \o Tail(todo))
    BY <2>5, TwoBefore
  <2> QED BY <2>3, <2>4, <2>6, <2>7
<1>11. FreeAt(o)'
  <2>1. free_scopes' = DF!Push(free_scopes) /\ current_scope_depth_' = current_scope_depth_ + 1
        /\ UNCHANGED <<deferred_actions_, in_error_path_>>
    BY DEF DF!visitBlockStmt
  <2>2. Stack(free_scopes') /\ Len(free_scopes') = o.scopes
    BY <1>2, <1>6, <2>1, StackPush DEF FreeAt
  <2>3. DefersOK(deferred_actions_', o.due)
    <3>1. l.due <= l.depth + 1 /\ l.due \in Nat /\ l.depth + 1 \in Nat
      BY <1>2, <1>3
    <3>2. DefersOK(deferred_actions_, l.depth + 1)
      BY <1>2, <3>1, DefersWeaken DEF FreeAt
    <3> QED BY <1>6, <2>1, <3>2
  <2> QED BY <1>2, <1>3, <1>6, <1>10, <2>1, <2>2, <2>3 DEF FreeAt
<1> QED BY <1>11 DEF FreeOK

(* A round of executeDefers: the last action is due, or none is. *)
LEMMA FreeDefers ==
    ASSUME FreeOK, DF!executeDefers
    PROVE  FreeOK'
<1>1. todo # <<>> /\ Head(todo).k = "defers"
  BY DEF DF!executeDefers, DF!At
<1>2. PICK l \in Levels : FreeAt(l)
  BY DEF FreeOK
<1>3. PICK m \in Levels : /\ ~m.null /\ Fit(Tail(todo), m) /\ <<>> \o Tail(todo) = Tail(todo)
                          /\ FreeEntry(Head(todo), l, m)
  BY <1>1, <1>2, FreeHead
<1>4. DefersEntry(Head(todo), l, m)
  BY <1>1, <1>3, FreeEntryKinds
<1> DEFINE ds == deferred_actions_
           more == ds # <<>> /\ DF!Last(ds).depth >= Head(todo).kept
           action == DF!Last(ds)
<1>5. DefersOK(ds, l.due) /\ l.due \in Nat /\ m.due \in Nat /\ ~l.null
  BY <1>2, LevelParts DEF FreeAt
<1>6. UNCHANGED <<free_scopes, current_scope_depth_, in_error_path_>>
  BY DEF DF!executeDefers
<1>7. CASE more
  <2>1. action \in DeferredActions /\ DefersOK(DF!Front(ds), l.due)
    BY <1>5, <1>7, DefersFront
  <2>2. action.statement \in Nodes
    BY <2>1, DeferredParts
  <2>3. deferred_actions_' = DF!Front(ds)
        /\ (todo' = <<Head(todo)>> \o Tail(todo) \/ todo' = <<action.statement, Head(todo)>> \o Tail(todo))
    BY <1>7 DEF DF!executeDefers, DF!Goto
  <2> HIDE DEF action, ds, more
  <2>4. Fit(<<Head(todo)>> \o Tail(todo), l)
    <3>1. Entry(Head(todo), l, m)
      <4>1. l.null = m.null
        BY <1>3, <1>5, LevelParts
      <4> QED BY <1>3, <1>5, <4>1 DEF Entry
    <3> QED BY <1>3, <3>1, FitPush
  <2>5. Fit(<<action.statement, Head(todo)>> \o Tail(todo), l)
    <3>1. NodeEntry(action.statement, l, l)
      BY <1>4, <2>2 DEF NodeEntry, DefersEntry, Same
    <3>2. Entry(action.statement, l, l)
      BY <1>5, <3>1 DEF Entry, FreeEntry
    <3>3. Fit(<<action.statement>> \o (<<Head(todo)>> \o Tail(todo)), l)
      BY <2>4, <3>2, FitPush
    <3>4. Sequence(Tail(todo))
      BY <1>3 DEF Fit
    <3>5. <<action.statement, Head(todo)>> \o Tail(todo)
            = <<action.statement>> \o (<<Head(todo)>> \o Tail(todo))
      BY <3>4, TwoBefore
    <3> QED BY <3>3, <3>5, Zenon
  <2>6. Fit(todo', l)
    BY <2>3, <2>4, <2>5
  <2>7. FreeAt(l)'
    BY <1>2, <1>6, <2>1, <2>3, <2>6 DEF FreeAt
  <2> QED BY <2>7 DEF FreeOK
<1>8. CASE ~more
  <2>1. todo' = Tail(todo) /\ deferred_actions_' = ds
    BY <1>3, <1>8 DEF DF!executeDefers, DF!Goto
  <2>2. DefersOK(ds, m.due)
    <3>1. CASE ds = <<>>
      BY <1>5, <3>1, DefersNone
    <3>2. CASE ds # <<>>
      <4>1. action \in DeferredActions /\ \A b \in Nat : action.depth <= b => DefersOK(ds, b)
        BY <1>5, <3>2, DefersFront
      <4>2. action.depth \in Nat
        BY <4>1, DeferredParts
      <4>3. Head(todo).kept \in Nat /\ m.due >= Head(todo).kept - 1
        BY <1>4 DEF DefersEntry
      <4>4. ~(action.depth >= Head(todo).kept)
        BY <1>8, <3>2
      <4> HIDE DEF action, ds
      <4>5. action.depth <= m.due
        BY <1>5, <4>2, <4>3, <4>4
      <4> QED BY <1>5, <4>1, <4>5
    <3> QED BY <3>1, <3>2
  <2>3. l.scopes = m.scopes /\ l.depth = m.depth /\ l.err = m.err
    BY <1>4 DEF DefersEntry
  <2>4. FreeAt(m)'
    BY <1>2, <1>3, <1>6, <2>1, <2>2, <2>3 DEF FreeAt
  <2> QED BY <2>4 DEF FreeOK
<1> QED BY <1>7, <1>8

(* A block is left: its scope goes into the one around it. *)
LEMMA FreeEndBlock ==
    ASSUME FreeOK, DF!EndBlock
    PROVE  FreeOK'
<1>1. todo # <<>> /\ Head(todo).k = "endblock"
  BY DEF DF!EndBlock, DF!At
<1>2. PICK l \in Levels : FreeAt(l)
  BY DEF FreeOK
<1>3. PICK m \in Levels : /\ ~m.null /\ Fit(Tail(todo), m) /\ <<>> \o Tail(todo) = Tail(todo)
                          /\ FreeEntry(Head(todo), l, m)
  BY <1>1, <1>2, FreeHead
<1>4. EndBlockEntry(Head(todo), l, m)
  BY <1>1, <1>3, FreeEntryKinds
<1>5. l.scopes = m.scopes + 1 /\ l.depth = m.depth + 1 /\ l.err = m.err /\ l.due = m.due
      /\ m.scopes \in Nat /\ m.scopes > 0 /\ m.depth \in Nat
  BY <1>4, LevelParts DEF EndBlockEntry
<1>6. free_scopes' = DF!mergeScopesLinear(free_scopes) /\ current_scope_depth_' = current_scope_depth_ - 1
      /\ UNCHANGED <<deferred_actions_, in_error_path_>> /\ todo' = Tail(todo)
  BY <1>3 DEF DF!EndBlock, DF!Goto
<1>7. Stack(free_scopes') /\ Len(free_scopes') = m.scopes
  <2>1. Stack(free_scopes) /\ Len(free_scopes) = m.scopes + 1
    BY <1>2, <1>5 DEF FreeAt
  <2>2. Len(free_scopes) >= 2
    BY <1>5, <2>1
  <2>3. Stack(free_scopes') /\ Len(free_scopes') = Len(free_scopes) - 1
    BY <1>6, <2>1, <2>2, StackLinear
  <2> QED BY <1>5, <2>1, <2>3
<1>8. current_scope_depth_' = m.depth
  BY <1>2, <1>5, <1>6 DEF FreeAt
<1>9. FreeAt(m)'
  BY <1>2, <1>3, <1>5, <1>6, <1>7, <1>8 DEF FreeAt
<1> QED BY <1>9 DEF FreeOK

(* A return: every deferred action of the function is due. *)
LEMMA FreeReturn ==
    ASSUME FreeOK, DF!visitReturnStmt
    PROVE  FreeOK'
<1>1. todo # <<>> /\ Head(todo).k = "return" /\ Head(todo).k \in NodeKinds /\ Head(todo).k # "block"
  BY DEF DF!visitReturnStmt, DF!At, NodeKinds
<1>2. PICK l \in Levels : /\ FreeAt(l) /\ Fit(Tail(todo), l)
                          /\ Head(todo) \in Nodes
                          /\ l.due = l.depth /\ l.scopes > 0
                          /\ Head(todo).k = "block" \/ l.depth > 0
  BY <1>1, FreeNode
<1>3. ~l.null /\ l.depth > 0
  BY <1>1, <1>2 DEF FreeAt
<1>4. l.scopes \in Nat /\ l.depth \in Nat /\ l.due \in Nat /\ l.null \in BOOLEAN
  BY LevelParts
<1>5. Head(todo).err \in BOOLEAN
  BY <1>1, <1>2, NodesAssumption
<1> DEFINE d == DF!End("defers", DF!None, 1)
           e == DF!End("endreturn", Head(todo), in_error_path_)
<1>6. PICK n \in Levels : n.scopes = l.scopes /\ n.depth = l.depth /\ n.due = l.due
                          /\ n.err = Head(todo).err /\ n.null = l.null
  <2> HIDE DEF d, e
  <2>1. PICK a, b, c \in Nat : a = l.scopes /\ b = l.depth /\ c = l.due
    BY <1>4
  <2>2. \E n \in Levels : n.scopes = a /\ n.depth = b /\ n.due = c
                          /\ n.err = Head(todo).err /\ n.null = l.null
    <3>1. PICK f, g \in BOOLEAN : f = Head(todo).err /\ g = l.null
      BY <1>4, <1>5, Zenon
    <3>2. \E n \in Levels : n.scopes = a /\ n.depth = b /\ n.due = c /\ n.err = f /\ n.null = g
      BY LevelMade
    <3> QED BY <3>1, <3>2, Zenon
  <2> QED BY <2>1, <2>2, Zenon
<1>7. ~n.null
  BY <1>3, <1>6
<1>8. Entry(e, n, l)
  <2>1. e.k = "endreturn" /\ e.kept = l.err
    BY <1>2 DEF DF!End, FreeAt
  <2> HIDE DEF e
  <2>2. EndReturnEntry(e, n, l)
    BY <1>2, <1>6, <2>1 DEF EndReturnEntry
  <2> QED BY <1>6, <1>7, <2>2 DEF Entry, FreeEntry
<1>9. Entry(d, n, n)
  <2>1. d.k = "defers" /\ d.kept = 1
    BY DEF DF!End
  <2> HIDE DEF d
  <2>2. d.kept \in Nat \ {0} /\ n.due >= d.kept - 1 /\ n.depth > 0 /\ n.scopes > 0
    BY <1>2, <1>3, <1>4, <1>6, <2>1
  <2>3. DefersEntry(d, n, n)
    BY <1>2, <1>6, <2>1, <2>2 DEF DefersEntry
  <2> QED BY <1>7, <2>3 DEF Entry, FreeEntry
<1>10. Fit(todo', n)
  <2> HIDE DEF d, e
  <2>1. Fit(<<e>> \o Tail(todo), n)
    BY <1>2, <1>8, FitPush
  <2>2. Fit(<<d>> \o (<<e>> \o Tail(todo)), n)
    BY <1>9, <2>1, FitPush
  <2>3. todo' = <<d, e>> \o Tail(todo)
    BY DEF DF!visitReturnStmt, DF!Goto, d, e
  <2>4. <<d, e>> \o Tail(todo) = <<d>> \o (<<e>> \o Tail(todo))
    BY <1>2, TwoBefore DEF Fit
  <2> QED BY <2>2, <2>3, <2>4
<1>11. FreeAt(n)'
  <2>1. UNCHANGED <<free_scopes, deferred_actions_, current_scope_depth_>> /\ in_error_path_' = Head(todo).err
    BY DEF DF!visitReturnStmt
  <2> QED BY <1>2, <1>6, <1>7, <1>10, <2>1 DEF FreeAt
<1> QED BY <1>11 DEF FreeOK

(* A pointer whose state is known is tracked. *)
LEMMA FoundTracked ==
    ASSUME NEW ss, NEW x, Stack(ss), DF!getState(ss, x).state \in DF!AllocationStates
    PROVE  DF!getState(ss, x) \in TrackedPointers
<1>1. DF!NotTracked.state \notin DF!AllocationStates
  BY DEF DF!NotTracked, DF!AllocationStates
<1>2. DF!getState(ss, x) # DF!NotTracked
  BY <1>1
<1> QED BY <1>2, StackGet

(* The allocation states. *)
LEMMA StateNames ==
    /\ "ALLOCATED" \in DF!AllocationStates /\ "UNKNOWN" \in DF!AllocationStates
    /\ "FREED" \in DF!AllocationStates /\ "TRANSFERRED" \in DF!AllocationStates
    /\ "UNINITIALIZED" \in DF!AllocationStates
  BY DEF DF!AllocationStates

(* A new tracked pointer. *)
LEMMA TrackedNew ==
    ASSUME NEW s \in DF!AllocationStates, NEW d \in Nat, NEW b \in BOOLEAN
    PROVE  DF!TrackedPointer(s, d, b) \in TrackedPointers
  BY DEF DF!TrackedPointer, TrackedPointers

(* Whether an allocation is an arena's is known. *)
LEMMA DirectKnown ==
    ASSUME NEW e
    PROVE  DF!isDirectArenaCall(e) \in BOOLEAN
<1>1. DF!isDirectArenaCall(e) = TRUE \/ DF!isDirectArenaCall(e) = FALSE
  BY Zenon DEF DF!isDirectArenaCall
<1> QED BY <1>1, Zenon

(* A return is done: the error path is as it was. *)
LEMMA FreeEndReturn ==
    ASSUME FreeOK, DF!EndReturn
    PROVE  FreeOK'
<1>1. todo # <<>> /\ Head(todo).k = "endreturn"
  BY DEF DF!EndReturn, DF!At
<1>2. PICK l \in Levels : FreeAt(l)
  BY DEF FreeOK
<1>3. PICK m \in Levels : /\ ~m.null /\ Fit(Tail(todo), m) /\ <<>> \o Tail(todo) = Tail(todo)
                          /\ FreeEntry(Head(todo), l, m)
  BY <1>1, <1>2, FreeHead
<1>4. EndReturnEntry(Head(todo), l, m)
  BY <1>1, <1>3, FreeEntryKinds
<1> DEFINE x == DF!extractVariableName(Head(todo).of.e)
           tp == DF!getState(free_scopes, x)
<1>5. /\ IF tp.state = "ALLOCATED" THEN free_scopes' = DF!setState(free_scopes, x, [tp EXCEPT !.returned = TRUE])
         ELSE UNCHANGED free_scopes
      /\ in_error_path_' = Head(todo).kept /\ UNCHANGED <<deferred_actions_, current_scope_depth_>>
      /\ todo' = Tail(todo)
  BY <1>3 DEF DF!EndReturn, DF!Goto, DF!findTrackedPointer, DF!SetTracked
<1> HIDE DEF x
<1>6. l.scopes = m.scopes /\ l.depth = m.depth /\ l.due = m.due /\ m.err = Head(todo).kept /\ l.scopes > 0
  BY <1>4 DEF EndReturnEntry
<1>7. Stack(free_scopes') /\ Len(free_scopes') = Len(free_scopes)
  <2>1. Stack(free_scopes) /\ Len(free_scopes) > 0
    BY <1>2, <1>6 DEF FreeAt
  <2>2. CASE tp.state = "ALLOCATED"
    <3>1. tp \in TrackedPointers
      BY <2>1, <2>2, StateNames, FoundTracked
    <3>2. [tp EXCEPT !.returned = TRUE] \in TrackedPointers
      <4> HIDE DEF tp
      <4>1. TRUE \in BOOLEAN
        OBVIOUS
      <4> QED BY <3>1 DEF TrackedPointers
    <3> HIDE DEF tp
    <3> QED BY <1>5, <2>1, <2>2, <3>2, StackSet
  <2>3. CASE tp.state # "ALLOCATED"
    BY <1>5, <2>1, <2>3
  <2> QED BY <2>2, <2>3
<1>8. FreeAt(m)'
  BY <1>2, <1>3, <1>5, <1>6, <1>7 DEF FreeAt
<1> QED BY <1>8 DEF FreeOK

(* A declared pointer is tracked; the pointer it was copied from is        *)
(* transferred.                                                            *)
LEMMA FreeVarDecl ==
    ASSUME FreeOK, DF!visitVarDecl
    PROVE  FreeOK'
<1>1. todo # <<>> /\ Head(todo).k = "decl" /\ Head(todo).k \in NodeKinds
  BY DEF DF!visitVarDecl, DF!At, NodeKinds
<1>2. Stack(free_scopes) /\ Len(free_scopes) > 0 /\ current_scope_depth_ \in Nat
  BY <1>1, FreeNodeScopes
<1> DEFINE n == Head(todo)
           src == DF!extractVariableName(n.e)
           from == DF!getState(free_scopes, src)
           moved == from.state = "ALLOCATED"
           d == current_scope_depth_
           tp == IF n.e = DF!None THEN DF!TrackedPointer("UNINITIALIZED", d, FALSE)
                 ELSE IF DF!isAllocationCall(n.e)
                   THEN DF!TrackedPointer("ALLOCATED", d, DF!isDirectArenaCall(n.e))
                 ELSE IF moved THEN [from EXCEPT !.depth = d]
                 ELSE DF!TrackedPointer("UNKNOWN", d, FALSE)
           gone == IF n.e # DF!None /\ moved
                     THEN DF!setState(free_scopes, src, [from EXCEPT !.state = "TRANSFERRED"])
                     ELSE free_scopes
<1>3. /\ free_scopes' = IF n.x \in Pointers THEN DF!setState(gone, n.x, tp) ELSE free_scopes
      /\ DF!Goto(<<>>) /\ UNCHANGED DF!analyzer
  BY DEF DF!visitVarDecl, DF!findTrackedPointer
<1>4. moved => from \in TrackedPointers
  BY <1>2, StateNames, FoundTracked
<1> HIDE DEF src, from
<1>5. tp \in TrackedPointers
  <2>1. DF!TrackedPointer("UNINITIALIZED", d, FALSE) \in TrackedPointers
        /\ DF!TrackedPointer("UNKNOWN", d, FALSE) \in TrackedPointers
    BY <1>2, StateNames, TrackedNew
  <2>2. DF!TrackedPointer("ALLOCATED", d, DF!isDirectArenaCall(n.e)) \in TrackedPointers
    BY <1>2, StateNames, DirectKnown, TrackedNew
  <2>3. moved => [from EXCEPT !.depth = d] \in TrackedPointers
    BY <1>2, <1>4, StateNames, TrackedChanged
  <2> QED BY <2>1, <2>2, <2>3
<1>6. Stack(gone) /\ Len(gone) = Len(free_scopes)
  <2>1. moved => [from EXCEPT !.state = "TRANSFERRED"] \in TrackedPointers
    BY <1>4, StateNames, TrackedChanged
  <2> QED BY <1>2, <2>1, StackSet
<1> HIDE DEF gone, tp, n
<1>7. Stack(free_scopes') /\ Len(free_scopes') = Len(free_scopes)
  BY <1>2, <1>3, <1>5, <1>6, StackSet
<1> QED BY <1>1, <1>3, <1>7, FreeStays

(* An assignment tracks an allocation, forgets the old state, or takes     *)
(* over a pointer.                                                         *)
LEMMA FreeAssignment ==
    ASSUME FreeOK, DF!visitAssignment
    PROVE  FreeOK'
<1>1. todo # <<>> /\ Head(todo).k = "assign" /\ Head(todo).k \in NodeKinds
  BY DEF DF!visitAssignment, DF!At, NodeKinds
<1>2. Stack(free_scopes) /\ Len(free_scopes) > 0 /\ current_scope_depth_ \in Nat
  BY <1>1, FreeNodeScopes
<1> DEFINE n == Head(todo)
           x == DF!extractVariableName(n.lv)
           tp == DF!getState(free_scopes, x)
           src == DF!extractVariableName(n.e)
           from == DF!getState(free_scopes, src)
           new == IF tp = DF!NotTracked THEN DF!trackAllocation(x, n.e)
                  ELSE [tp EXCEPT !.state = "ALLOCATED", !.returned = FALSE,
                                  !.is_arena = DF!isDirectArenaCall(n.e)]
<1>3. DF!Goto(<<>>) /\ UNCHANGED DF!analyzer
  BY DEF DF!visitAssignment
<1>4. \/ free_scopes' = free_scopes
      \/ free_scopes' = DF!setState(free_scopes, x, new)
      \/ tp # DF!NotTracked /\ free_scopes' = DF!setState(free_scopes, x, [tp EXCEPT !.state = "UNKNOWN"])
      \/ /\ from.state = "ALLOCATED"
         /\ free_scopes' = DF!setState(DF!setState(free_scopes, x, from), src,
                                       [from EXCEPT !.state = "TRANSFERRED"])
  BY DEF DF!visitAssignment, DF!findTrackedPointer
<1> HIDE DEF x, src, n
<1>5. tp # DF!NotTracked => tp \in TrackedPointers
  BY <1>2, StackGet
<1>6. new \in TrackedPointers
  <2>1. DF!isDirectArenaCall(n.e) \in BOOLEAN
    BY DirectKnown
  <2>2. CASE tp = DF!NotTracked
    <3> DEFINE base == DF!getState(free_scopes, BaseOf(x))
               d == IF base # DF!NotTracked THEN base.depth ELSE current_scope_depth_
    <3>1. new = DF!TrackedPointer("ALLOCATED", d, DF!isDirectArenaCall(n.e))
      BY <2>2 DEF DF!trackAllocation, DF!findTrackedPointer
    <3>2. base # DF!NotTracked => base \in TrackedPointers
      BY <1>2, StackGet
    <3>3. d \in Nat
      <4> HIDE DEF base
      <4> QED BY <1>2, <3>2, TrackedChanged DEF TrackedPointers
    <3> HIDE DEF d
    <3> QED BY <2>1, <3>1, <3>3, StateNames, TrackedNew
  <2>3. CASE tp # DF!NotTracked
    <3>1. tp \in TrackedPointers /\ new = [tp EXCEPT !.state = "ALLOCATED", !.returned = FALSE,
                                            !.is_arena = DF!isDirectArenaCall(n.e)]
      BY <1>5, <2>3
    <3> HIDE DEF tp, new
    <3>2. PICK b \in BOOLEAN : b = DF!isDirectArenaCall(n.e)
      BY <2>1, Zenon
    <3>3. [tp EXCEPT !.state = "ALLOCATED", !.returned = FALSE, !.is_arena = b] \in TrackedPointers
      BY <3>1, StateNames DEF TrackedPointers
    <3> QED BY <3>1, <3>2, <3>3, Zenon
  <2> QED BY <2>2, <2>3
<1>7. Stack(free_scopes') /\ Len(free_scopes') = Len(free_scopes)
  <2>1. CASE free_scopes' = free_scopes
    BY <1>2, <2>1
  <2>2. CASE free_scopes' = DF!setState(free_scopes, x, new)
    <3> HIDE DEF new
    <3> QED BY <1>2, <1>6, <2>2, StackSet
  <2>3. CASE tp # DF!NotTracked /\ free_scopes' = DF!setState(free_scopes, x, [tp EXCEPT !.state = "UNKNOWN"])
    <3>1. [tp EXCEPT !.state = "UNKNOWN"] \in TrackedPointers
      BY <1>5, <2>3, StateNames, TrackedChanged
    <3> HIDE DEF tp
    <3> QED BY <1>2, <2>3, <3>1, StackSet
  <2>4. CASE /\ from.state = "ALLOCATED"
             /\ free_scopes' = DF!setState(DF!setState(free_scopes, x, from), src,
                                           [from EXCEPT !.state = "TRANSFERRED"])
    <3>1. from \in TrackedPointers
      BY <1>2, <2>4, StateNames, FoundTracked
    <3>2. [from EXCEPT !.state = "TRANSFERRED"] \in TrackedPointers
      BY <3>1, StateNames, TrackedChanged
    <3> HIDE DEF from
    <3>3. Stack(DF!setState(free_scopes, x, from))
          /\ Len(DF!setState(free_scopes, x, from)) = Len(free_scopes)
      BY <1>2, <3>1, StackSet
    <3> QED BY <1>2, <2>4, <3>2, <3>3, StackSet
  <2> QED BY <1>4, <2>1, <2>2, <2>3, <2>4
<1> QED BY <1>1, <1>3, <1>7, FreeStays

(* A free, a transfer and a compound assignment change a state. *)
LEMMA FreeChanges ==
    ASSUME FreeOK, DF!visitFree \/ DF!visitTransfer \/ DF!visitCompoundAssignment
    PROVE  FreeOK'
<1>1. todo # <<>> /\ Head(todo).k \in NodeKinds /\ DF!Goto(<<>>) /\ UNCHANGED DF!analyzer
  BY DEF DF!visitFree, DF!visitTransfer, DF!visitCompoundAssignment, DF!At, NodeKinds
<1>2. Stack(free_scopes) /\ Len(free_scopes) > 0
  BY <1>1, FreeNodeScopes
<1> DEFINE x == Head(todo).x
           tp == DF!getState(free_scopes, x)
<1>3. \/ free_scopes' = free_scopes
      \/ \E s \in DF!AllocationStates :
           /\ tp.state \in DF!AllocationStates
           /\ free_scopes' = DF!setState(free_scopes, x, [tp EXCEPT !.state = s])
  <2>1. CASE DF!visitFree
    BY <2>1, StateNames DEF DF!visitFree, DF!SetTracked, DF!findTrackedPointer
  <2>2. CASE DF!visitTransfer
    BY <2>2, StateNames DEF DF!visitTransfer, DF!SetTracked, DF!findTrackedPointer
  <2>3. CASE DF!visitCompoundAssignment
    BY <2>3, StateNames DEF DF!visitCompoundAssignment, DF!SetTracked, DF!findTrackedPointer
  <2> QED BY <2>1, <2>2, <2>3
<1> HIDE DEF x
<1>4. Stack(free_scopes') /\ Len(free_scopes') = Len(free_scopes)
  <2>1. CASE free_scopes' = free_scopes
    BY <1>2, <2>1
  <2>2. CASE free_scopes' # free_scopes
    <3>1. PICK s \in DF!AllocationStates :
            /\ tp.state \in DF!AllocationStates
            /\ free_scopes' = DF!setState(free_scopes, x, [tp EXCEPT !.state = s])
      BY <1>3, <2>2
    <3>2. [tp EXCEPT !.state = s] \in TrackedPointers
      BY <1>2, <3>1, FoundTracked, TrackedChanged
    <3> HIDE DEF tp
    <3> QED BY <1>2, <3>1, <3>2, StackSet
  <2> QED BY <2>1, <2>2
<1> QED BY <1>1, <1>4, FreeStays

(* Nothing to track. *)
LEMMA FreeOther ==
    ASSUME FreeOK, DF!visitOther
    PROVE  FreeOK'
<1>1. todo # <<>> /\ Head(todo).k \in NodeKinds /\ DF!Goto(<<>>) /\ UNCHANGED <<free_scopes, DF!analyzer>>
  BY DEF DF!visitOther, NodeKinds
<1>2. Stack(free_scopes)
  BY <1>1, FreeNodeScopes
<1> QED BY <1>1, <1>2, FreeStays

(* An action is deferred to the end of the innermost block. *)
LEMMA FreeDefer ==
    ASSUME FreeOK, DF!visitDeferStmt
    PROVE  FreeOK'
<1>1. todo # <<>> /\ Head(todo).k \in {"defer", "errdefer"} /\ Head(todo).k \in NodeKinds /\ Head(todo).k # "block"
  BY DEF DF!visitDeferStmt, DF!At, NodeKinds
<1>2. PICK l \in Levels : /\ FreeAt(l) /\ Fit(Tail(todo), l) /\ <<>> \o Tail(todo) = Tail(todo)
                          /\ Head(todo) \in Nodes
                          /\ l.due = l.depth
                          /\ Head(todo).k = "block" \/ l.depth > 0
  BY <1>1, FreeNode
<1>3. l.due \in Nat /\ l.due > 0 /\ current_scope_depth_ = l.due /\ DefersOK(deferred_actions_, l.due)
  BY <1>1, <1>2, LevelParts DEF FreeAt
<1> DEFINE a == [statement |-> Head(todo).s, depth |-> current_scope_depth_,
                 is_errdefer |-> Head(todo).k = "errdefer"]
<1>4. a \in DeferredActions /\ a.depth = l.due
  <2>1. Head(todo).s \in Nodes
    BY <1>1, <1>2, NodesAssumption
  <2>2. PICK b \in BOOLEAN : b = (Head(todo).k = "errdefer")
    OBVIOUS
  <2>3. [statement |-> Head(todo).s, depth |-> current_scope_depth_, is_errdefer |-> b] \in DeferredActions
    BY <1>3, <2>1 DEF DeferredActions
  <2>4. a \in DeferredActions
    BY <2>2, <2>3, Zenon
  <2> QED BY <1>3, <2>4
<1>5. /\ deferred_actions_' = Append(deferred_actions_, a)
      /\ todo' = Tail(todo) /\ UNCHANGED <<free_scopes, current_scope_depth_, in_error_path_>>
  BY <1>2 DEF DF!visitDeferStmt, DF!Goto
<1> HIDE DEF a
<1>6. DefersOK(deferred_actions_', l.due)
  BY <1>3, <1>4, <1>5, DefersAppend
<1>7. FreeAt(l)'
  BY <1>2, <1>5, <1>6 DEF FreeAt
<1> QED BY <1>7 DEF FreeOK
-----------------------------------------------------------------------------
(* The state before the branches and the first branch are pushed. *)
LEMMA PairLevel ==
    ASSUME NEW l \in Levels
    PROVE  \E n \in Levels : n.scopes = l.scopes + 2 /\ n.depth = l.depth /\ n.due = l.due
                             /\ n.err = l.err /\ n.null = l.null
<1>1. PICK a, b, c \in Nat : a = l.scopes + 2 /\ b = l.depth /\ c = l.due
  BY LevelParts
<1>2. /\ LevelOf(l, a, b, c) \in Levels /\ LevelOf(l, a, b, c).scopes = a
      /\ LevelOf(l, a, b, c).depth = b /\ LevelOf(l, a, b, c).due = c
      /\ LevelOf(l, a, b, c).err = l.err /\ LevelOf(l, a, b, c).null = l.null
  BY LevelOfParts
<1> QED BY <1>1, <1>2

(* A branch or a loop body is entered on two new scopes. *)
LEMMA FreePushPair ==
    ASSUME NEW l \in Levels, FreeAt(l), Fit(Tail(todo), l), l.due = l.depth, l.depth > 0, l.scopes > 0,
           NEW b \in Nodes, NEW e,
           \A n \in Levels : /\ n.scopes = l.scopes + 2 /\ n.depth = l.depth /\ n.due = l.due
                             /\ n.err = l.err
                             => EndPairEntry(e, n, l),
           todo' = <<b, e>> \o Tail(todo),
           free_scopes' = DF!Push(DF!Push(free_scopes)),
           UNCHANGED DF!analyzer
    PROVE  FreeOK'
<1>1. PICK n \in Levels : n.scopes = l.scopes + 2 /\ n.depth = l.depth /\ n.due = l.due
                          /\ n.err = l.err /\ n.null = l.null
  BY PairLevel
<1>2. ~l.null
  BY DEF FreeAt
<1>3. ~n.null
  BY <1>1, <1>2
<1>4. Entry(e, n, l)
  BY <1>1, <1>3 DEF Entry, FreeEntry
<1>5. Entry(b, n, n)
  <2>1. n.scopes > 0 /\ n.depth > 0 /\ n.due = n.depth
    BY <1>1, LevelParts
  <2>2. NodeEntry(b, n, n)
    BY <2>1 DEF NodeEntry, Same
  <2> QED BY <1>3, <2>2 DEF Entry, FreeEntry
<1>6. Fit(<<e>> \o Tail(todo), n)
  BY <1>4, FitPush
<1>7. Fit(<<b>> \o (<<e>> \o Tail(todo)), n)
  BY <1>5, <1>6, FitPush
<1>8. <<b, e>> \o Tail(todo) = <<b>> \o (<<e>> \o Tail(todo))
  BY TwoBefore DEF Fit
<1>9. Fit(todo', n)
  BY <1>7, <1>8, Zenon
<1>10. Stack(free_scopes') /\ Len(free_scopes') = n.scopes
  <2>1. Stack(free_scopes) /\ Len(free_scopes) = l.scopes /\ l.scopes \in Nat
    BY LevelParts DEF FreeAt
  <2>2. Stack(DF!Push(free_scopes)) /\ Len(DF!Push(free_scopes)) = l.scopes + 1
    BY <2>1, StackPush
  <2>3. Stack(DF!Push(DF!Push(free_scopes))) /\ Len(DF!Push(DF!Push(free_scopes))) = l.scopes + 1 + 1
    BY <2>2, StackPush
  <2> QED BY <1>1, <2>1, <2>3
<1>11. FreeAt(n)'
  BY <1>1, <1>3, <1>9, <1>10 DEF FreeAt, DF!analyzer
<1> QED BY <1>11 DEF FreeOK

(* if and switch: the first branch is entered. *)
LEMMA FreeBranching ==
    ASSUME FreeOK, DF!visitBranching
    PROVE  FreeOK'
<1>1. todo # <<>> /\ Head(todo).k \in {"if", "switch"} /\ Head(todo).k \in NodeKinds /\ Head(todo).k # "block"
  BY DEF DF!visitBranching, DF!At, NodeKinds
<1>2. PICK l \in Levels : /\ FreeAt(l) /\ Fit(Tail(todo), l)
                          /\ Head(todo) \in Nodes
                          /\ l.due = l.depth /\ l.scopes > 0
                          /\ Head(todo).k = "block" \/ l.depth > 0
  BY <1>1, FreeNode
<1> DEFINE b == DF!Branches(Head(todo))[1]
           e == DF!End("endbranch", Head(todo), <<>>)
<1>3. todo' = <<b, e>> \o Tail(todo) /\ free_scopes' = DF!Push(DF!Push(free_scopes)) /\ UNCHANGED DF!analyzer
  BY DEF DF!visitBranching, DF!Goto
<1>4. DF!Branches(Head(todo)) \in Seq(Nodes) /\ Len(DF!Branches(Head(todo))) > 0
  BY <1>1, <1>2, BranchesOK
<1>5. b \in Nodes
  BY <1>4
<1>6. e.k = "endbranch" /\ e.of = Head(todo) /\ e.kept = <<>>
  BY DEF DF!End
<1> HIDE DEF b, e
<1>7. Stack(e.kept) /\ Len(e.kept) < Len(DF!Branches(e.of))
  BY <1>4, <1>6, StackOne
<1>8. ASSUME NEW n \in Levels, n.scopes = l.scopes + 2, n.depth = l.depth, n.due = l.due, n.err = l.err
      PROVE  EndPairEntry(e, n, l)
  BY <1>1, <1>2, <1>6, <1>7, <1>8 DEF EndPairEntry
<1>9. l.depth > 0
  BY <1>1, <1>2
<1> QED BY <1>2, <1>3, <1>5, <1>8, <1>9, FreePushPair

(* while and for: the body is entered. *)
LEMMA FreeLoop ==
    ASSUME FreeOK, DF!visitLoop
    PROVE  FreeOK'
<1>1. todo # <<>> /\ Head(todo).k \in {"while", "for"} /\ Head(todo).k \in NodeKinds /\ Head(todo).k # "block"
  BY DEF DF!visitLoop, DF!At, NodeKinds
<1>2. PICK l \in Levels : /\ FreeAt(l) /\ Fit(Tail(todo), l)
                          /\ Head(todo) \in Nodes
                          /\ l.due = l.depth /\ l.scopes > 0
                          /\ Head(todo).k = "block" \/ l.depth > 0
  BY <1>1, FreeNode
<1> DEFINE b == Head(todo).body
           e == DF!End("endloop", DF!None, <<>>)
<1>3. todo' = <<b, e>> \o Tail(todo) /\ free_scopes' = DF!Push(DF!Push(free_scopes)) /\ UNCHANGED DF!analyzer
  BY DEF DF!visitLoop, DF!Goto
<1>4. b \in Nodes
  BY <1>1, <1>2, NodesAssumption
<1>5. e.k = "endloop"
  BY DEF DF!End
<1> HIDE DEF b, e
<1>6. l.depth > 0
  BY <1>1, <1>2
<1>7. ASSUME NEW n \in Levels, n.scopes = l.scopes + 2, n.depth = l.depth, n.due = l.due, n.err = l.err
      PROVE  EndPairEntry(e, n, l)
  BY <1>2, <1>5, <1>6, <1>7 DEF EndPairEntry
<1> QED BY <1>2, <1>3, <1>4, <1>6, <1>7, FreePushPair

(* The end of a branch or a loop is met: two scopes are its own. *)
LEMMA FreePair ==
    ASSUME FreeOK, todo # <<>>, Head(todo).k \in {"endbranch", "endloop"}
    PROVE  \E l, m \in Levels :
             /\ FreeAt(l) /\ ~m.null /\ Fit(Tail(todo), m) /\ <<>> \o Tail(todo) = Tail(todo)
             /\ EndPairEntry(Head(todo), l, m)
             /\ Stack(DF!Below) /\ Len(DF!Below) = m.scopes + 1 /\ Len(free_scopes) = m.scopes + 2
             /\ FreeMap(DF!Last(free_scopes)) /\ Stack(free_scopes) /\ m.scopes \in Nat /\ m.scopes > 0
<1>1. PICK l \in Levels : FreeAt(l)
  BY DEF FreeOK
<1>2. PICK m \in Levels : /\ ~m.null /\ Fit(Tail(todo), m) /\ <<>> \o Tail(todo) = Tail(todo)
                          /\ FreeEntry(Head(todo), l, m)
  BY <1>1, FreeHead
<1>3. EndPairEntry(Head(todo), l, m)
  BY <1>2, FreeEntryKinds
<1>4. Stack(free_scopes) /\ Len(free_scopes) = m.scopes + 2 /\ m.scopes \in Nat /\ m.scopes > 0
  BY <1>1, <1>3, LevelParts DEF FreeAt, EndPairEntry
<1>5. Len(free_scopes) > 0
  BY <1>4
<1>6. Stack(DF!Below) /\ Len(DF!Below) = Len(free_scopes) - 1 /\ FreeMap(DF!Last(free_scopes))
  BY <1>4, <1>5, StackFront DEF DF!Below
<1>7. Len(DF!Below) = m.scopes + 1
  BY <1>4, <1>6
<1> QED BY <1>1, <1>2, <1>3, <1>4, <1>6, <1>7

(* The two scopes are merged into the one around them. *)
LEMMA FreePopPair ==
    ASSUME NEW l \in Levels, NEW m \in Levels, FreeAt(l), ~m.null, Fit(Tail(todo), m),
           EndPairEntry(Head(todo), l, m), m.scopes \in Nat, m.scopes > 0,
           NEW ss, Stack(ss), Len(ss) = m.scopes + 1,
           todo' = Tail(todo), free_scopes' = DF!mergeScopesLinear(ss), UNCHANGED DF!analyzer
    PROVE  FreeOK'
<1>1. Len(ss) >= 2
  OBVIOUS
<1>2. Stack(free_scopes') /\ Len(free_scopes') = Len(ss) - 1
  BY <1>1, StackLinear
<1>3. Len(free_scopes') = m.scopes
  BY <1>2
<1>4. l.depth = m.depth /\ l.due = m.due /\ l.err = m.err
  BY DEF EndPairEntry
<1>5. FreeAt(m)'
  BY <1>2, <1>3, <1>4 DEF FreeAt, DF!analyzer
<1> QED BY <1>5 DEF FreeOK

(* The body of a loop is left. *)
LEMMA FreeEndLoop ==
    ASSUME FreeOK, DF!EndLoop
    PROVE  FreeOK'
<1>1. todo # <<>> /\ Head(todo).k \in {"endbranch", "endloop"}
  BY DEF DF!EndLoop, DF!At
<1>2. PICK l, m \in Levels :
             /\ FreeAt(l) /\ ~m.null /\ Fit(Tail(todo), m) /\ <<>> \o Tail(todo) = Tail(todo)
             /\ EndPairEntry(Head(todo), l, m)
             /\ Stack(DF!Below) /\ Len(DF!Below) = m.scopes + 1
             /\ m.scopes \in Nat /\ m.scopes > 0
  BY <1>1, FreePair
<1> DEFINE t == DF!Below
           ys == {x \in DF!modified(DF!Last(free_scopes)) : DF!hasVariable(t, x)}
           f == [y \in ys |-> [DF!getState(t, y) EXCEPT !.state = "UNKNOWN"]]
<1>3. todo' = Tail(todo) /\ UNCHANGED DF!analyzer
  BY <1>2 DEF DF!EndLoop, DF!Goto
<1>4. free_scopes' = DF!mergeScopesLinear(Taken(t, ys, f))
  <2>1. PICK M : t \in Seq(M)
    BY <1>2 DEF Stack
  <2>2. free_scopes' = DF!mergeScopesLinear(
          [t EXCEPT ![Len(t)] = [y \in DOMAIN t[Len(t)] \cup ys |->
             IF y \in ys THEN [DF!getState(t, y) EXCEPT !.state = "UNKNOWN"] ELSE t[Len(t)][y]]])
    BY <2>1 DEF DF!EndLoop, DF!SetAll
  <2> HIDE DEF t, ys
  <2>3. [t EXCEPT ![Len(t)] = [y \in DOMAIN t[Len(t)] \cup ys |->
             IF y \in ys THEN [DF!getState(t, y) EXCEPT !.state = "UNKNOWN"] ELSE t[Len(t)][y]]]
          = Taken(t, ys, f)
    BY <2>1 DEF Taken
  <2> QED BY <2>2, <2>3, Zenon
<1>5. Stack(Taken(t, ys, f)) /\ Len(Taken(t, ys, f)) = m.scopes + 1
  <2>1. Stack(t) /\ Len(t) > 0 /\ Len(t) = m.scopes + 1 /\ \A y \in ys : DF!hasVariable(t, y)
    BY <1>2
  <2> HIDE DEF t, ys
  <2>2. Stack(Taken(t, ys, f)) /\ Len(Taken(t, ys, f)) = Len(t)
    <3>1. f = [y \in ys |-> [DF!getState(t, y) EXCEPT !.state = "UNKNOWN"]]
      OBVIOUS
    <3> HIDE DEF f
    <3> QED BY <2>1, <3>1, StackLoop
  <2> QED BY <2>1, <2>2
<1> HIDE DEF t, ys, f
<1> QED BY <1>2, <1>3, <1>4, <1>5, FreePopPair

(* The next branch starts from the state before the branches. *)
LEMMA FreeNextBranch ==
    ASSUME FreeOK, DF!NextBranch
    PROVE  FreeOK'
<1>1. todo # <<>> /\ Head(todo).k = "endbranch" /\ Head(todo).k \in {"endbranch", "endloop"}
  BY DEF DF!NextBranch, DF!At
<1>2. PICK l, m \in Levels :
             /\ FreeAt(l) /\ ~m.null /\ Fit(Tail(todo), m) /\ <<>> \o Tail(todo) = Tail(todo)
             /\ EndPairEntry(Head(todo), l, m)
             /\ Stack(DF!Below) /\ Len(DF!Below) = m.scopes + 1 /\ Len(free_scopes) = m.scopes + 2
             /\ FreeMap(DF!Last(free_scopes)) /\ m.scopes \in Nat /\ m.scopes > 0
  BY <1>1, FreePair
<1> DEFINE n == Head(todo).of
           done == Append(Head(todo).kept, DF!Last(free_scopes))
           b == DF!Branches(n)[Len(done) + 1]
           e == DF!End("endbranch", n, done)
<1>3. Len(done) < Len(DF!Branches(n)) /\ free_scopes' = DF!Push(DF!Below) /\ todo' = <<b, e>> \o Tail(todo)
      /\ UNCHANGED DF!analyzer
  BY DEF DF!NextBranch, DF!Goto
<1>4. n \in Nodes /\ n.k \in {"if", "switch"} /\ Stack(Head(todo).kept)
  BY <1>1, <1>2 DEF EndPairEntry
<1>5. Stack(done) /\ Len(done) \in Nat
  <2>1. Stack(done) /\ Len(Head(todo).kept) \in Nat /\ Len(done) = Len(Head(todo).kept) + 1
    BY <1>2, <1>4, StackAppend
  <2> HIDE DEF done
  <2> QED BY <2>1
<1>6. e.k = "endbranch" /\ e.of = n /\ e.kept = done
  BY DEF DF!End
<1>7. DF!Branches(n) \in Seq(Nodes)
  BY <1>4, BranchesOK
<1> HIDE DEF n, done
<1>8. b \in Nodes
  BY <1>3, <1>5, <1>7
<1> HIDE DEF e, b
<1>9. EndPairEntry(e, l, m)
  <2>1. Stack(e.kept) /\ Len(e.kept) < Len(DF!Branches(e.of)) /\ e.of \in Nodes /\ e.of.k \in {"if", "switch"}
    BY <1>3, <1>4, <1>5, <1>6, Zenon
  <2> QED BY <1>2, <1>6, <2>1 DEF EndPairEntry
<1>10. ~l.null /\ l.null = m.null /\ l.scopes > 0 /\ l.depth > 0 /\ l.due = l.depth
  <2>1. ~l.null
    BY <1>2 DEF FreeAt
  <2>2. l.null = m.null
    BY <1>2, <2>1, LevelParts
  <2> QED BY <1>2, <2>1, <2>2 DEF EndPairEntry
<1>11. Entry(e, l, m)
  BY <1>9, <1>10 DEF Entry, FreeEntry
<1>12. Entry(b, l, l)
  <2>1. NodeEntry(b, l, l)
    BY <1>8, <1>10 DEF NodeEntry, Same
  <2> QED BY <1>10, <2>1 DEF Entry, FreeEntry
<1>13. Fit(todo', l)
  <2>1. Fit(<<e>> \o Tail(todo), l)
    BY <1>2, <1>11, FitPush
  <2>2. Fit(<<b>> \o (<<e>> \o Tail(todo)), l)
    BY <1>12, <2>1, FitPush
  <2>3. <<b, e>> \o Tail(todo) = <<b>> \o (<<e>> \o Tail(todo))
    BY <1>2, TwoBefore DEF Fit
  <2> QED BY <1>3, <2>2, <2>3, Zenon
<1>14. Stack(free_scopes') /\ Len(free_scopes') = Len(free_scopes)
  <2>1. Stack(DF!Push(DF!Below)) /\ Len(DF!Push(DF!Below)) = Len(DF!Below) + 1
    BY <1>2, StackPush
  <2> QED BY <1>2, <1>3, <2>1
<1>15. FreeAt(l)'
  BY <1>2, <1>3, <1>13, <1>14 DEF FreeAt, DF!analyzer
<1> QED BY <1>15 DEF FreeOK

(* The last branch is done: the branches are merged. *)
LEMMA FreeEndBranching ==
    ASSUME FreeOK, DF!EndBranching
    PROVE  FreeOK'
<1>1. todo # <<>> /\ Head(todo).k = "endbranch" /\ Head(todo).k \in {"endbranch", "endloop"}
  BY DEF DF!EndBranching, DF!At
<1>2. PICK l, m \in Levels :
             /\ FreeAt(l) /\ ~m.null /\ Fit(Tail(todo), m) /\ <<>> \o Tail(todo) = Tail(todo)
             /\ EndPairEntry(Head(todo), l, m)
             /\ Stack(DF!Below) /\ Len(DF!Below) = m.scopes + 1 /\ Len(free_scopes) = m.scopes + 2
             /\ FreeMap(DF!Last(free_scopes)) /\ Stack(free_scopes) /\ m.scopes \in Nat /\ m.scopes > 0
  BY <1>1, FreePair
<1> DEFINE n == Head(todo).of
           done == Append(Head(todo).kept, DF!Last(free_scopes))
           merged == IF n.k = "if" /\ n.else = DF!None THEN DF!mergeScopesAlternative(free_scopes)
                     ELSE DF!mergeSwitchProngStates(DF!Below, done)
<1>3. free_scopes' = DF!mergeScopesLinear(merged) /\ todo' = Tail(todo) /\ UNCHANGED DF!analyzer
  BY <1>2 DEF DF!EndBranching, DF!Goto
<1>4. Stack(Head(todo).kept)
  BY <1>1, <1>2 DEF EndPairEntry
<1>5. Stack(done) /\ Len(done) > 0
  <2>1. Stack(done) /\ Len(Head(todo).kept) \in Nat /\ Len(done) = Len(Head(todo).kept) + 1
    BY <1>2, <1>4, StackAppend
  <2> HIDE DEF done
  <2> QED BY <2>1
<1> HIDE DEF n, done
<1>6. Stack(DF!mergeScopesAlternative(free_scopes))
      /\ Len(DF!mergeScopesAlternative(free_scopes)) = m.scopes + 1
  <2>1. Len(free_scopes) >= 2
    BY <1>2
  <2>2. Stack(DF!mergeScopesAlternative(free_scopes))
        /\ Len(DF!mergeScopesAlternative(free_scopes)) = Len(free_scopes) - 1
    BY <1>2, <2>1, StackAlternative
  <2> QED BY <1>2, <2>2
<1>7. Stack(DF!mergeSwitchProngStates(DF!Below, done))
      /\ Len(DF!mergeSwitchProngStates(DF!Below, done)) = m.scopes + 1
  <2>1. Len(DF!Below) > 0
    BY <1>2
  <2> QED BY <1>2, <1>5, <2>1, StackProngs
<1>8. Stack(merged) /\ Len(merged) = m.scopes + 1
  BY <1>6, <1>7
<1> HIDE DEF merged
<1> QED BY <1>2, <1>3, <1>8, FreePopPair

(* Every step of the double free analyzer keeps its stacks as high as what *)
(* is left to visit expects.                                               *)
LEMMA FreeStep ==
    ASSUME FreeOK, DF!Next
    PROVE  FreeOK'
  BY FreeFn, FreeEndFn, FreeBlock, FreeDefers, FreeEndBlock, FreeVarDecl, FreeAssignment, FreeChanges,
     FreeDefer, FreeReturn, FreeEndReturn, FreeBranching, FreeNextBranch, FreeEndBranching, FreeLoop,
     FreeEndLoop, FreeOther DEF DF!Next

(* The level of what is met: no action is of a block that was left, and    *)
(* what an end takes off is there.                                         *)
LEMMA FreeLevelSafe ==
    ASSUME NEW l \in Levels, FreeAt(l)
    PROVE  /\ l.due <= l.depth
           /\ todo # <<>> /\ Head(todo).k = "endblock" => l.scopes >= 2 /\ l.depth >= 1
           /\ todo # <<>> /\ Head(todo).k \in {"endbranch", "endloop"} => l.scopes >= 3
           /\ todo = <<>> => Ground(l)
<1>1. CASE todo = <<>>
  <2>1. Ground(l)
    BY <1>1, FitNil DEF FreeAt
  <2> QED BY <1>1, <2>1 DEF Ground
<1>2. CASE todo # <<>>
  <2>1. PICK m \in Levels : FreeEntry(Head(todo), l, m)
    BY <1>2, FreeHead
  <2>2. l.due \in Nat /\ l.depth \in Nat /\ l.scopes \in Nat /\ m.depth \in Nat /\ m.scopes \in Nat
    BY LevelParts
  <2>3. l.due <= l.depth
    BY <2>1, <2>2 DEF FreeEntry, NodeEntry, FnEntry, EndFnEntry, DefersEntry, EndBlockEntry,
                      EndReturnEntry, EndPairEntry, Ground
  <2>4. Head(todo).k = "endblock" => l.scopes >= 2 /\ l.depth >= 1
    BY <2>1, <2>2, FreeEntryKinds DEF EndBlockEntry
  <2>5. Head(todo).k \in {"endbranch", "endloop"} => l.scopes >= 3
    BY <2>1, <2>2, FreeEntryKinds DEF EndPairEntry
  <2> QED BY <1>2, <2>3, <2>4, <2>5
<1> QED BY <1>1, <1>2
-----------------------------------------------------------------------------
(* The variables of a state of the null pointer analyzer. *)
NullVars == [name : STRING, state : NP!PointerStates]

(* The parts of a state. *)
LEMMA NullParts ==
    ASSUME NEW m \in NullMaps
    PROVE  m.vars \in Seq(NullVars) /\ m.modified \in SUBSET STRING /\ IsFiniteSet(m.modified)
  BY DEF NullMaps, NullVars

(* A state made of its parts. *)
LEMMA NullMade ==
    ASSUME NEW vs \in Seq(NullVars), NEW S \in SUBSET STRING, IsFiniteSet(S)
    PROVE  [vars |-> vs, modified |-> S] \in NullMaps
  BY DEF NullMaps, NullVars

(* The state of a new table. *)
LEMMA NullEmpty == NP!EmptyMap \in NullMaps
<1>1. <<>> \in Seq(NullVars) /\ {} \in SUBSET STRING /\ IsFiniteSet({})
  BY FS_EmptySet
<1> QED BY <1>1, NullMade DEF NP!EmptyMap

(* The names of the null states. *)
LEMMA NullStates ==
    /\ "UNINIT" \in NP!PointerStates /\ "IS_NULL" \in NP!PointerStates
    /\ "SAFE" \in NP!PointerStates /\ "MAYBE" \in NP!PointerStates
  BY DEF NP!PointerStates

(* A known name is found at its last place. *)
LEMMA NullLast ==
    ASSUME NEW m \in NullMaps, NEW x, NP!hasVariable(m, x)
    PROVE  NP!LastIndex(m, x) \in 1..Len(m.vars) /\ m.vars[NP!LastIndex(m, x)].name = x
<1> DEFINE vs == m.vars
           I == {i \in DOMAIN vs : vs[i].name = x}
<1>1. vs \in Seq(NullVars)
  BY NullParts
<1> HIDE DEF vs
<1>2. Len(vs) \in Nat /\ DOMAIN vs = 1..Len(vs)
  BY <1>1
<1>3. I \in SUBSET (1..Len(vs)) /\ I # {}
  BY <1>2 DEF NP!hasVariable, vs
<1>4. NP!Max(I) \in I
  BY <1>2, <1>3, LargestIndex
<1>5. NP!LastIndex(m, x) = NP!Max(I)
  BY DEF NP!LastIndex, vs
<1> QED BY <1>2, <1>4, <1>5 DEF vs

(* What a lookup finds is a null state. *)
LEMMA NullGet ==
    ASSUME NEW m \in NullMaps, NEW x
    PROVE  NP!getState(m, x) \in NP!PointerStates
<1>1. CASE NP!hasVariable(m, x)
  <2>1. NP!LastIndex(m, x) \in 1..Len(m.vars) /\ m.vars \in Seq(NullVars)
    BY <1>1, NullLast, NullParts
  <2>2. m.vars[NP!LastIndex(m, x)] \in NullVars
    BY <2>1
  <2> QED BY <1>1, <2>2 DEF NP!getState, NullVars
<1>2. CASE ~NP!hasVariable(m, x)
  BY <1>2, NullStates DEF NP!getState
<1> QED BY <1>1, <1>2

(* A variable is added. *)
LEMMA NullAdd ==
    ASSUME NEW m \in NullMaps, NEW x \in STRING, NEW s \in NP!PointerStates
    PROVE  NP!addVariable(m, x, s) \in NullMaps
<1>1. [name |-> x, state |-> s] \in NullVars
  BY DEF NullVars
<1>2. Append(m.vars, [name |-> x, state |-> s]) \in Seq(NullVars)
  BY <1>1, NullParts
<1> DEFINE vs == Append(m.vars, [name |-> x, state |-> s])
<1>3. NP!addVariable(m, x, s) = [m EXCEPT !.vars = vs]
  BY DEF NP!addVariable
<1> HIDE DEF vs
<1>4. [m EXCEPT !.vars = vs] \in NullMaps
  BY <1>2 DEF NullMaps, NullVars, vs
<1> QED BY <1>3, <1>4

(* A state is set. *)
LEMMA NullSet ==
    ASSUME NEW m \in NullMaps, NEW x \in STRING, NEW s \in NP!PointerStates
    PROVE  NP!setState(m, x, s) \in NullMaps
<1>1. CASE ~NP!hasVariable(m, x)
  BY <1>1, NullAdd DEF NP!setState
<1>2. CASE NP!hasVariable(m, x)
  <2> DEFINE i == NP!LastIndex(m, x)
             vs == [m.vars EXCEPT ![i] = [m.vars[i] EXCEPT !.state = s]]
             S == m.modified \cup {x}
  <2>1. i \in 1..Len(m.vars) /\ m.vars \in Seq(NullVars)
    BY <1>2, NullLast, NullParts
  <2>2. [m.vars[i] EXCEPT !.state = s] \in NullVars
    <3>1. m.vars[i] \in NullVars
      BY <2>1
    <3> QED BY <3>1 DEF NullVars
  <2>3. vs \in Seq(NullVars)
    BY <2>1, <2>2
  <2>4. S \in SUBSET STRING /\ IsFiniteSet(S)
    BY NullParts, FS_AddElement
  <2>5. NP!setState(m, x, s) = [m EXCEPT !.vars = vs, !.modified = S]
    BY <1>2, <2>1 DEF NP!setState, NullMaps
  <2> HIDE DEF vs, S
  <2>6. [m EXCEPT !.vars = vs, !.modified = S] \in NullMaps
    BY <2>3, <2>4 DEF NullMaps, NullVars
  <2> QED BY <2>5, <2>6
<1> QED BY <1>1, <1>2

(* A scope starts as a copy with nothing modified. *)
LEMMA NullFork ==
    ASSUME NEW m \in NullMaps
    PROVE  NP!ForkOf(m) \in NullMaps
<1>1. {} \in SUBSET STRING /\ IsFiniteSet({})
  BY FS_EmptySet
<1> QED BY <1>1 DEF NP!ForkOf, NullMaps

(* The elements of a finite set, one after the other. *)
LEMMA ListedSet ==
    ASSUME NEW S, IsFiniteSet(S)
    PROVE  NP!SetToSeq(S) \in Seq(S)
<1>1. Cardinality(S) \in Nat /\ ExistsBijection(1..Cardinality(S), S)
  BY FS_CardinalityType
<1>2. PICK f \in [1..Cardinality(S) -> S] : \A a, b \in DOMAIN f : f[a] = f[b] => a = b
  BY <1>1 DEF ExistsBijection, Bijection, Injection, IsInjective
<1>3. NP!SetToSeq(S) \in [1..Cardinality(S) -> S]
  <2>1. NP!Cardinality(S) = Cardinality(S)
    BY Zenon DEF NP!Cardinality, Cardinality
  <2> QED BY <1>2, <2>1, Zenon DEF NP!SetToSeq, NP!IsInjective
<1> QED BY <1>1, <1>3

(* The states F gives to the names of xs, set one by one. *)
Known(m, xs) == {x \in xs : NP!hasVariable(m, x)}
Changed(m, xs, F) ==
    [i \in DOMAIN m.vars |->
       IF m.vars[i].name \in Known(m, xs) /\ i = NP!LastIndex(m, m.vars[i].name)
         THEN [m.vars[i] EXCEPT !.state = F[m.vars[i].name]] ELSE m.vars[i]]
Added(m, xs, F) == {[name |-> x, state |-> F[x]] : x \in xs \ Known(m, xs)}
NullTaken(m, xs, F) ==
    [vars |-> Changed(m, xs, F) \o NP!SetToSeq(Added(m, xs, F)), modified |-> m.modified \cup Known(m, xs)]

(* The changed variables. *)
LEMMA NullChanged ==
    ASSUME NEW m \in NullMaps, NEW xs, NEW F, \A x \in xs : F[x] \in NP!PointerStates
    PROVE  Changed(m, xs, F) \in Seq(NullVars)
<1>1. m.vars \in Seq(NullVars)
  BY NullParts
<1>2. PICK vs \in Seq(NullVars) : vs = m.vars
  BY <1>1
<1>3. Len(vs) \in Nat /\ DOMAIN vs = 1..Len(vs) /\ \A i \in 1..Len(vs) : vs[i] \in NullVars
  BY <1>2
<1> DEFINE g == [i \in 1..Len(vs) |->
                   IF vs[i].name \in Known(m, xs) /\ i = NP!LastIndex(m, vs[i].name)
                     THEN [vs[i] EXCEPT !.state = F[vs[i].name]] ELSE vs[i]]
<1>4. ASSUME NEW i \in 1..Len(vs) PROVE g[i] \in NullVars
  <2>1. vs[i] \in NullVars
    BY <1>3
  <2>2. CASE vs[i].name \in Known(m, xs) /\ i = NP!LastIndex(m, vs[i].name)
    <3>1. F[vs[i].name] \in NP!PointerStates
      BY <2>2 DEF Known
    <3>2. [vs[i] EXCEPT !.state = F[vs[i].name]] \in NullVars
      BY <2>1, <3>1 DEF NullVars
    <3> QED BY <2>2, <3>2
  <2>3. CASE ~(vs[i].name \in Known(m, xs) /\ i = NP!LastIndex(m, vs[i].name))
    BY <2>1, <2>3
  <2> QED BY <2>2, <2>3
<1>5. g \in [1..Len(vs) -> NullVars]
  BY <1>4
<1>6. g \in Seq(NullVars)
  <2> HIDE DEF g
  <2> QED BY <1>3, <1>5
<1>7. Changed(m, xs, F) = g
  BY <1>2, <1>3 DEF Changed
<1> QED BY <1>6, <1>7

(* The added variables. *)
LEMMA NullAdded ==
    ASSUME NEW m \in NullMaps, NEW xs \in SUBSET STRING, IsFiniteSet(xs), NEW F,
           \A x \in xs : F[x] \in NP!PointerStates
    PROVE  NP!SetToSeq(Added(m, xs, F)) \in Seq(NullVars)
<1> DEFINE R == xs \ Known(m, xs)
           T == Added(m, xs, F)
           f == [x \in R |-> [name |-> x, state |-> F[x]]]
<1>1. IsFiniteSet(R)
  BY FS_Subset
<1>2. f \in Surjection(R, T)
  <2>1. f \in [R -> T]
    BY DEF Added
  <2>2. \A t \in T : \E x \in R : f[x] = t
    BY DEF Added
  <2> HIDE DEF f, R, T
  <2> QED BY <2>1, <2>2 DEF Surjection
<1>3. T \in SUBSET NullVars
  BY DEF Added, NullVars
<1> HIDE DEF R, T, f
<1>4. IsFiniteSet(T)
  BY <1>1, <1>2, FS_Surjection
<1>5. NP!SetToSeq(T) \in Seq(T)
  BY <1>4, ListedSet
<1>6. NP!SetToSeq(T) \in Seq(NullVars)
  <2> HIDE DEF NullVars
  <2> QED BY <1>3, <1>5, SeqMonotonic
<1> QED BY <1>6 DEF T

(* A state in which states were set. *)
LEMMA NullTake ==
    ASSUME NEW m \in NullMaps, NEW xs \in SUBSET STRING, IsFiniteSet(xs), NEW F,
           \A x \in xs : F[x] \in NP!PointerStates
    PROVE  NullTaken(m, xs, F) \in NullMaps
<1> DEFINE a == Changed(m, xs, F)
           b == NP!SetToSeq(Added(m, xs, F))
           S == m.modified \cup Known(m, xs)
<1>1. a \in Seq(NullVars) /\ b \in Seq(NullVars)
  BY NullChanged, NullAdded
<1>2. S \in SUBSET STRING /\ IsFiniteSet(S)
  <2>1. Known(m, xs) \subseteq xs
    BY DEF Known
  <2>2. IsFiniteSet(Known(m, xs))
    BY <2>1, FS_Subset
  <2> QED BY <2>1, <2>2, NullParts, FS_Union
<1>3. NullTaken(m, xs, F) = [vars |-> a \o b, modified |-> S]
  BY DEF NullTaken
<1> HIDE DEF a, b, S
<1>4. a \o b \in Seq(NullVars)
  BY <1>1
<1> QED BY <1>2, <1>3, <1>4, NullMade

(* A branch is merged into the state before it. *)
LEMMA NullMerge ==
    ASSUME NEW t \in NullMaps, NEW b \in NullMaps
    PROVE  NP!mergeScopes(t, b) \in NullMaps
<1> DEFINE xs == {x \in b.modified : NP!hasVariable(t, x)}
           F == [x \in xs |-> NP!mergeStates(NP!getState(t, x), NP!getState(b, x))]
<1>1. xs \in SUBSET STRING /\ IsFiniteSet(xs)
  BY NullParts, FS_Subset
<1>2. \A x \in xs : F[x] \in NP!PointerStates
  BY NullGet, NullStates DEF NP!mergeStates
<1>3. NP!mergeScopes(t, b) = NullTaken(t, xs, F)
  BY DEF NP!mergeScopes, NP!SetAll, NullTaken, Changed, Added, Known
<1> HIDE DEF xs, F
<1> QED BY <1>1, <1>2, <1>3, NullTake

(* Both branches of an if are merged. *)
LEMMA NullMergeBranches ==
    ASSUME NEW m \in NullMaps, NEW a \in NullMaps, NEW b \in NullMaps
    PROVE  NP!MergeBranches(m, a, b) \in NullMaps
<1> DEFINE xs == {m.vars[i].name : i \in DOMAIN m.vars}
           F == [x \in xs |-> NP!mergeStates(NP!getState(a, x), NP!getState(b, x))]
<1>1. xs \in SUBSET STRING /\ IsFiniteSet(xs)
  <2>1. PICK vs \in Seq(NullVars) : vs = m.vars
    BY NullParts
  <2>2. Len(vs) \in Nat /\ DOMAIN vs = 1..Len(vs) /\ \A i \in 1..Len(vs) : vs[i] \in NullVars
    BY <2>1
  <2>3. \A i \in 1..Len(vs) : vs[i].name \in STRING
    BY <2>2 DEF NullVars
  <2>4. xs = {vs[i].name : i \in 1..Len(vs)}
    BY <2>1, <2>2
  <2> DEFINE f == [i \in 1..Len(vs) |-> vs[i].name]
  <2>5. f \in Surjection(1..Len(vs), xs)
    <3>1. f \in [1..Len(vs) -> xs]
      BY <2>4
    <3>2. \A x \in xs : \E i \in 1..Len(vs) : f[i] = x
      BY <2>4
    <3> HIDE DEF f, xs
    <3> QED BY <3>1, <3>2 DEF Surjection
  <2>6. IsFiniteSet(1..Len(vs))
    BY <2>2, FS_Interval
  <2>7. xs \in SUBSET STRING
    BY <2>3, <2>4
  <2> HIDE DEF f, xs
  <2> QED BY <2>5, <2>6, <2>7, FS_Surjection
<1>2. \A x \in xs : F[x] \in NP!PointerStates
  BY NullGet, NullStates DEF NP!mergeStates
<1>3. NP!MergeBranches(m, a, b) = NullTaken(m, xs, F)
  BY DEF NP!MergeBranches, NP!SetAll, NullTaken, Changed, Added, Known
<1> HIDE DEF xs, F
<1> QED BY <1>1, <1>2, <1>3, NullTake

(* What the body of a loop has set is unknown. *)
LEMMA NullAfterLoop ==
    ASSUME NEW m \in NullMaps, NEW loop \in NullMaps
    PROVE  NP!AfterLoop(m, loop) \in NullMaps
<1> DEFINE xs == loop.modified
           F == [x \in xs |-> "MAYBE"]
<1>1. xs \in SUBSET STRING /\ IsFiniteSet(xs)
  BY NullParts
<1>2. \A x \in xs : F[x] \in NP!PointerStates
  BY NullStates
<1>3. NP!AfterLoop(m, loop) = NullTaken(m, xs, F)
  BY DEF NP!AfterLoop, NP!SetAll, NullTaken, Changed, Added, Known
<1> HIDE DEF xs, F
<1> QED BY <1>1, <1>2, <1>3, NullTake

(* The state a branch starts with, with its capture. *)
LEMMA NullBranch ==
    ASSUME NEW m \in NullMaps, NEW n \in Nodes, n.k \in {"if", "while"}, NEW b
    PROVE  /\ NP!Branch(m, n, b) \in NullMaps
           /\ n.k = "if" => NP!Captured(NP!Branch(m, n, b), n) \in NullMaps
<1>1. NP!Branch(m, n, b) \in NullMaps
  <2>1. CASE n.cond.k # "cmp"
    BY <2>1, NullFork DEF NP!Branch
  <2>2. CASE n.cond.k = "cmp"
    <3>1. n.cond.x \in STRING
      BY <2>2, NodesAssumption
    <3>2. (IF b THEN "IS_NULL" ELSE "SAFE") \in NP!PointerStates
      BY NullStates
    <3>3. NP!ForkOf(m) \in NullMaps
      BY NullFork
    <3> DEFINE s == IF b THEN "IS_NULL" ELSE "SAFE"
    <3>4. NP!Branch(m, n, b) = NP!setState(NP!ForkOf(m), n.cond.x, s)
      BY <2>2 DEF NP!Branch
    <3> HIDE DEF s
    <3> QED BY <3>1, <3>2, <3>3, <3>4, NullSet DEF s
  <2> QED BY <2>1, <2>2
<1>2. ASSUME n.k = "if" PROVE NP!Captured(NP!Branch(m, n, b), n) \in NullMaps
  <2>1. n.cap \in STRING
    BY <1>2, NodesAssumption
  <2>2. NP!addVariable(NP!Branch(m, n, b), n.cap, "SAFE") \in NullMaps
    BY <1>1, <2>1, NullStates, NullAdd
  <2> QED BY <1>1, <2>2 DEF NP!Captured
<1> QED BY <1>1, <1>2

(* An if without an else is merged. *)
LEMMA NullAfterThen ==
    ASSUME NEW m \in NullMaps, NEW a \in NullMaps, NEW n \in Nodes, n.k = "if"
    PROVE  NP!AfterThen(m, n, a) \in NullMaps
<1>1. NP!mergeScopes(m, a) \in NullMaps
  BY NullMerge
<1>2. CASE n.cond.k # "cmp"
  BY <1>1, <1>2 DEF NP!AfterThen
<1>3. CASE n.cond.k = "cmp"
  <2>1. n.cond.x \in STRING /\ NP!getState(m, n.cond.x) \in NP!PointerStates
    BY <1>3, NodesAssumption, NullGet
  <2>2. NP!setState(NP!mergeScopes(m, a), n.cond.x, NP!getState(m, n.cond.x)) \in NullMaps
    BY <1>1, <2>1, NullSet
  <2> QED BY <1>3, <2>2 DEF NP!AfterThen
<1> QED BY <1>2, <1>3

(* The last state of the stack, and the others. *)
LEMMA NullFront ==
    ASSUME NEW ss \in Seq(NullMaps), Len(ss) > 0
    PROVE  /\ Len(ss) \in Nat /\ NP!Last(ss) \in NullMaps
           /\ NP!Front(ss) \in Seq(NullMaps) /\ Len(NP!Front(ss)) = Len(ss) - 1
<1>1. NP!Front(ss) = SubSeq(ss, 1, Len(ss) - 1) /\ NP!Last(ss) = ss[Len(ss)]
  BY DEF NP!Front, NP!Last
<1> QED BY <1>1, FrontOf

(* The last state is replaced. *)
LEMMA NullSetTop ==
    ASSUME NEW ss \in Seq(NullMaps), Len(ss) > 0, NEW m \in NullMaps
    PROVE  NP!SetTop(ss, m) \in Seq(NullMaps) /\ Len(NP!SetTop(ss, m)) = Len(ss)
<1>1. Len(ss) \in Nat /\ NP!Front(ss) \in Seq(NullMaps) /\ Len(NP!Front(ss)) = Len(ss) - 1
  BY NullFront
<1>2. Append(NP!Front(ss), m) \in Seq(NullMaps) /\ Len(Append(NP!Front(ss), m)) = Len(NP!Front(ss)) + 1
  BY <1>1
<1> QED BY <1>1, <1>2 DEF NP!SetTop

(* A scope is left: it is merged into the scope around it. *)
LEMMA NullLeave ==
    ASSUME NEW ss \in Seq(NullMaps), Len(ss) >= 2, NP!Leave(ss)
    PROVE  null_scopes' \in Seq(NullMaps) /\ Len(null_scopes') = Len(ss) - 1
<1> DEFINE outer == NP!Front(ss)
           m == NP!mergeScopes(NP!Last(outer), NP!Last(ss))
<1>1. Len(ss) \in Nat /\ NP!Last(ss) \in NullMaps /\ outer \in Seq(NullMaps) /\ Len(outer) = Len(ss) - 1
  BY NullFront
<1>2. null_scopes' = NP!SetTop(outer, m)
  BY DEF NP!Leave
<1> HIDE DEF outer
<1>3. Len(outer) > 0
  BY <1>1
<1>4. NP!Last(outer) \in NullMaps
  BY <1>1, <1>3, NullFront
<1>5. m \in NullMaps
  BY <1>1, <1>4, NullMerge
<1> HIDE DEF m
<1> QED BY <1>1, <1>2, <1>3, <1>5, NullSetTop
-----------------------------------------------------------------------------
(* The null pointer analyzer is at level l, above the global scope. *)
NullAt(l) ==
    /\ l.null
    /\ Fit(todo, l)
    /\ null_scopes \in Seq(NullMaps) /\ Len(null_scopes) = l.scopes + 1
NullOK == \E l \in Levels : NullAt(l)

(* The kind of an entry tells what it is the end of. *)
LEMMA NullEntryKinds ==
    ASSUME NEW x, NEW l, NEW m, NullEntry(x, l, m)
    PROVE  /\ x.k \in NodeKinds => x \in Nodes /\ l.scopes = m.scopes
           /\ x.k = "fn" => x.body \in Nodes /\ l.scopes = m.scopes
           /\ x.k \in {"endfn", "endblock", "endfor"} => l.scopes = m.scopes + 1
           /\ x.k \in {"endthen", "endelse", "endwhile"} => l.scopes = m.scopes + 2 /\ x.of \in Nodes
           /\ x.k = "endthen" => x.of.k = "if"
           /\ x.k = "endelse" => x.kept \in NullMaps
<1>1. x \in Nodes => x.k \in NodeKinds
  BY NodesAssumption
<1> QED BY <1>1 DEF NullEntry, NodeKinds

(* What the analyzer meets leads to the level of the rest. *)
LEMMA NullHead ==
    ASSUME NullOK, todo # <<>>
    PROVE  \E l, m \in Levels :
             /\ m.null /\ Fit(Tail(todo), m) /\ <<>> \o Tail(todo) = Tail(todo)
             /\ NullEntry(Head(todo), l, m) /\ l.scopes \in Nat /\ m.scopes \in Nat
             /\ null_scopes \in Seq(NullMaps) /\ Len(null_scopes) = l.scopes + 1
<1>1. PICK l \in Levels : NullAt(l)
  BY DEF NullOK
<1>2. PICK m \in Levels : Fit(Tail(todo), m) /\ Entry(Head(todo), l, m)
  BY <1>1, FitTail DEF NullAt
<1>3. <<>> \o Tail(todo) = Tail(todo)
  BY <1>1, FitTail, NothingAdded DEF NullAt
<1>4. m.null /\ NullEntry(Head(todo), l, m)
  BY <1>1, <1>2 DEF Entry, NullAt
<1>5. l.scopes \in Nat /\ m.scopes \in Nat
  BY LevelParts
<1>6. null_scopes \in Seq(NullMaps) /\ Len(null_scopes) = l.scopes + 1
  BY <1>1 DEF NullAt
<1> QED BY <1>2, <1>3, <1>4, <1>5, <1>6

(* A visitor is done: the rest is at its level. *)
LEMMA NullDone ==
    ASSUME NEW m \in Levels, m.null, Fit(Tail(todo), m), <<>> \o Tail(todo) = Tail(todo), NP!Goto(<<>>),
           null_scopes' \in Seq(NullMaps), Len(null_scopes') = m.scopes + 1
    PROVE  NullOK'
<1>1. todo' = Tail(todo)
  BY DEF NP!Goto
<1>2. NullAt(m)'
  BY <1>1 DEF NullAt
<1> QED BY <1>2 DEF NullOK

(* A level with k more scopes. *)
LEMMA NullHigher ==
    ASSUME NEW m \in Levels, NEW k \in Nat
    PROVE  \E n \in Levels : n.scopes = m.scopes + k /\ n.null = m.null
<1>1. PICK a, b, c \in Nat : a = m.scopes + k /\ b = m.depth /\ c = m.due
  BY LevelParts
<1>2. LevelOf(m, a, b, c) \in Levels /\ LevelOf(m, a, b, c).scopes = a /\ LevelOf(m, a, b, c).null = m.null
  BY LevelOfParts
<1> QED BY <1>1, <1>2

(* A visitor is entered: k scopes more, and an end that takes them off. *)
LEMMA NullEnter ==
    ASSUME NEW m \in Levels, m.null, Fit(Tail(todo), m), NEW b \in Nodes, NEW e, NEW k \in Nat,
           \A n \in Levels : n.scopes = m.scopes + k => NullEntry(e, n, m),
           NP!Goto(<<b, e>>),
           null_scopes' \in Seq(NullMaps), Len(null_scopes') = m.scopes + k + 1
    PROVE  NullOK'
<1>1. PICK n \in Levels : n.scopes = m.scopes + k /\ n.null = m.null
  BY NullHigher
<1>2. n.null /\ n.null = m.null
  BY <1>1
<1>3. Entry(e, n, m)
  BY <1>1, <1>2 DEF Entry
<1>4. Entry(b, n, n)
  BY <1>2 DEF Entry, NullEntry
<1>5. Fit(<<e>> \o Tail(todo), n)
  BY <1>3, FitPush
<1>6. Fit(<<b>> \o (<<e>> \o Tail(todo)), n)
  BY <1>4, <1>5, FitPush
<1>7. <<b, e>> \o Tail(todo) = <<b>> \o (<<e>> \o Tail(todo))
  BY TwoBefore DEF Fit
<1>8. todo' = <<b, e>> \o Tail(todo)
  BY DEF NP!Goto
<1>9. Fit(todo', n)
  BY <1>6, <1>7, <1>8, Zenon
<1>10. NullAt(n)'
  BY <1>1, <1>2, <1>9 DEF NullAt
<1> QED BY <1>10 DEF NullOK

(* A node is met: the last scope is its own. *)
LEMMA NullNode ==
    ASSUME NullOK, todo # <<>>, Head(todo).k \in NodeKinds
    PROVE  \E m \in Levels :
             /\ m.null /\ Fit(Tail(todo), m) /\ <<>> \o Tail(todo) = Tail(todo) /\ m.scopes \in Nat
             /\ null_scopes \in Seq(NullMaps) /\ Len(null_scopes) = m.scopes + 1
             /\ Head(todo) \in Nodes /\ Len(null_scopes) > 0 /\ NP!Top \in NullMaps
<1>1. PICK l, m \in Levels :
             /\ m.null /\ Fit(Tail(todo), m) /\ <<>> \o Tail(todo) = Tail(todo)
             /\ NullEntry(Head(todo), l, m) /\ l.scopes \in Nat /\ m.scopes \in Nat
             /\ null_scopes \in Seq(NullMaps) /\ Len(null_scopes) = l.scopes + 1
  BY NullHead
<1>2. Head(todo) \in Nodes /\ l.scopes = m.scopes
  BY <1>1, NullEntryKinds
<1>3. Len(null_scopes) > 0
  BY <1>1
<1>4. NP!Top \in NullMaps
  BY <1>1, <1>3, NullFront DEF NP!Top
<1> QED BY <1>1, <1>2, <1>3, <1>4

(* A state is put on the stack. *)
LEMMA NullAppend ==
    ASSUME NEW ss \in Seq(NullMaps), NEW m \in NullMaps
    PROVE  Append(ss, m) \in Seq(NullMaps) /\ Len(Append(ss, m)) = Len(ss) + 1
  OBVIOUS

(* Two states are put on the stack. *)
LEMMA NullAppendTwo ==
    ASSUME NEW ss \in Seq(NullMaps), NEW m \in NullMaps, NEW n \in NullMaps
    PROVE  ss \o <<m, n>> \in Seq(NullMaps) /\ Len(ss \o <<m, n>>) = Len(ss) + 2
<1>1. <<m, n>> \in Seq(NullMaps) /\ Len(<<m, n>>) = 2
  OBVIOUS
<1> QED BY <1>1

(* The state of an expression. *)
LEMMA NullExpression ==
    ASSUME NEW e, NP!Top \in NullMaps
    PROVE  NP!getExpressionState(e) \in NP!PointerStates
<1>1. NP!getState(NP!Top, e.x) \in NP!PointerStates
  BY NullGet
<1> QED BY <1>1, NullStates DEF NP!getExpressionState

(* The function is entered, with its parameters. *)
LEMMA NullFn ==
    ASSUME NullOK, NP!visitFnDecl
    PROVE  NullOK'
<1>1. todo # <<>> /\ Head(todo).k = "fn"
  BY DEF NP!visitFnDecl, NP!At
<1>2. PICK l, m \in Levels :
             /\ m.null /\ Fit(Tail(todo), m)
             /\ NullEntry(Head(todo), l, m) /\ l.scopes \in Nat /\ m.scopes \in Nat
             /\ null_scopes \in Seq(NullMaps) /\ Len(null_scopes) = l.scopes + 1
  BY <1>1, NullHead
<1>3. Head(todo).body \in Nodes /\ l.scopes = m.scopes
  BY <1>1, <1>2, NullEntryKinds
<1> DEFINE params == NP!SetToSeq(Params)
           added == [i \in DOMAIN params |-> [name |-> params[i], state |-> "MAYBE"]]
           top == [NP!ForkOf(NP!Top) EXCEPT !.vars = @ \o added]
           b == Head(todo).body
           e == NP!End("endfn", NP!None, NP!EmptyMap)
<1>4. null_scopes' = Append(null_scopes, top) /\ NP!Goto(<<b, e>>)
  BY DEF NP!visitFnDecl
<1>5. added \in Seq(NullVars)
  <2>1. params \in Seq(Params)
    BY FunctionsAssumption, ListedSet
  <2> HIDE DEF params
  <2>2. Len(params) \in Nat /\ DOMAIN params = 1..Len(params) /\ \A i \in 1..Len(params) : params[i] \in Params
    BY <2>1
  <2>3. ASSUME NEW i \in 1..Len(params) PROVE [name |-> params[i], state |-> "MAYBE"] \in NullVars
    BY <2>2, FunctionsAssumption, NullStates DEF NullVars
  <2>4. added \in [1..Len(params) -> NullVars]
    BY <2>2, <2>3
  <2> HIDE DEF added
  <2> QED BY <2>2, <2>4
<1>6. top \in NullMaps
  <2>1. Len(null_scopes) > 0
    BY <1>2
  <2>2. NP!Top \in NullMaps
    BY <1>2, <2>1, NullFront DEF NP!Top
  <2>3. NP!ForkOf(NP!Top) \in NullMaps
    BY <2>2, NullFork
  <2>4. PICK f \in NullMaps : f = NP!ForkOf(NP!Top)
    BY <2>3
  <2> HIDE DEF added
  <2>5. f.vars \o added \in Seq(NullVars)
    BY <1>5, NullParts
  <2>6. [f EXCEPT !.vars = f.vars \o added] \in NullMaps
    BY <2>5 DEF NullMaps, NullVars
  <2> QED BY <2>4, <2>6
<1>7. e.k = "endfn"
  BY DEF NP!End
<1> HIDE DEF top, b, e
<1>8. null_scopes' \in Seq(NullMaps) /\ Len(null_scopes') = m.scopes + 1 + 1
  BY <1>2, <1>3, <1>4, <1>6, NullAppend
<1>9. ASSUME NEW n \in Levels, n.scopes = m.scopes + 1 PROVE NullEntry(e, n, m)
  BY <1>7, <1>9 DEF NullEntry
<1>10. b \in Nodes /\ 1 \in Nat
  BY <1>3 DEF b
<1> QED BY <1>2, <1>4, <1>8, <1>9, <1>10, NullEnter

(* A block is entered. *)
LEMMA NullBlock ==
    ASSUME NullOK, NP!visitBlock
    PROVE  NullOK'
<1>1. todo # <<>> /\ Head(todo).k = "block" /\ Head(todo).k \in NodeKinds
  BY DEF NP!visitBlock, NP!At, NodeKinds
<1>2. PICK m \in Levels :
             /\ m.null /\ Fit(Tail(todo), m) /\ m.scopes \in Nat
             /\ null_scopes \in Seq(NullMaps) /\ Len(null_scopes) = m.scopes + 1
             /\ Head(todo) \in Nodes /\ NP!Top \in NullMaps
  BY <1>1, NullNode
<1> DEFINE ss == Head(todo).ss
           e == NP!End("endblock", NP!None, NP!EmptyMap)
<1>3. ss \in Seq(Nodes)
  BY <1>1, <1>2, NodesAssumption
<1>4. null_scopes' = Append(null_scopes, NP!ForkOf(NP!Top)) /\ todo' = (ss \o <<e>>) \o Tail(todo)
  BY DEF NP!visitBlock, NP!Goto
<1>5. e.k = "endblock"
  BY DEF NP!End
<1> HIDE DEF ss, e
<1>6. PICK n \in Levels : n.scopes = m.scopes + 1 /\ n.null = m.null
  <2>1. 1 \in Nat
    OBVIOUS
  <2> QED BY <2>1, NullHigher
<1>7. n.null /\ n.null = m.null
  BY <1>2, <1>6
<1>8. Entry(e, n, m)
  BY <1>5, <1>6, <1>7 DEF Entry, NullEntry
<1>9. ASSUME NEW x \in Nodes PROVE Entry(x, n, n)
  BY <1>7 DEF Entry, NullEntry
<1>10. Fit(todo', n)
  <2>1. Fit(<<e>> \o Tail(todo), n)
    BY <1>2, <1>8, FitPush
  <2>2. Fit(ss \o (<<e>> \o Tail(todo)), n)
    BY <1>3, <1>9, <2>1, FitNodes
  <2>3. (ss \o <<e>>) \o Tail(todo) = ss \o (<<e>> \o Tail(todo))
    <3>1. PICK S : Tail(todo) \in Seq(S)
      BY <1>2 DEF Fit, Sequence
    <3> DEFINE R == S \cup Nodes \cup {e}
    <3>2. Tail(todo) \in Seq(R) /\ ss \in Seq(R) /\ <<e>> \in Seq(R)
      BY <1>3, <3>1
    <3> HIDE DEF R
    <3> QED BY <3>2, ConcatAssociative
  <2> QED BY <1>4, <2>2, <2>3, Zenon
<1>11. null_scopes' \in Seq(NullMaps) /\ Len(null_scopes') = n.scopes + 1
  <2>1. NP!ForkOf(NP!Top) \in NullMaps
    BY <1>2, NullFork
  <2> QED BY <1>2, <1>4, <1>6, <2>1, NullAppend
<1>12. NullAt(n)'
  BY <1>7, <1>10, <1>11 DEF NullAt
<1> QED BY <1>12 DEF NullOK

(* A declaration, an assignment or a compound assignment sets a state of   *)
(* the last scope.                                                         *)
LEMMA NullSets ==
    ASSUME NullOK, NP!visitVarDecl \/ NP!visitAssignment \/ NP!visitCompoundAssignment
    PROVE  NullOK'
<1>1. todo # <<>> /\ Head(todo).k \in {"decl", "assign", "compound"} /\ Head(todo).k \in NodeKinds
      /\ NP!Goto(<<>>)
  BY DEF NP!visitVarDecl, NP!visitAssignment, NP!visitCompoundAssignment, NP!At, NodeKinds
<1>2. PICK m \in Levels :
             /\ m.null /\ Fit(Tail(todo), m) /\ <<>> \o Tail(todo) = Tail(todo) /\ m.scopes \in Nat
             /\ null_scopes \in Seq(NullMaps) /\ Len(null_scopes) = m.scopes + 1
             /\ Head(todo) \in Nodes /\ Len(null_scopes) > 0 /\ NP!Top \in NullMaps
  BY <1>1, NullNode
<1>3. \/ null_scopes' = null_scopes
      \/ \E g \in NullMaps : null_scopes' = NP!SetTop(null_scopes, g)
  <2>1. CASE NP!visitVarDecl
    <3> DEFINE s == IF Head(todo).e = NP!None THEN "UNINIT" ELSE NP!getExpressionState(Head(todo).e)
    <3>1. Head(todo).k = "decl"
      BY <2>1 DEF NP!visitVarDecl, NP!At
    <3>2. Head(todo).x \in STRING
      BY <1>2, <3>1, NodesAssumption
    <3>3. s \in NP!PointerStates
      BY <1>2, NullExpression, NullStates
    <3>4. \/ null_scopes' = null_scopes
          \/ null_scopes' = NP!SetTop(null_scopes, NP!addVariable(NP!Top, Head(todo).x, s))
      BY <2>1 DEF NP!visitVarDecl
    <3> HIDE DEF s
    <3>5. NP!addVariable(NP!Top, Head(todo).x, s) \in NullMaps
      BY <1>2, <3>2, <3>3, NullAdd
    <3> QED BY <3>4, <3>5
  <2>2. CASE NP!visitAssignment
    <3> DEFINE s == NP!getExpressionState(Head(todo).e)
               x == Head(todo).lv.x
    <3>1. Head(todo).k = "assign"
      BY <2>2 DEF NP!visitAssignment, NP!At
    <3>2. Head(todo).lv \in Nodes
      BY <1>2, <3>1, NodesAssumption
    <3>3. s \in NP!PointerStates
      BY <1>2, NullExpression
    <3>4. \/ null_scopes' = null_scopes
          \/ Head(todo).lv.k = "id" /\ null_scopes' = NP!SetTop(null_scopes, NP!setState(NP!Top, x, s))
      BY <2>2 DEF NP!visitAssignment
    <3>5. Head(todo).lv.k = "id" => x \in STRING
      BY <3>2, NodesAssumption
    <3> HIDE DEF s, x
    <3>6. Head(todo).lv.k = "id" => NP!setState(NP!Top, x, s) \in NullMaps
      BY <1>2, <3>3, <3>5, NullSet
    <3> QED BY <3>4, <3>6
  <2>3. CASE NP!visitCompoundAssignment
    <3>1. Head(todo).k = "compound"
      BY <2>3 DEF NP!visitCompoundAssignment, NP!At
    <3>2. Head(todo).x \in STRING
      BY <1>2, <3>1, NodesAssumption
    <3>3. NP!setState(NP!Top, Head(todo).x, "MAYBE") \in NullMaps
      BY <1>2, <3>2, NullStates, NullSet
    <3> QED BY <2>3, <3>3 DEF NP!visitCompoundAssignment
  <2> QED BY <2>1, <2>2, <2>3
<1>4. null_scopes' \in Seq(NullMaps) /\ Len(null_scopes') = m.scopes + 1
  BY <1>2, <1>3, NullSetTop
<1> QED BY <1>1, <1>2, <1>4, NullDone

(* Nothing to set: expressions and what is not visited. *)
LEMMA NullOther ==
    ASSUME NullOK, NP!visitExpressions \/ NP!visitOther
    PROVE  NullOK'
<1>1. todo # <<>> /\ Head(todo).k \in NodeKinds /\ NP!Goto(<<>>) /\ UNCHANGED null_scopes
  BY DEF NP!visitExpressions, NP!visitOther, NP!At, NodeKinds
<1>2. PICK m \in Levels :
             /\ m.null /\ Fit(Tail(todo), m) /\ <<>> \o Tail(todo) = Tail(todo)
             /\ null_scopes \in Seq(NullMaps) /\ Len(null_scopes) = m.scopes + 1
  BY <1>1, NullNode
<1> QED BY <1>1, <1>2, NullDone

(* The function, a block or a for is left. *)
LEMMA NullEndOne ==
    ASSUME NullOK, NP!EndFn \/ NP!EndBlock \/ NP!EndFor
    PROVE  NullOK'
<1>1. todo # <<>> /\ Head(todo).k \in {"endfn", "endblock", "endfor"} /\ NP!Goto(<<>>)
  BY DEF NP!EndFn, NP!EndBlock, NP!EndFor, NP!At
<1>2. PICK l, m \in Levels :
             /\ m.null /\ Fit(Tail(todo), m) /\ <<>> \o Tail(todo) = Tail(todo)
             /\ NullEntry(Head(todo), l, m) /\ l.scopes \in Nat /\ m.scopes \in Nat
             /\ null_scopes \in Seq(NullMaps) /\ Len(null_scopes) = l.scopes + 1
  BY <1>1, NullHead
<1>3. l.scopes = m.scopes + 1
  BY <1>1, <1>2, NullEntryKinds
<1>4. Len(null_scopes) = m.scopes + 2 /\ Len(null_scopes) >= 2 /\ Len(null_scopes) > 0
  BY <1>2, <1>3
<1>5. NP!Below \in Seq(NullMaps) /\ Len(NP!Below) = m.scopes + 1 /\ Len(NP!Below) > 0 /\ NP!Top \in NullMaps
  <2>1. NP!Below \in Seq(NullMaps) /\ Len(NP!Below) = Len(null_scopes) - 1 /\ NP!Top \in NullMaps
    BY <1>2, <1>4, NullFront DEF NP!Below, NP!Top
  <2> QED BY <1>2, <1>4, <2>1
<1>6. null_scopes' \in Seq(NullMaps) /\ Len(null_scopes') = m.scopes + 1
  <2>1. CASE NP!EndFn
    BY <1>5, <2>1 DEF NP!EndFn
  <2>2. CASE NP!EndBlock
    <3>1. NP!Leave(null_scopes)
      BY <2>2 DEF NP!EndBlock
    <3>2. null_scopes' \in Seq(NullMaps) /\ Len(null_scopes') = Len(null_scopes) - 1
      BY <1>2, <1>4, <3>1, NullLeave
    <3> QED BY <1>2, <1>4, <3>2
  <2>3. CASE NP!EndFor
    <3>1. null_scopes' = NP!SetTop(NP!Below, NP!AfterLoop(NP!Last(NP!Below), NP!Top))
      BY <2>3 DEF NP!EndFor
    <3>2. NP!Last(NP!Below) \in NullMaps
      BY <1>5, NullFront
    <3>3. NP!AfterLoop(NP!Last(NP!Below), NP!Top) \in NullMaps
      BY <1>5, <3>2, NullAfterLoop
    <3> QED BY <1>5, <3>1, <3>3, NullSetTop
  <2> QED BY <2>1, <2>2, <2>3
<1> QED BY <1>1, <1>2, <1>6, NullDone

(* if: the working copy and the branch are pushed. *)
LEMMA NullIf ==
    ASSUME NullOK, NP!visitIfStmt
    PROVE  NullOK'
<1>1. todo # <<>> /\ Head(todo).k = "if" /\ Head(todo).k \in NodeKinds
  BY DEF NP!visitIfStmt, NP!At, NodeKinds
<1>2. PICK m \in Levels :
             /\ m.null /\ Fit(Tail(todo), m) /\ m.scopes \in Nat
             /\ null_scopes \in Seq(NullMaps) /\ Len(null_scopes) = m.scopes + 1
             /\ Head(todo) \in Nodes /\ NP!Top \in NullMaps
  BY <1>1, NullNode
<1> DEFINE n == Head(todo)
           e == NP!End("endthen", n, NP!EmptyMap)
           f == NP!ForkOf(NP!Top)
           g == NP!Captured(NP!Branch(NP!Top, n, NP!IsEqual(n)), n)
<1>3. null_scopes' = null_scopes \o <<f, g>> /\ NP!Goto(<<n.then, e>>)
  BY DEF NP!visitIfStmt
<1>4. f \in NullMaps /\ g \in NullMaps
  BY <1>1, <1>2, NullFork, NullBranch
<1>5. n.then \in Nodes
  BY <1>1, <1>2, NodesAssumption
<1>6. e.k = "endthen" /\ e.of = n
  BY DEF NP!End
<1>7. n \in Nodes /\ n.k = "if"
  BY <1>1, <1>2
<1> HIDE DEF n, e, f, g
<1>8. null_scopes' \in Seq(NullMaps) /\ Len(null_scopes') = m.scopes + 2 + 1
  BY <1>2, <1>3, <1>4, NullAppendTwo
<1>9. ASSUME NEW o \in Levels, o.scopes = m.scopes + 2 PROVE NullEntry(e, o, m)
  BY <1>6, <1>7, <1>9 DEF NullEntry
<1>10. 2 \in Nat
  OBVIOUS
<1> QED BY <1>2, <1>3, <1>5, <1>8, <1>9, <1>10, NullEnter

(* while: the working copy and the body are pushed. *)
LEMMA NullWhile ==
    ASSUME NullOK, NP!visitWhileStmt
    PROVE  NullOK'
<1>1. todo # <<>> /\ Head(todo).k = "while" /\ Head(todo).k \in NodeKinds
  BY DEF NP!visitWhileStmt, NP!At, NodeKinds
<1>2. PICK m \in Levels :
             /\ m.null /\ Fit(Tail(todo), m) /\ m.scopes \in Nat
             /\ null_scopes \in Seq(NullMaps) /\ Len(null_scopes) = m.scopes + 1
             /\ Head(todo) \in Nodes /\ NP!Top \in NullMaps
  BY <1>1, NullNode
<1> DEFINE n == Head(todo)
           e == NP!End("endwhile", n, NP!EmptyMap)
           f == NP!ForkOf(NP!Top)
           g == IF NP!IsEqual(n) THEN NP!ForkOf(NP!Top) ELSE NP!Branch(NP!Top, n, FALSE)
<1>3. null_scopes' = null_scopes \o <<f, g>> /\ NP!Goto(<<n.body, e>>)
  BY DEF NP!visitWhileStmt
<1>4. f \in NullMaps /\ g \in NullMaps
  BY <1>1, <1>2, NullFork, NullBranch
<1>5. n.body \in Nodes
  BY <1>1, <1>2, NodesAssumption
<1>6. e.k = "endwhile" /\ e.of = n
  BY DEF NP!End
<1>7. n \in Nodes
  BY <1>2
<1> HIDE DEF n, e, f, g
<1>8. null_scopes' \in Seq(NullMaps) /\ Len(null_scopes') = m.scopes + 2 + 1
  BY <1>2, <1>3, <1>4, NullAppendTwo
<1>9. ASSUME NEW o \in Levels, o.scopes = m.scopes + 2 PROVE NullEntry(e, o, m)
  BY <1>6, <1>7, <1>9 DEF NullEntry
<1>10. 2 \in Nat
  OBVIOUS
<1> QED BY <1>2, <1>3, <1>5, <1>8, <1>9, <1>10, NullEnter

(* for: the body is pushed, with its item. *)
LEMMA NullFor ==
    ASSUME NullOK, NP!visitForStmt
    PROVE  NullOK'
<1>1. todo # <<>> /\ Head(todo).k = "for" /\ Head(todo).k \in NodeKinds
  BY DEF NP!visitForStmt, NP!At, NodeKinds
<1>2. PICK m \in Levels :
             /\ m.null /\ Fit(Tail(todo), m) /\ m.scopes \in Nat
             /\ null_scopes \in Seq(NullMaps) /\ Len(null_scopes) = m.scopes + 1
             /\ Head(todo) \in Nodes /\ NP!Top \in NullMaps
  BY <1>1, NullNode
<1> DEFINE n == Head(todo)
           e == NP!End("endfor", n, NP!EmptyMap)
           g == NP!addVariable(NP!ForkOf(NP!Top), n.item, "MAYBE")
<1>3. null_scopes' = Append(null_scopes, g) /\ NP!Goto(<<n.body, e>>)
  BY DEF NP!visitForStmt
<1>4. n.body \in Nodes /\ n.item \in STRING
  BY <1>1, <1>2, NodesAssumption
<1>5. g \in NullMaps
  <2>1. NP!ForkOf(NP!Top) \in NullMaps
    BY <1>2, NullFork
  <2> QED BY <1>4, <2>1, NullStates, NullAdd
<1>6. e.k = "endfor"
  BY DEF NP!End
<1> HIDE DEF n, e, g
<1>7. null_scopes' \in Seq(NullMaps) /\ Len(null_scopes') = m.scopes + 1 + 1
  BY <1>2, <1>3, <1>5, NullAppend
<1>8. ASSUME NEW o \in Levels, o.scopes = m.scopes + 1 PROVE NullEntry(e, o, m)
  BY <1>6, <1>8 DEF NullEntry
<1>9. 1 \in Nat
  OBVIOUS
<1> QED BY <1>2, <1>3, <1>4, <1>7, <1>8, <1>9, NullEnter

(* The end of a branch or a while is met: the working copy is below.       *)
LEMMA NullPair ==
    ASSUME NullOK, todo # <<>>, Head(todo).k \in {"endthen", "endelse", "endwhile"}
    PROVE  \E m \in Levels :
             /\ m.null /\ Fit(Tail(todo), m) /\ <<>> \o Tail(todo) = Tail(todo) /\ m.scopes \in Nat
             /\ Head(todo).of \in Nodes
             /\ Head(todo).k = "endthen" => Head(todo).of.k = "if"
             /\ Head(todo).k = "endelse" => Head(todo).kept \in NullMaps
             /\ NP!Below \in Seq(NullMaps) /\ Len(NP!Below) = m.scopes + 2 /\ Len(NP!Below) > 0
             /\ NP!Last(NP!Below) \in NullMaps /\ NP!Top \in NullMaps
<1>1. PICK l, m \in Levels :
             /\ m.null /\ Fit(Tail(todo), m) /\ <<>> \o Tail(todo) = Tail(todo)
             /\ NullEntry(Head(todo), l, m) /\ l.scopes \in Nat /\ m.scopes \in Nat
             /\ null_scopes \in Seq(NullMaps) /\ Len(null_scopes) = l.scopes + 1
  BY NullHead
<1>2. /\ l.scopes = m.scopes + 2 /\ Head(todo).of \in Nodes
      /\ Head(todo).k = "endthen" => Head(todo).of.k = "if"
      /\ Head(todo).k = "endelse" => Head(todo).kept \in NullMaps
  BY <1>1, NullEntryKinds
<1>3. Len(null_scopes) = m.scopes + 3 /\ Len(null_scopes) > 0
  BY <1>1, <1>2
<1>4. NP!Below \in Seq(NullMaps) /\ Len(NP!Below) = Len(null_scopes) - 1 /\ NP!Top \in NullMaps
  BY <1>1, <1>3, NullFront DEF NP!Below, NP!Top
<1>5. Len(NP!Below) = m.scopes + 2 /\ Len(NP!Below) > 0
  BY <1>1, <1>3, <1>4
<1>6. NP!Last(NP!Below) \in NullMaps
  BY <1>4, <1>5, NullFront
<1> QED BY <1>1, <1>2, <1>4, <1>5, <1>6

(* The merged working copy is left. *)
LEMMA NullLeavePair ==
    ASSUME NEW n \in Nat, NP!Below \in Seq(NullMaps), Len(NP!Below) = n + 2, NEW g \in NullMaps,
           NP!Leave(NP!SetTop(NP!Below, g))
    PROVE  null_scopes' \in Seq(NullMaps) /\ Len(null_scopes') = n + 1
<1>1. Len(NP!Below) > 0
  OBVIOUS
<1>2. NP!SetTop(NP!Below, g) \in Seq(NullMaps) /\ Len(NP!SetTop(NP!Below, g)) = n + 2
  BY <1>1, NullSetTop
<1>3. Len(NP!SetTop(NP!Below, g)) >= 2
  BY <1>2
<1>4. null_scopes' \in Seq(NullMaps) /\ Len(null_scopes') = Len(NP!SetTop(NP!Below, g)) - 1
  BY <1>2, <1>3, NullLeave
<1> QED BY <1>2, <1>4

(* An else and a while are left. *)
LEMMA NullEndPair ==
    ASSUME NullOK, NP!EndElse \/ NP!EndWhile
    PROVE  NullOK'
<1>1. todo # <<>> /\ Head(todo).k \in {"endthen", "endelse", "endwhile"} /\ NP!Goto(<<>>)
      /\ (NP!EndElse => Head(todo).k = "endelse")
  BY DEF NP!EndElse, NP!EndWhile, NP!At
<1>2. PICK m \in Levels :
             /\ m.null /\ Fit(Tail(todo), m) /\ <<>> \o Tail(todo) = Tail(todo) /\ m.scopes \in Nat
             /\ Head(todo).k = "endelse" => Head(todo).kept \in NullMaps
             /\ NP!Below \in Seq(NullMaps) /\ Len(NP!Below) = m.scopes + 2
             /\ NP!Last(NP!Below) \in NullMaps /\ NP!Top \in NullMaps
  BY <1>1, NullPair
<1>3. \E g \in NullMaps : NP!Leave(NP!SetTop(NP!Below, g))
  <2>1. CASE NP!EndElse
    <3>1. NP!MergeBranches(NP!Last(NP!Below), Head(todo).kept, NP!Top) \in NullMaps
      BY <1>1, <1>2, <2>1, NullMergeBranches
    <3> QED BY <2>1, <3>1 DEF NP!EndElse
  <2>2. CASE NP!EndWhile
    <3>1. NP!AfterLoop(NP!Last(NP!Below), NP!Top) \in NullMaps
      BY <1>2, NullAfterLoop
    <3> QED BY <2>2, <3>1 DEF NP!EndWhile
  <2> QED BY <2>1, <2>2
<1>4. null_scopes' \in Seq(NullMaps) /\ Len(null_scopes') = m.scopes + 1
  BY <1>2, <1>3, NullLeavePair
<1> QED BY <1>1, <1>2, <1>4, NullDone

(* The then branch is left: the else is entered, or the if is left. *)
LEMMA NullEndThen ==
    ASSUME NullOK, NP!EndThen
    PROVE  NullOK'
<1>1. todo # <<>> /\ Head(todo).k = "endthen" /\ Head(todo).k \in {"endthen", "endelse", "endwhile"}
  BY DEF NP!EndThen, NP!At
<1>2. PICK m \in Levels :
             /\ m.null /\ Fit(Tail(todo), m) /\ <<>> \o Tail(todo) = Tail(todo) /\ m.scopes \in Nat
             /\ Head(todo).of \in Nodes
             /\ Head(todo).k = "endthen" => Head(todo).of.k = "if"
             /\ NP!Below \in Seq(NullMaps) /\ Len(NP!Below) = m.scopes + 2
             /\ NP!Last(NP!Below) \in NullMaps /\ NP!Top \in NullMaps
  BY <1>1, NullPair
<1> DEFINE n == Head(todo).of
           entry == NP!Last(NP!Below)
           e == NP!End("endelse", n, NP!Top)
           g == NP!Branch(entry, n, ~NP!IsEqual(n))
<1>3. n \in Nodes /\ n.k = "if" /\ n.k \in {"if", "while"}
  BY <1>1, <1>2
<1>4. CASE n.else # NP!None
  <2>1. null_scopes' = Append(NP!Below, g) /\ NP!Goto(<<n.else, e>>)
    BY <1>4 DEF NP!EndThen
  <2>2. n.else \in Nodes
    BY <1>3, NodesAssumption
  <2>3. e.k = "endelse" /\ e.of = n /\ e.kept = NP!Top
    BY DEF NP!End
  <2>4. g \in NullMaps
    BY <1>2, <1>3, NullBranch
  <2> HIDE DEF n, e, g
  <2>5. null_scopes' \in Seq(NullMaps) /\ Len(null_scopes') = m.scopes + 2 + 1
    BY <1>2, <2>1, <2>4, NullAppend
  <2>6. ASSUME NEW o \in Levels, o.scopes = m.scopes + 2 PROVE NullEntry(e, o, m)
    BY <1>2, <1>3, <2>3, <2>6 DEF NullEntry
  <2>7. 2 \in Nat
    OBVIOUS
  <2> QED BY <1>2, <2>1, <2>2, <2>5, <2>6, <2>7, NullEnter
<1>5. CASE n.else = NP!None
  <2>1. NP!Leave(NP!SetTop(NP!Below, NP!AfterThen(entry, n, NP!Top))) /\ NP!Goto(<<>>)
    BY <1>5 DEF NP!EndThen
  <2>2. NP!AfterThen(entry, n, NP!Top) \in NullMaps
    BY <1>2, <1>3, NullAfterThen
  <2>3. null_scopes' \in Seq(NullMaps) /\ Len(null_scopes') = m.scopes + 1
    BY <1>2, <2>1, <2>2, NullLeavePair
  <2> QED BY <1>2, <2>1, <2>3, NullDone
<1> QED BY <1>4, <1>5

(* Every step of the null pointer analyzer keeps its stack as high as what *)
(* is left to visit expects.                                               *)
LEMMA NullStep ==
    ASSUME NullOK, NP!Next
    PROVE  NullOK'
  BY NullFn, NullEndOne, NullBlock, NullSets, NullIf, NullEndThen, NullEndPair, NullWhile, NullFor,
     NullOther DEF NP!Next
-----------------------------------------------------------------------------
(* The inductive invariant: the analyzer at work has the stacks its todo   *)
(* expects, the other one has what it starts with or has left.             *)
FreeIdle ==
    /\ free_scopes = <<>> /\ deferred_actions_ = <<>>
    /\ current_scope_depth_ = 0 /\ ~in_error_path_
NullIdle == null_scopes \in Seq(NullMaps) /\ Len(null_scopes) = 1
Inv ==
    /\ fn \in Functions
    /\ pass \in {"lifetime", "null", "double_free", "done"}
    /\ IF pass = "null" THEN NullOK ELSE NullIdle
    /\ IF pass = "double_free" THEN FreeOK ELSE FreeIdle

(* The analyzers start with empty stacks. *)
LEMMA InitInv == Init => Inv
<1> SUFFICES ASSUME Init PROVE Inv
  OBVIOUS
<1>1. NullIdle
  <2>1. <<NP!EmptyMap>> \in Seq(NullMaps) /\ Len(<<NP!EmptyMap>>) = 1
    BY NullEmpty
  <2> QED BY <2>1 DEF Init, NullIdle
<1>2. FreeIdle /\ fn \in Functions /\ pass = "lifetime"
  BY DEF Init, FreeIdle
<1> QED BY <1>1, <1>2 DEF Inv

(* A function to visit fits on the ground. *)
LEMMA FitFunction ==
    ASSUME NEW f \in Functions, NEW p \in BOOLEAN
    PROVE  \E l \in Levels : l.scopes = 0 /\ l.depth = 0 /\ l.due = 0 /\ l.err = FALSE /\ l.null = p
                             /\ Ground(l) /\ Fit(<<FnDecl(f)>>, l)
<1>1. 0 \in Nat /\ FALSE \in BOOLEAN
  OBVIOUS
<1>2. PICK l \in Levels : l.scopes = 0 /\ l.depth = 0 /\ l.due = 0 /\ l.err = FALSE /\ l.null = p
  <2>1. PICK z \in Nat, b \in BOOLEAN : z = 0 /\ b = FALSE
    BY <1>1, Zenon
  <2>2. \E l \in Levels : l.scopes = z /\ l.depth = z /\ l.due = z /\ l.err = b /\ l.null = p
    BY LevelMade
  <2> QED BY <2>1, <2>2, Zenon
<1>3. Ground(l)
  BY <1>2 DEF Ground
<1> DEFINE x == FnDecl(f)
<1>4. x.k = "fn" /\ x.body = f
  BY DEF FnDecl
<1>5. f \in Nodes /\ f.k = "block"
  BY FunctionsAssumption
<1> HIDE DEF x
<1>6. Entry(x, l, l)
  <2>1. FnEntry(x, l, l)
    BY <1>3, <1>4, <1>5 DEF FnEntry, Same
  <2>2. NullEntry(x, l, l)
    BY <1>4, <1>5 DEF NullEntry
  <2> QED BY <2>1, <2>2 DEF Entry, FreeEntry
<1>7. Fit(<<>>, l)
  BY <1>3, FitNil
<1>8. Fit(<<x>> \o <<>>, l)
  BY <1>6, <1>7, FitPush
<1>9. <<x>> \o <<>> = <<x>>
  <2>1. <<x>> \in Seq({x})
    OBVIOUS
  <2> QED BY <2>1, ConcatEmptySeq
<1>10. Fit(<<x>>, l)
  BY <1>8, <1>9, Zenon
<1> QED BY <1>2, <1>3, <1>10 DEF x

(* The null pointer analyzer begins. *)
LEMMA NullBegins ==
    ASSUME NullIdle, fn \in Functions, todo' = <<FnDecl(fn)>>, UNCHANGED null_scopes
    PROVE  NullOK'
<1>1. TRUE \in BOOLEAN
  OBVIOUS
<1>2. PICK l \in Levels : l.scopes = 0 /\ l.null = TRUE /\ Fit(<<FnDecl(fn)>>, l)
  BY <1>1, FitFunction
<1>3. NullAt(l)'
  BY <1>2 DEF NullAt, NullIdle
<1> QED BY <1>3 DEF NullOK

(* The double free analyzer begins. *)
LEMMA FreeBegins ==
    ASSUME FreeIdle, fn \in Functions, todo' = <<FnDecl(fn)>>,
           UNCHANGED <<free_scopes, deferred_actions_, current_scope_depth_, in_error_path_>>
    PROVE  FreeOK'
<1>1. FALSE \in BOOLEAN /\ 0 \in Nat
  OBVIOUS
<1>2. PICK l \in Levels : l.scopes = 0 /\ l.depth = 0 /\ l.due = 0 /\ l.null = FALSE
                          /\ Ground(l) /\ Fit(<<FnDecl(fn)>>, l)
  BY <1>1, FitFunction
<1>3. Stack(free_scopes') /\ Len(free_scopes') = l.scopes
  BY <1>2, StackOne DEF FreeIdle
<1>4. DefersOK(deferred_actions_', l.due)
  BY <1>1, <1>2, DefersNone DEF FreeIdle
<1> HIDE DEF FreeIdle
<1>5. in_error_path_' = l.err
  <2>1. l.err = FALSE
    <3>1. ~l.err /\ l.err \in BOOLEAN
      BY <1>2, LevelParts DEF Ground
    <3> QED BY <3>1
  <2>2. in_error_path_' = FALSE
    BY DEF FreeIdle
  <2> QED BY <2>1, <2>2
<1>6. current_scope_depth_' = l.depth /\ Fit(todo', l) /\ ~l.null
  BY <1>2 DEF FreeIdle
<1>7. FreeAt(l)'
  BY <1>3, <1>4, <1>5, <1>6 DEF FreeAt
<1> QED BY <1>7 DEF FreeOK

(* The null pointer analyzer has returned. *)
LEMMA NullReturns ==
    ASSUME NullOK, todo = <<>>
    PROVE  NullIdle
<1>1. PICK l \in Levels : NullAt(l)
  BY DEF NullOK
<1>2. Ground(l)
  BY <1>1, FitNil DEF NullAt
<1> QED BY <1>1, <1>2 DEF NullAt, NullIdle, Ground

(* The double free analyzer has returned. *)
LEMMA FreeReturns ==
    ASSUME FreeOK, todo = <<>>
    PROVE  FreeIdle
<1>1. PICK l \in Levels : FreeAt(l)
  BY DEF FreeOK
<1>2. Ground(l)
  BY <1>1, FreeLevelSafe
<1>3. Stack(free_scopes) /\ Len(free_scopes) = 0 /\ DefersOK(deferred_actions_, 0)
      /\ current_scope_depth_ = 0 /\ ~in_error_path_
  BY <1>1, <1>2 DEF FreeAt, Ground
<1>4. free_scopes = <<>>
  <2>1. PICK M : free_scopes \in Seq(M)
    BY <1>3 DEF Stack
  <2> QED BY <1>3, <2>1
<1>5. deferred_actions_ = <<>>
  BY <1>3, DefersGone
<1> QED BY <1>3, <1>4, <1>5 DEF FreeIdle

(* Every step keeps the invariant. *)
LEMMA NextInv ==
    ASSUME Inv, [Next]_vars
    PROVE  Inv'
<1>1. CASE UNCHANGED vars
  BY <1>1 DEF Inv, vars, free, NullOK, NullAt, NullIdle, FreeOK, FreeAt, FreeIdle
<1>2. CASE Lifetime
  BY <1>2 DEF Lifetime, Inv, free, NullIdle, FreeIdle
<1>3. CASE NullPointer
  <2>1. NullOK' /\ FreeIdle'
    BY <1>3, NullStep DEF NullPointer, Inv, free, FreeIdle
  <2> QED BY <1>3, <2>1 DEF NullPointer, Inv
<1>4. CASE DoubleFree
  <2>1. FreeOK' /\ NullIdle'
    BY <1>4, FreeStep DEF DoubleFree, Inv, NullIdle
  <2> QED BY <1>4, <2>1 DEF DoubleFree, Inv
<1>5. CASE NextPass
  <2>1. todo = <<>> /\ UNCHANGED <<fn, null_scopes, free_scopes, deferred_actions_, current_scope_depth_, in_error_path_>>
        /\ fn \in Functions
    BY <1>5 DEF NextPass, free, Inv
  <2>2. CASE pass = "lifetime"
    <3>1. pass' = "null" /\ todo' = <<FnDecl(fn)>>
      BY <1>5, <2>2 DEF NextPass
    <3>2. NullOK'
      BY <2>1, <2>2, <3>1, NullBegins DEF Inv
    <3>3. FreeIdle'
      BY <2>1, <2>2 DEF Inv, FreeIdle
    <3> QED BY <2>1, <3>1, <3>2, <3>3 DEF Inv
  <2>3. CASE pass = "null"
    <3>1. pass' = "double_free" /\ todo' = <<FnDecl(fn)>>
      BY <1>5, <2>3 DEF NextPass
    <3>2. NullIdle
      BY <2>1, <2>3, NullReturns DEF Inv
    <3>3. NullIdle'
      BY <2>1, <3>2 DEF NullIdle
    <3>4. FreeOK'
      BY <2>1, <2>3, <3>1, FreeBegins DEF Inv
    <3> QED BY <2>1, <3>1, <3>3, <3>4 DEF Inv
  <2>4. CASE pass = "double_free"
    <3>1. pass' = "done"
      BY <1>5, <2>4 DEF NextPass
    <3>2. FreeIdle
      BY <2>1, <2>4, FreeReturns DEF Inv
    <3>3. FreeIdle' /\ NullIdle'
      BY <2>1, <2>4, <3>2 DEF FreeIdle, NullIdle, Inv
    <3> QED BY <2>1, <3>1, <3>3 DEF Inv
  <2> QED BY <1>5, <2>2, <2>3, <2>4 DEF NextPass, Inv
<1>6. CASE Finished
  BY <1>1, <1>6 DEF Finished
<1> QED BY <1>1, <1>2, <1>3, <1>4, <1>5, <1>6 DEF Next

(* The scopes of both analyzers hold known states. *)
LEMMA InvTypes ==
    ASSUME Inv
    PROVE  TypeOK
<1>1. \A i \in DOMAIN null_scopes : \A j \in DOMAIN null_scopes[i].vars :
        null_scopes[i].vars[j].state \in NP!PointerStates
  <2>1. null_scopes \in Seq(NullMaps)
    BY DEF Inv, NullOK, NullAt, NullIdle
  <2>2. ASSUME NEW i \in DOMAIN null_scopes, NEW j \in DOMAIN null_scopes[i].vars
        PROVE  null_scopes[i].vars[j].state \in NP!PointerStates
    <3>1. null_scopes[i] \in NullMaps
      BY <2>1
    <3>2. null_scopes[i].vars \in Seq(NullVars)
      BY <3>1, NullParts
    <3>3. null_scopes[i].vars[j] \in NullVars
      BY <3>2
    <3> QED BY <3>3 DEF NullVars
  <2> QED BY <2>2
<1>2. \A i \in DOMAIN free_scopes : \A x \in DOMAIN free_scopes[i] :
        free_scopes[i][x].state \in DF!AllocationStates
  <2>1. Stack(free_scopes)
    BY StackOne DEF Inv, FreeOK, FreeAt, FreeIdle
  <2>2. PICK M : free_scopes \in Seq(M) /\ \A m \in M : FreeMap(m)
    BY <2>1 DEF Stack
  <2>3. ASSUME NEW i \in DOMAIN free_scopes, NEW x \in DOMAIN free_scopes[i]
        PROVE  free_scopes[i][x].state \in DF!AllocationStates
    <3>1. free_scopes[i] \in M
      BY <2>2
    <3>2. free_scopes[i][x] \in TrackedPointers
      BY <2>2, <3>1 DEF FreeMap
    <3> QED BY <3>2 DEF TrackedPointers
  <2> QED BY <2>3
<1> QED BY <1>1, <1>2 DEF TypeOK

(* What the null pointer analyzer is about to take off is there. *)
LEMMA InvNullPops ==
    ASSUME Inv
    PROVE  NullPopsSafe
<1> SUFFICES ASSUME pass = "null", todo # <<>>
             PROVE  /\ Head(todo).k \in {"endfn", "endblock", "endfor"} => Len(null_scopes) >= 2
                    /\ Head(todo).k \in {"endthen", "endelse", "endwhile"} => Len(null_scopes) >= 3
  BY DEF NullPopsSafe
<1>1. NullOK
  BY DEF Inv
<1>2. PICK l, m \in Levels : /\ NullEntry(Head(todo), l, m) /\ l.scopes \in Nat /\ m.scopes \in Nat
                             /\ Len(null_scopes) = l.scopes + 1
  BY <1>1, NullHead
<1>3. /\ Head(todo).k \in {"endfn", "endblock", "endfor"} => l.scopes = m.scopes + 1
      /\ Head(todo).k \in {"endthen", "endelse", "endwhile"} => l.scopes = m.scopes + 2
  BY <1>2, NullEntryKinds
<1> QED BY <1>2, <1>3

(* The deferred actions are of open blocks, the innermost last. *)
LEMMA InvDefers ==
    ASSUME Inv
    PROVE  DefersNested
<1>1. PICK b \in Nat : DefersOK(deferred_actions_, b) /\ b <= current_scope_depth_ /\ current_scope_depth_ \in Nat
  <2>1. CASE pass = "double_free"
    <3>1. PICK l \in Levels : FreeAt(l)
      BY <2>1 DEF Inv, FreeOK
    <3>2. l.due <= l.depth /\ l.due \in Nat /\ l.depth \in Nat
      BY <3>1, FreeLevelSafe, LevelParts
    <3> QED BY <3>1, <3>2 DEF FreeAt
  <2>2. CASE pass # "double_free"
    <3>1. 0 \in Nat
      OBVIOUS
    <3>2. deferred_actions_ = <<>> /\ current_scope_depth_ = 0
      BY <2>2 DEF Inv, FreeIdle
    <3>3. DefersOK(deferred_actions_, 0)
      BY <3>1, <3>2, DefersNone
    <3> QED BY <3>1, <3>2, <3>3
  <2> QED BY <2>1, <2>2
<1>2. DOMAIN deferred_actions_ = 1..Len(deferred_actions_)
  BY <1>1 DEF DefersOK
<1>3. ASSUME NEW i \in DOMAIN deferred_actions_
      PROVE  deferred_actions_[i].depth \in 1..current_scope_depth_
  <2>1. deferred_actions_[i] \in DeferredActions /\ deferred_actions_[i].depth <= b
    BY <1>1, <1>2 DEF DefersOK
  <2>2. deferred_actions_[i].depth \in Nat /\ deferred_actions_[i].depth > 0
    BY <2>1, DeferredParts
  <2> QED BY <1>1, <2>1, <2>2
<1>4. \A i, j \in DOMAIN deferred_actions_ :
        i <= j => deferred_actions_[i].depth <= deferred_actions_[j].depth
  BY <1>1, <1>2 DEF DefersOK
<1> QED BY <1>3, <1>4 DEF DefersNested

(* The invariant implies what is promised. *)
LEMMA InvBalanced ==
    ASSUME Inv
    PROVE  Balanced
<1>1. FreePopsSafe
  <2> SUFFICES ASSUME pass = "double_free", todo # <<>>
               PROVE  /\ Head(todo).k = "endblock" => Len(free_scopes) >= 2 /\ current_scope_depth_ >= 1
                      /\ Head(todo).k \in {"endbranch", "endloop"} => Len(free_scopes) >= 3
    BY DEF FreePopsSafe
  <2>1. PICK l \in Levels : FreeAt(l)
    BY DEF Inv, FreeOK
  <2>2. /\ Head(todo).k = "endblock" => l.scopes >= 2 /\ l.depth >= 1
        /\ Head(todo).k \in {"endbranch", "endloop"} => l.scopes >= 3
    BY <2>1, FreeLevelSafe
  <2> QED BY <2>1, <2>2 DEF FreeAt
<1>2. Done => /\ Len(null_scopes) = 1 /\ free_scopes = <<>>
              /\ deferred_actions_ = <<>> /\ current_scope_depth_ = 0 /\ ~in_error_path_
  BY DEF Done, Inv, NullIdle, FreeIdle
<1> QED BY <1>1, <1>2, InvTypes, InvNullPops, InvDefers DEF Balanced

(* Every analyzer takes back what it pushed: popScope, mergeScopesLinear   *)
(* and executeDefers never take off what was not pushed, no deferred       *)
(* action outlives its block, and after the function all is as before.     *)
THEOREM AnalyzersBalanced == Spec => []Balanced
<1>1. Inv /\ [Next]_vars => Inv'
  BY NextInv
<1>2. Inv => Balanced
  BY InvBalanced
<1> QED BY InitInv, <1>1, <1>2, PTL DEF Spec
=============================================================================
