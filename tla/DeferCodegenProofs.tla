------------------------- MODULE DeferCodegenProofs -------------------------
(***************************************************************************)
(* Proof that the C emitter's stacks and labels fit together               *)
(* (CodeWellFormed) and that the emission of a function the validator let  *)
(* through comes to no deferred statement again while it emits it and      *)
(* meets no error (EmissionCompletes), for every set of functions and      *)
(* every body whose deferred statements hold no loop and no try            *)
(* (PlainDefers).  Of the other bodies nothing is proved.                  *)
(*                                                                         *)
(* The list of what is left to emit says nothing by itself of the stacks.  *)
(* The invariant puts a level, the stacks as they will be, in front of     *)
(* every entry of that list, so that each entry leads from its level to    *)
(* the next one (Fit) and the first level is what the stacks hold now.     *)
(* Beside it stands what the code written so far and the code still to     *)
(* come say of each other (Written): braces, labels, jumps.                *)
(***************************************************************************)
EXTENDS DeferCodegen, FiniteSetTheorems, SequenceTheorems, TLAPS

(* The parts of a statement are statements. *)
LEMMA KidsAreStatements ==
    ASSUME NEW s \in Statements
    PROVE  Kids(s) \subseteq Statements
<1>1. \A b \in Blocks(s) : b \in Seq(Statements)
  BY DeferConstants DEF StatementTypes
<1>2. \A b \in Blocks(s) : Range(b) \subseteq Statements
  BY <1>1 DEF Range
<1> QED BY <1>2 DEF Kids

(* A set given by its own elements and the sets of the parts, without some *)
(* elements, for each statement: the least such function exists.           *)
Gathered(f, A, B) ==
    f = [s \in Statements |-> A[s] \cup ((UNION {f[t] : t \in Kids(s)}) \ B[s])]

LEMMA GatheringExists ==
    ASSUME NEW X, NEW A \in [Statements -> SUBSET X], NEW B
    PROVE  \E f : Gathered(f, A, B)
<1> DEFINE Closed(Q) == \A u \in Statements, x \in X :
                 x \in A[u] \/ (x \notin B[u] /\ \E t \in Kids(u) : <<t, x>> \in Q) => <<u, x>> \in Q
           All == SUBSET (Statements \X X)
           R == {p \in Statements \X X : \A Q \in All : Closed(Q) => p \in Q}
           f == [s \in Statements |-> {x \in X : <<s, x>> \in R}]
<1>1. R \in All
  OBVIOUS
<1>2. Closed(R)
  <2> SUFFICES ASSUME NEW u \in Statements, NEW x \in X,
                      x \in A[u] \/ (x \notin B[u] /\ \E t \in Kids(u) : <<t, x>> \in R),
                      NEW Q \in All, Closed(Q)
               PROVE  <<u, x>> \in Q
    OBVIOUS
  <2>1. CASE x \in A[u]
    BY <2>1
  <2>2. CASE x \notin B[u] /\ \E t \in Kids(u) : <<t, x>> \in R
    <3>1. PICK t \in Kids(u) : <<t, x>> \in R
      BY <2>2
    <3>2. <<t, x>> \in Q
      BY <3>1
    <3> QED BY <2>2, <3>2
  <2> QED BY <2>1, <2>2
<1>3. ASSUME NEW u \in Statements, NEW x \in X, <<u, x>> \in R, x \notin A[u]
      PROVE  x \notin B[u] /\ \E t \in Kids(u) : <<t, x>> \in R
  <2> SUFFICES ASSUME ~(x \notin B[u] /\ \E t \in Kids(u) : <<t, x>> \in R)
               PROVE  FALSE
    OBVIOUS
  <2> DEFINE Q == R \ {<<u, x>>}
  <2>1. Q \in All
    BY <1>1
  <2>2. Closed(Q)
    <3> SUFFICES ASSUME NEW v \in Statements, NEW y \in X,
                        y \in A[v] \/ (y \notin B[v] /\ \E t \in Kids(v) : <<t, y>> \in Q)
                 PROVE  <<v, y>> \in Q
      OBVIOUS
    <3>1. <<v, y>> \in R
      BY <1>2
    <3>2. ASSUME v = u, y = x PROVE FALSE
      BY <1>3, <3>2
    <3> QED BY <3>1, <3>2
  <2> QED BY <1>3, <2>1, <2>2
<1>4. ASSUME NEW s \in Statements
      PROVE  f[s] = A[s] \cup ((UNION {f[t] : t \in Kids(s)}) \ B[s])
  <2>0. \A t \in Kids(s) : t \in Statements /\ f[t] = {x \in X : <<t, x>> \in R}
    BY KidsAreStatements
  <2>1. ASSUME NEW x, x \in f[s] PROVE x \in A[s] \cup ((UNION {f[t] : t \in Kids(s)}) \ B[s])
    <3>1. x \in X /\ <<s, x>> \in R
      BY <2>1
    <3>2. CASE x \in A[s]
      BY <3>2
    <3>3. CASE x \notin A[s]
      <4>1. x \notin B[s] /\ \E t \in Kids(s) : <<t, x>> \in R
        BY <1>3, <3>1, <3>3
      <4>2. PICK t \in Kids(s) : <<t, x>> \in R
        BY <4>1
      <4>3. x \in f[t]
        BY <2>0, <3>1, <4>2
      <4> HIDE DEF f
      <4> QED BY <4>1, <4>3
    <3> QED BY <3>2, <3>3
  <2>2. ASSUME NEW x, x \in A[s] \cup ((UNION {f[t] : t \in Kids(s)}) \ B[s]) PROVE x \in f[s]
    <3>1. CASE x \in A[s]
      BY <1>2, <3>1
    <3>2. CASE x \in (UNION {f[t] : t \in Kids(s)}) \ B[s]
      <4>1. PICK t \in Kids(s) : x \in f[t] /\ x \notin B[s]
        BY <3>2
      <4>2. x \in X /\ <<t, x>> \in R
        BY <2>0, <4>1
      <4> QED BY <1>2, <4>1, <4>2
    <3> QED BY <2>2, <3>1, <3>2
  <2> QED BY <2>1, <2>2
<1>5. f = [s \in Statements |-> A[s] \cup ((UNION {f[t] : t \in Kids(s)}) \ B[s])]
  <2> DEFINE g == [s \in Statements |-> A[s] \cup ((UNION {f[t] : t \in Kids(s)}) \ B[s])]
  <2>1. \A s \in Statements : f[s] = g[s]
    BY <1>4
  <2> HIDE DEF R
  <2>2. DOMAIN f = Statements /\ DOMAIN g = Statements /\ f = [s \in DOMAIN f |-> f[s]] /\ g = [s \in DOMAIN g |-> g[s]]
    OBVIOUS
  <2> HIDE DEF f, g
  <2>3. f = g
    BY <2>1, <2>2
  <2> QED BY <2>3 DEF g
<1>6. Gathered(f, A, B)
  BY <1>5 DEF Gathered
<1> HIDE DEF f
<1> QED BY <1>6

(* A statement and what is inside its parts. *)
LEMMA InsideIs ==
    ASSUME NEW s \in Statements
    PROVE  Inside[s] = {s} \cup UNION {Inside[t] : t \in Kids(s)}
<1> DEFINE A == [t \in Statements |-> {t}]
           B == [t \in Statements |-> {}]
<1>1. A \in [Statements -> SUBSET Statements]
  OBVIOUS
<1>2. \E f : Gathered(f, A, B)
  <2> HIDE DEF A, B
  <2> QED BY <1>1, GatheringExists
<1>3. PICK f : f = [u \in Statements |-> A[u] \cup ((UNION {f[t] : t \in Kids(u)}) \ B[u])]
  BY <1>2 DEF Gathered
<1>4. f = [u \in Statements |-> {u} \cup UNION {f[t] : t \in Kids(u)}]
  <2>1. \A u \in Statements : A[u] \cup ((UNION {f[t] : t \in Kids(u)}) \ B[u]) = {u} \cup UNION {f[t] : t \in Kids(u)}
    OBVIOUS
  <2>2. [u \in Statements |-> A[u] \cup ((UNION {f[t] : t \in Kids(u)}) \ B[u])]
        = [u \in Statements |-> {u} \cup UNION {f[t] : t \in Kids(u)}]
    BY <2>1
  <2> HIDE DEF A, B
  <2> QED BY <1>3, <2>2
<1>5. Inside = [u \in Statements |-> {u} \cup UNION {Inside[t] : t \in Kids(u)}]
  <2> DEFINE P(g) == g = [u \in Statements |-> {u} \cup UNION {g[t] : t \in Kids(u)}]
         c == CHOOSE g : P(g)
  <2>1. P(f)
    BY <1>4
  <2>2. Inside = c
    BY DEF Inside
  <2> HIDE DEF P
  <2>3. P(c)
    BY <2>1
  <2> HIDE DEF c
  <2>4. P(Inside)
    BY <2>2, <2>3
  <2> QED BY <2>4 DEF P
<1> QED BY <1>5

(* The jumps of a statement: its own, or those of its parts to other loops. *)
LEMMA TargetsAre ==
    ASSUME NEW s \in Statements
    PROVE  Targets[s] = LET inner == UNION {Targets[t] : t \in Kids(s)}
                        IN  CASE s.k \in {"break", "continue"} -> {s.to}
                              [] Loop(s) -> inner \ {s.id}
                              [] OTHER -> inner
<1> DEFINE A == [t \in Statements |-> IF t.k \in {"break", "continue"} THEN {t.to} ELSE {}]
           B == [t \in Statements |-> IF Loop(t) THEN {t.id} ELSE {}]
           X == {t.to : t \in Statements}
           Here_(g, u) == LET inner == UNION {g[t] : t \in Kids(u)}
                        IN  CASE u.k \in {"break", "continue"} -> {u.to}
                              [] Loop(u) -> inner \ {u.id}
                              [] OTHER -> inner
<1>1. A \in [Statements -> SUBSET X]
  OBVIOUS
<1>2. \E f : Gathered(f, A, B)
  <2> HIDE DEF A, B, X
  <2> QED BY <1>1, GatheringExists
<1>3. PICK f : f = [u \in Statements |-> A[u] \cup ((UNION {f[t] : t \in Kids(u)}) \ B[u])]
  BY <1>2 DEF Gathered
<1>4. f = [u \in Statements |-> Here_(f, u)]
  <2>1. ASSUME NEW u \in Statements
        PROVE  A[u] \cup ((UNION {f[t] : t \in Kids(u)}) \ B[u]) = Here_(f, u)
    <3> DEFINE inner == UNION {f[t] : t \in Kids(u)}
    <3>1. u.k \in {"break", "continue"} => Kids(u) = {} /\ ~Loop(u)
      BY DEF Kids, Blocks, Loop
    <3>2. u.k \in {"break", "continue"} => inner = {}
      BY <3>1
    <3> HIDE DEF inner
    <3>3. A[u] \cup (inner \ B[u]) = CASE u.k \in {"break", "continue"} -> {u.to}
                              [] Loop(u) -> inner \ {u.id}
                              [] OTHER -> inner
      <4>1. CASE u.k \in {"break", "continue"}
        BY <4>1, <3>1, <3>2
      <4>2. CASE u.k \notin {"break", "continue"} /\ Loop(u)
        BY <4>2
      <4>3. CASE u.k \notin {"break", "continue"} /\ ~Loop(u)
        BY <4>3
      <4> QED BY <4>1, <4>2, <4>3
    <3> QED BY <3>3 DEF inner
  <2>2. [u \in Statements |-> A[u] \cup ((UNION {f[t] : t \in Kids(u)}) \ B[u])]
        = [u \in Statements |-> Here_(f, u)]
    BY <2>1
  <2> HIDE DEF A, B, Here_
  <2> QED BY <1>3, <2>2
<1>5. Targets = [u \in Statements |-> Here_(Targets, u)]
  <2> DEFINE P(g) == g = [u \in Statements |-> Here_(g, u)]
  <2>1. P(f)
    BY <1>4
  <2>2. Targets = CHOOSE g : P(g)
    BY DEF Targets
  <2>3. P(CHOOSE g : P(g))
    <3> HIDE DEF P
    <3> QED BY <2>1
  <2>4. P(Targets)
    <3> HIDE DEF P
    <3> QED BY <2>2, <2>3
  <2> HIDE DEF Here_
  <2> QED BY <2>4
<1>6. Targets[s] = Here_(Targets, s)
  <2> HIDE DEF Here_
  <2> QED BY <1>5
<1> QED BY <1>6

-----------------------------------------------------------------------------
(* What the validator leaves, in a body with plain deferred statements: no *)
(* block inside has too many of them, and no loop or try is inside one;    *)
(* and what may be inside a deferred statement.                            *)
Within(s) ==
    /\ \A t \in Inside[s] : \A c \in Blocks(t) : ~(DeferCount(c) > MaxDefers)
    /\ \A d \in Inside[s] : Deferred(d) => LoopsIn(d) = {} /\ TriesIn(d) = {}
Plain(s) ==
    /\ Targets[s] = {}
    /\ \A u \in Inside[s] : ~Loop(u) /\ u.k \notin {"try", "return"}

(* A statement can be emitted with the loops open around it, the loops     *)
(* free to be opened and the deferred statements being emitted.            *)
Fine(s, open, free, emit) ==
    /\ s \in Statements /\ Within(s)
    /\ LoopIds(s) \subseteq free
    /\ Targets[s] \subseteq open
    /\ Numbers(s) \cap Range(emit) = {}
    /\ emit # <<>> => Plain(s)
FineBlock(b, open, free, emit) ==
    /\ b \in Seq(Statements) /\ Separate(b)
    /\ \A s \in Range(b) : Fine(s, open, free, emit)
(* The loops of a block. *)
Owned(b) == UNION {LoopIds(s) : s \in Range(b)}

LEMMA KidInside ==
    ASSUME NEW s \in Statements, NEW t \in Kids(s)
    PROVE  t \in Statements /\ Inside[t] \subseteq Inside[s]
BY InsideIs, KidsAreStatements

LEMMA SelfInside ==
    ASSUME NEW s \in Statements
    PROVE  s \in Inside[s]
BY InsideIs

(* The loops and numbers of a part are those of the whole; the numbers of  *)
(* the whole are its own.                                                  *)
LEMMA KidGathers ==
    ASSUME NEW s \in Statements, NEW t \in Kids(s)
    PROVE  LoopIds(t) \subseteq LoopIds(s) /\ Numbers(t) \subseteq Numbers(s)
BY KidInside DEF LoopIds, Numbers

LEMMA SelfGathers ==
    ASSUME NEW s \in Statements
    PROVE  /\ Loop(s) => s.id \in LoopIds(s)
           /\ Deferred(s) => s.n \in Numbers(s)
BY SelfInside DEF LoopIds, Numbers

LEMMA KidTargets ==
    ASSUME NEW s \in Statements, NEW t \in Kids(s)
    PROVE  /\ Loop(s) => Targets[t] \subseteq Targets[s] \cup {s.id}
           /\ ~Loop(s) => Targets[t] \subseteq Targets[s]
<1> DEFINE inner == UNION {Targets[u] : u \in Kids(s)}
<1>1. Targets[t] \subseteq inner
  OBVIOUS
<1>2. s.k \notin {"break", "continue"}
  BY DEF Kids, Blocks
<1>3. Targets[s] = IF Loop(s) THEN inner \ {s.id} ELSE inner
  BY <1>2, TargetsAre
<1> HIDE DEF inner
<1> QED BY <1>1, <1>3

(* How many deferred statements a block has is a number. *)
LEMMA CountType ==
    ASSUME NEW b \in Seq(Statements)
    PROVE  DeferCount(b) \in Nat
<1> DEFINE S == {i \in DOMAIN b : Deferred(b[i])}
<1>1. S \subseteq 1..Len(b) /\ Len(b) \in Nat
  OBVIOUS
<1> HIDE DEF S
<1>2. IsFiniteSet(S)
  <2>1. IsFiniteSet(1..Len(b))
    BY <1>1, FS_Interval
  <2> QED BY <1>1, <2>1, FS_Subset
<1> QED BY <1>2, FS_CardinalityType DEF DeferCount, S

LEMMA WithinCount ==
    ASSUME NEW s \in Statements, Within(s), NEW b \in Blocks(s)
    PROVE  DeferCount(b) <= MaxDefers
<1>1. s \in Inside[s]
  BY SelfInside
<1>2. ~(DeferCount(b) > MaxDefers)
  BY <1>1 DEF Within
<1>3. b \in Seq(Statements)
  BY DeferConstants DEF StatementTypes
<1>4. DeferCount(b) \in Nat
  BY <1>3, CountType
<1> QED BY <1>2, <1>4, DeferConstants

(* A block of a statement that can be emitted can be emitted, with the     *)
(* statement's own loop open.                                              *)
LEMMA BlockFine ==
    ASSUME NEW s, NEW b \in Blocks(s), NEW open, NEW free, NEW emit, NEW inner,
           Fine(s, open, free, emit), open \subseteq inner, Loop(s) => s.id \in inner
    PROVE  /\ FineBlock(b, inner, free \ (IF Loop(s) THEN {s.id} ELSE {}), emit)
           /\ DeferCount(b) <= MaxDefers
           /\ Owned(b) \subseteq LoopIds(s)
<1>1. s \in Statements
  BY DEF Fine
<1>2. b \in Seq(Statements) /\ Separate(b)
  BY <1>1, DeferConstants DEF StatementTypes, LoopsNumbered
<1>3. Range(b) \subseteq Kids(s)
  BY DEF Kids
<1>4. ASSUME NEW t \in Range(b)
      PROVE  Fine(t, inner, free \ (IF Loop(s) THEN {s.id} ELSE {}), emit)
  <2>1. t \in Kids(s)
    BY <1>3
  <2>2. t \in Statements /\ Within(t)
    BY <1>1, <2>1, KidInside DEF Fine, Within
  <2>3. LoopIds(t) \subseteq free \ (IF Loop(s) THEN {s.id} ELSE {})
    <3>1. LoopIds(t) \subseteq free
      BY <1>1, <2>1, KidGathers DEF Fine
    <3>2. Loop(s) => s.id \notin LoopIds(t)
      BY <1>1, <2>1, DeferConstants DEF LoopsNumbered
    <3> QED BY <3>1, <3>2
  <2>4. Targets[t] \subseteq inner
    BY <1>1, <2>1, KidTargets DEF Fine
  <2>5. Numbers(t) \cap Range(emit) = {}
    BY <1>1, <2>1, KidGathers DEF Fine
  <2>6. emit # <<>> => Plain(t)
    <3> SUFFICES ASSUME emit # <<>> PROVE Plain(t)
      OBVIOUS
    <3>1. Plain(s) /\ ~Loop(s)
      BY <1>1, SelfInside DEF Fine, Plain
    <3>2. Targets[t] = {}
      BY <1>1, <2>1, <3>1, KidTargets DEF Plain
    <3> QED BY <1>1, <2>1, <3>1, <3>2, KidInside DEF Plain
  <2> QED BY <2>2, <2>3, <2>4, <2>5, <2>6 DEF Fine
<1>5. DeferCount(b) <= MaxDefers
  BY <1>1, WithinCount DEF Fine
<1>6. Owned(b) \subseteq LoopIds(s)
  BY <1>1, <1>3, KidGathers DEF Owned
<1> QED BY <1>2, <1>4, <1>5, <1>6 DEF FineBlock

(* A deferred statement kept in a scope, and its block while it is emitted. *)
Kept == {d \in Statements : Deferred(d) /\ Within(d)}

LEMMA DeferredFine ==
    ASSUME NEW d \in Kept, NEW open, NEW free, NEW emit, NEW M, emit \in Seq(M), d.n \in M,
           Numbers(d) \cap Range(emit) = {}
    PROVE  /\ FineBlock(d.body, open, free, Append(emit, d.n))
           /\ DeferCount(d.body) <= MaxDefers
           /\ Owned(d.body) = {}
<1>1. d \in Statements /\ Deferred(d) /\ Within(d)
  BY DEF Kept
<1>2. d.body \in Blocks(d)
  BY <1>1 DEF Blocks, Deferred
<1>3. d.body \in Seq(Statements) /\ Separate(d.body)
  BY <1>1, <1>2, DeferConstants DEF StatementTypes, LoopsNumbered
<1>4. Range(d.body) \subseteq Kids(d)
  BY <1>2 DEF Kids
<1>5. Range(Append(emit, d.n)) = Range(emit) \cup {d.n}
  <2>1. Append(emit, d.n) \in Seq(M) /\ Len(Append(emit, d.n)) = Len(emit) + 1
        /\ DOMAIN Append(emit, d.n) = 1..Len(emit) + 1 /\ DOMAIN emit = 1..Len(emit) /\ Len(emit) \in Nat
        /\ (\A i \in 1..Len(emit) : Append(emit, d.n)[i] = emit[i])
        /\ Append(emit, d.n)[Len(emit) + 1] = d.n
    OBVIOUS
  <2> DEFINE e == Append(emit, d.n)
  <2> HIDE DEF e
  <2>2. Range(e) = Range(emit) \cup {d.n}
    BY <2>1 DEF e, Range
  <2> QED BY <2>2 DEF e
<1>6. ASSUME NEW t \in Range(d.body)
      PROVE  Fine(t, open, free, Append(emit, d.n)) /\ LoopIds(t) = {}
  <2>1. t \in Kids(d)
    BY <1>4
  <2>2. t \in Statements /\ Within(t)
    BY <1>1, <2>1, KidInside DEF Within
  <2>3. Plain(t) /\ d.n \notin Numbers(t)
    <3>1. /\ d.n \notin Numbers(t) /\ Targets[t] = {}
          /\ \A u \in Inside[t] : u.k \notin {"return", "break", "continue"}
      BY <1>1, <2>1, DeferConstants DEF DeferredStays
    <3>2. LoopsIn(d) = {} /\ TriesIn(d) = {}
      BY <1>1, SelfInside DEF Within
    <3>3. \A u \in Inside[t] : ~Loop(u) /\ u.k # "try"
      BY <1>1, <2>1, <3>2, KidInside DEF LoopsIn, TriesIn
    <3> QED BY <3>1, <3>3 DEF Plain
  <2>4. LoopIds(t) = {}
    BY <2>3 DEF Plain, LoopIds
  <2>5. Numbers(t) \cap Range(Append(emit, d.n)) = {}
    BY <1>1, <1>5, <2>1, <2>3, KidGathers
  <2>6. Targets[t] = {}
    BY <2>3 DEF Plain
  <2> QED BY <2>2, <2>3, <2>4, <2>5, <2>6 DEF Fine
<1>7. DeferCount(d.body) <= MaxDefers
  BY <1>1, <1>2, WithinCount
<1>8. Owned(d.body) = {}
  BY <1>6 DEF Owned
<1> QED BY <1>3, <1>6, <1>7, <1>8 DEF FineBlock

(* The first statement of a block and the others: they share no loop.      *)
LEMMA BlockSplits ==
    ASSUME NEW b \in Seq(Statements), b # <<>>
    PROVE  /\ Head(b) \in Range(b) /\ Head(b) \in Statements
           /\ Tail(b) \in Seq(Statements) /\ Range(Tail(b)) \subseteq Range(b)
           /\ Owned(b) = LoopIds(Head(b)) \cup Owned(Tail(b))
           /\ Separate(b) => Separate(Tail(b)) /\ LoopIds(Head(b)) \cap Owned(Tail(b)) = {}
<1> DEFINE c == Tail(b)
<1>1. /\ Len(b) \in Nat /\ Len(b) > 0 /\ DOMAIN b = 1..Len(b) /\ Head(b) = b[1]
      /\ c \in Seq(Statements) /\ DOMAIN c = 1..Len(b) - 1
      /\ \A i \in 1..Len(b) - 1 : c[i] = b[i + 1]
  OBVIOUS
<1> HIDE DEF c
<1>2. Head(b) \in Range(b) /\ Head(b) \in Statements
  BY <1>1 DEF Range
<1>3. \A i \in DOMAIN c : i + 1 \in DOMAIN b /\ c[i] = b[i + 1] /\ i + 1 # 1
  BY <1>1
<1>4. Range(c) \subseteq Range(b)
  BY <1>3 DEF Range
<1>5. ASSUME NEW s \in Range(b) PROVE s = Head(b) \/ s \in Range(c)
  <2>1. PICK i \in DOMAIN b : s = b[i]
    BY DEF Range
  <2>2. CASE i = 1
    BY <1>1, <2>1, <2>2
  <2>3. CASE i # 1
    <3>1. i - 1 \in DOMAIN c /\ c[i - 1] = b[i]
      BY <1>1, <2>3
    <3> QED BY <2>1, <3>1 DEF Range
  <2> QED BY <2>2, <2>3
<1>6. Owned(b) = LoopIds(Head(b)) \cup Owned(c)
  BY <1>2, <1>4, <1>5 DEF Owned
<1>7. ASSUME Separate(b) PROVE Separate(c) /\ LoopIds(Head(b)) \cap Owned(c) = {}
  <2>1. ASSUME NEW i \in DOMAIN c, NEW j \in DOMAIN c, i # j
        PROVE  LoopIds(c[i]) \cap LoopIds(c[j]) = {}
    <3>1. i + 1 # j + 1
      BY <1>1, <2>1
    <3> QED BY <1>3, <1>7, <3>1 DEF Separate
  <2>2. ASSUME NEW t \in Range(c) PROVE LoopIds(Head(b)) \cap LoopIds(t) = {}
    <3>1. PICK i \in DOMAIN c : t = c[i]
      BY DEF Range
    <3> QED BY <1>1, <1>3, <1>7, <3>1 DEF Separate
  <2> QED BY <2>1, <2>2 DEF Separate, Owned
<1> QED BY <1>1, <1>2, <1>4, <1>6, <1>7 DEF c

LEMMA TailFine ==
    ASSUME NEW b, NEW open, NEW free, NEW emit, b # <<>>, FineBlock(b, open, free, emit)
    PROVE  /\ Fine(Head(b), open, free, emit)
           /\ FineBlock(Tail(b), open, free \ LoopIds(Head(b)), emit)
<1>1. b \in Seq(Statements) /\ Separate(b)
  BY DEF FineBlock
<1>2. Fine(Head(b), open, free, emit)
  BY <1>1, BlockSplits DEF FineBlock
<1>3. ASSUME NEW s \in Range(Tail(b)) PROVE Fine(s, open, free \ LoopIds(Head(b)), emit)
  <2>1. Fine(s, open, free, emit)
    BY <1>1, BlockSplits DEF FineBlock
  <2>2. LoopIds(Head(b)) \cap LoopIds(s) = {}
    BY <1>1, BlockSplits DEF Owned
  <2> QED BY <2>1, <2>2 DEF Fine
<1> QED BY <1>1, <1>2, <1>3, BlockSplits DEF FineBlock

(* The count of the deferred statements goes down as they are met. *)
LEMMA CountTail ==
    ASSUME NEW b \in Seq(Statements), b # <<>>
    PROVE  /\ DeferCount(b) \in Nat /\ DeferCount(Tail(b)) \in Nat
           /\ Deferred(Head(b)) => DeferCount(Tail(b)) + 1 <= DeferCount(b)
           /\ DeferCount(Tail(b)) <= DeferCount(b)
<1> DEFINE c == Tail(b)
           S == {i \in DOMAIN b : Deferred(b[i])}
           T == {i \in DOMAIN c : Deferred(c[i])}
           U == {i \in S : i # 1}
           f == [i \in T |-> i + 1]
<1>1. /\ Len(b) \in Nat /\ Len(b) > 0 /\ DOMAIN b = 1..Len(b) /\ Head(b) = b[1]
      /\ c \in Seq(Statements) /\ DOMAIN c = 1..Len(b) - 1
      /\ \A i \in 1..Len(b) - 1 : c[i] = b[i + 1]
  OBVIOUS
<1> HIDE DEF c
<1>2. IsFiniteSet(1..Len(b)) /\ IsFiniteSet(1..Len(b) - 1)
  BY <1>1, FS_Interval
<1>3. IsFiniteSet(S) /\ IsFiniteSet(T) /\ IsFiniteSet(U)
  <2>1. S \subseteq 1..Len(b) /\ T \subseteq 1..Len(b) - 1 /\ U \subseteq 1..Len(b)
    BY <1>1
  <2> HIDE DEF S, T, U
  <2> QED BY <1>2, <2>1, FS_Subset
<1>4. Cardinality(S) \in Nat /\ Cardinality(T) \in Nat /\ Cardinality(U) \in Nat
  BY <1>3, FS_CardinalityType
<1>5. f \in [T -> U]
  BY <1>1
<1>6. \A i, j \in T : f[i] = f[j] => i = j
  BY <1>1
<1>7. \A u \in U : \E i \in T : f[i] = u
  <2> SUFFICES ASSUME NEW u \in U PROVE u - 1 \in T /\ (u - 1) + 1 = u
    OBVIOUS
  <2>1. u \in 1..Len(b) /\ u # 1 /\ Deferred(b[u])
    BY <1>1
  <2> QED BY <1>1, <2>1
<1>8. Cardinality(T) = Cardinality(U)
  <2>1. f \in Bijection(T, U)
    <3> HIDE DEF f, T, U
    <3> QED BY <1>5, <1>6, <1>7 DEF Bijection, Injection, IsInjective, Surjection
  <2>2. ExistsBijection(T, U)
    <3> HIDE DEF f, T, U
    <3> QED BY <2>1 DEF ExistsBijection
  <2> HIDE DEF T, U
  <2> QED BY <1>3, <2>2, FS_Bijection
<1>9. Deferred(Head(b)) => S = U \cup {1}
  BY <1>1
<1>10. ~Deferred(Head(b)) => S = U
  BY <1>1
<1>11. 1 \notin U
  OBVIOUS
<1> HIDE DEF S, T, U, f
<1>12. Deferred(Head(b)) => Cardinality(S) = Cardinality(U) + 1
  BY <1>3, <1>9, <1>11, FS_AddElement
<1>13. DeferCount(b) = Cardinality(S) /\ DeferCount(c) = Cardinality(T)
  BY DEF DeferCount, S, T
<1> QED BY <1>4, <1>8, <1>10, <1>12, <1>13 DEF c

-----------------------------------------------------------------------------
(* A level: what the emitter's stacks hold when an entry of todo is        *)
(* reached.  free: the loops that may still be opened; marks: open loops   *)
(* known to have a continue label.                                         *)
DeferScopes == [label_id : -1..MaxLoopIds, defers : Seq(Kept), err_defers : Seq(Kept)]
LoopNumbers == UNION {LoopIds(s) : s \in Statements}
Distinct(q) == \A i, j \in DOMAIN q : q[i] = q[j] => i = j
Levels ==
    {l \in [scopes : Seq(DeferScopes), loops : Seq(0..MaxLoopIds), emit : Seq(Nat),
            free : SUBSET LoopNumbers, marks : SUBSET Nat] :
        /\ Distinct(l.loops) /\ Distinct(l.emit)
        /\ l.free \cap Range(l.loops) = {}}

(* The loops a jump may leave: on the stack of loops and with a scope. *)
Open(l) == {n \in Range(l.loops) : \E i \in DOMAIN l.scopes : l.scopes[i].label_id = n}

Uses(l, m, ids) == m.free \subseteq l.free \ ids /\ m.marks \subseteq l.marks
Stays(l, m) == m.scopes = l.scopes /\ m.loops = l.loops /\ m.emit = l.emit

BlockEntry(x, l, m) ==
    /\ x.t = "block"
    /\ x.label \in {-1} \cup Range(l.loops)
    /\ FineBlock(x.b, Open(l) \cup ({x.label} \cap Range(l.loops)), l.free, l.emit)
    /\ DeferCount(x.b) <= MaxDefers
    /\ Stays(l, m) /\ Uses(l, m, Owned(x.b))
(* The end of a block takes its scope off. *)
Closes(l, m) ==
    /\ l.scopes # <<>> /\ m.scopes = Front(l.scopes)
    /\ m.loops = l.loops /\ m.emit = l.emit
RestEntry(x, l, m) ==
    /\ x.t = "rest"
    /\ FineBlock(x.b, Open(l), l.free, l.emit)
    /\ Closes(l, m) /\ Uses(l, m, Owned(x.b))
    /\ LET top == l.scopes[Len(l.scopes)]
       IN  /\ Len(top.defers) + Len(top.err_defers) + DeferCount(x.b) <= MaxDefers
           /\ \A d \in Range(top.defers) : Numbers(d) \cap Range(l.emit) = {}
CloseEntry(x, l, m) == x.t = "close" /\ Closes(l, m) /\ Uses(l, m, {})
StmtEntry(x, l, m) ==
    /\ x.t = "stmt"
    /\ Fine(x.s, Open(l), l.free, l.emit)
    /\ Stays(l, m) /\ Uses(l, m, LoopIds(x.s))
(* A jump goes to an open loop, with a continue label if it needs one. *)
CodeEntry(x, l, m) ==
    /\ x.t = "code"
    /\ \/ \E n \in Nat : x.c \in {C("else", n, ""), C("endif", n, ""), C("break", n, ""), C("return", n, "")}
       \/ \E n \in Range(l.loops) : x.c = Goto(n, "end")
       \/ \E n \in Range(l.loops) \cap l.marks : x.c = Goto(n, "continue")
    /\ Stays(l, m) /\ Uses(l, m, {})
Deferrable(x, emit) == x.t = "deferred" /\ x.d \in Kept /\ Numbers(x.d) \cap Range(emit) = {}
DeferredEntry(x, l, m) == Deferrable(x, l.emit) /\ Stays(l, m) /\ Uses(l, m, {})
LeaveEntry(x, l, m) ==
    /\ x.t = "leave"
    /\ l.emit # <<>> /\ m.emit = Front(l.emit)
    /\ m.scopes = l.scopes /\ m.loops = l.loops /\ Uses(l, m, {})
UnwindEntry(x, l, m) ==
    /\ x.t = "unwind" /\ x.i \in 0..Len(l.scopes) /\ l.emit = <<>>
    /\ Stays(l, m) /\ Uses(l, m, {})
Sequence(q) == \E S : q \in Seq(S)
IfErrEntry(x, l, m) ==
    /\ x.t = "iferr" /\ Sequence(x.ds) /\ \A i \in DOMAIN x.ds : Deferrable(x.ds[i], l.emit)
    /\ Stays(l, m) /\ Uses(l, m, {})
LoopEndEntry(x, l, m) ==
    /\ x.t = "loopend" /\ l.loops # <<>> /\ x.id = l.loops[Len(l.loops)] /\ x.iter \in Nat
    /\ m.loops = Front(l.loops) /\ m.scopes = l.scopes /\ m.emit = l.emit /\ Uses(l, m, {})
(* The loops of a switch from its i-th prong on. *)
Left(s, i) == UNION {Owned(s.prongs[j]) : j \in i..Len(s.prongs)}
ProngEntry(x, l, m) ==
    /\ x.t = "prong" /\ x.at \in Nat /\ x.i \in Nat \ {0}
    /\ x.s.k = "switch"
    /\ Fine(x.s, Open(l), LoopIds(x.s), l.emit)
    /\ Left(x.s, x.i) \subseteq l.free /\ Stays(l, m) /\ Uses(l, m, Left(x.s, x.i))

Entry(x, l, m) ==
    \/ BlockEntry(x, l, m) \/ RestEntry(x, l, m) \/ CloseEntry(x, l, m) \/ StmtEntry(x, l, m)
    \/ CodeEntry(x, l, m) \/ DeferredEntry(x, l, m) \/ LeaveEntry(x, l, m)
    \/ UnwindEntry(x, l, m) \/ IfErrEntry(x, l, m) \/ LoopEndEntry(x, l, m)
    \/ ProngEntry(x, l, m)

(* The levels from l at the first entry on, each entry leading from its    *)
(* level to the next one; in the end no loop is open.                      *)
Ground(l) == l.loops = <<>>
Fit(t, l) ==
    /\ Sequence(t)
    /\ \E L \in [1..Len(t) + 1 -> Levels] :
         /\ L[1] = l
         /\ Ground(L[Len(t) + 1])
         /\ \A i \in 1..Len(t) : Entry(t[i], L[i], L[i + 1])

(* Nothing is left to emit when no loop is open. *)
LEMMA FitNil ==
    ASSUME NEW l \in Levels
    PROVE  Fit(<<>>, l) <=> Ground(l)
<1>1. Sequence(<<>>)
  <2>1. <<>> \in Seq({}) OBVIOUS
  <2> QED BY <2>1 DEF Sequence
<1>2. ASSUME Ground(l) PROVE Fit(<<>>, l)
  <2> DEFINE L == [i \in 1..1 |-> l]
  <2>1. L \in [1..Len(<<>>) + 1 -> Levels] /\ L[1] = l /\ L[Len(<<>>) + 1] = l
    OBVIOUS
  <2>2. \A i \in 1..Len(<<>>) : Entry(<<>>[i], L[i], L[i + 1])
    OBVIOUS
  <2> QED BY <1>1, <1>2, <2>1, <2>2 DEF Fit
<1>3. ASSUME Fit(<<>>, l) PROVE Ground(l)
  BY <1>3 DEF Fit
<1> QED BY <1>2, <1>3

(* The first entry is taken off: the rest fits at the next level. *)
LEMMA FitTail ==
    ASSUME NEW t, NEW l \in Levels, Fit(t, l), t # <<>>
    PROVE  /\ Sequence(Tail(t))
           /\ \E m \in Levels : Fit(Tail(t), m) /\ Entry(Head(t), l, m)
<1>1. PICK S : t \in Seq(S)
  BY DEF Fit, Sequence
<1>2. PICK L \in [1..Len(t) + 1 -> Levels] :
         /\ L[1] = l
         /\ Ground(L[Len(t) + 1])
         /\ \A i \in 1..Len(t) : Entry(t[i], L[i], L[i + 1])
  BY DEF Fit
<1>3. Len(t) \in Nat /\ Len(t) > 0 /\ Tail(t) \in Seq(S) /\ Len(Tail(t)) = Len(t) - 1
      /\ Head(t) = t[1] /\ \A i \in 1..Len(t) - 1 : Tail(t)[i] = t[i + 1]
  BY <1>1
<1> DEFINE M == [i \in 1..Len(t) |-> L[i + 1]]
<1>4. M \in [1..Len(Tail(t)) + 1 -> Levels] /\ M[1] = L[2] /\ M[Len(Tail(t)) + 1] = L[Len(t) + 1]
  BY <1>2, <1>3
<1>5. ASSUME NEW i \in 1..Len(Tail(t))
      PROVE  Entry(Tail(t)[i], M[i], M[i + 1])
  <2>1. i \in 1..Len(t) - 1 /\ i + 1 \in 1..Len(t) /\ i \in 1..Len(t) /\ i \in Int
    BY <1>3
  <2>2. Entry(t[i + 1], L[i + 1], L[(i + 1) + 1])
    BY <1>2, <2>1
  <2>3. M[i] = L[i + 1] /\ M[i + 1] = L[(i + 1) + 1]
    BY <2>1
  <2> QED BY <1>3, <2>1, <2>2, <2>3
<1>6. Sequence(Tail(t))
  BY <1>3 DEF Sequence
<1>7. Fit(Tail(t), L[2])
  BY <1>2, <1>4, <1>5, <1>6 DEF Fit
<1>8. L[2] \in Levels /\ Entry(Head(t), l, L[2])
  BY <1>2, <1>3
<1> QED BY <1>6, <1>7, <1>8

(* An entry is put before what fits. *)
LEMMA FitPush ==
    ASSUME NEW t, NEW x, NEW l \in Levels, NEW m \in Levels, Fit(t, m), Entry(x, l, m)
    PROVE  Fit(<<x>> \o t, l)
<1>1. PICK S : t \in Seq(S)
  BY DEF Fit, Sequence
<1>2. PICK L \in [1..Len(t) + 1 -> Levels] :
         /\ L[1] = m
         /\ Ground(L[Len(t) + 1])
         /\ \A i \in 1..Len(t) : Entry(t[i], L[i], L[i + 1])
  BY DEF Fit
<1> DEFINE T == <<x>> \o t
           M == [i \in 1..Len(t) + 2 |-> IF i = 1 THEN l ELSE L[i - 1]]
<1>3. Len(t) \in Nat /\ T \in Seq(S \cup {x}) /\ Len(T) = Len(t) + 1
      /\ T[1] = x /\ \A i \in 1..Len(t) : T[i + 1] = t[i]
  <2>1. t \in Seq(S \cup {x}) /\ <<x>> \in Seq(S \cup {x})
    BY <1>1
  <2> QED BY <2>1
<1> HIDE DEF T
<1>4. M \in [1..Len(T) + 1 -> Levels] /\ M[1] = l /\ M[Len(T) + 1] = L[Len(t) + 1]
  BY <1>2, <1>3
<1>5. ASSUME NEW i \in 1..Len(T)
      PROVE  Entry(T[i], M[i], M[i + 1])
  <2>1. CASE i = 1
    <3>1. M[1] = l /\ M[1 + 1] = m
      BY <1>2, <1>3
    <3> QED BY <1>3, <2>1, <3>1
  <2>2. CASE i # 1
    <3>1. i - 1 \in 1..Len(t) /\ i \in 1..Len(t) + 2 /\ i + 1 \in 1..Len(t) + 2 /\ (i - 1) + 1 = i /\ (i + 1) - 1 = i
      BY <1>3, <2>2
    <3>2. M[i] = L[i - 1] /\ M[i + 1] = L[i] /\ T[i] = t[i - 1]
      BY <1>3, <2>2, <3>1
    <3>3. Entry(t[i - 1], L[i - 1], L[(i - 1) + 1])
      BY <1>2, <3>1
    <3> QED BY <3>1, <3>2, <3>3
  <2> QED BY <2>1, <2>2
<1>6. Sequence(T)
  BY <1>3 DEF Sequence
<1>7. Fit(T, l)
  BY <1>2, <1>4, <1>5, <1>6 DEF Fit
<1> QED BY <1>7 DEF T

(* Entries that change no level are put before what fits. *)
LEMMA FitSame ==
    ASSUME NEW t, NEW N, NEW ss \in Seq(N), NEW l \in Levels, Fit(t, l),
           \A x \in Range(ss) : Entry(x, l, l)
    PROVE  Fit(ss \o t, l)
<1>1. PICK S : t \in Seq(S)
  BY DEF Fit, Sequence
<1>2. PICK L \in [1..Len(t) + 1 -> Levels] :
         /\ L[1] = l
         /\ Ground(L[Len(t) + 1])
         /\ \A i \in 1..Len(t) : Entry(t[i], L[i], L[i + 1])
  BY DEF Fit
<1> DEFINE T == ss \o t
           k == Len(ss)
           M == [i \in 1..k + Len(t) + 1 |-> IF i <= k THEN l ELSE L[i - k]]
<1>3. Len(t) \in Nat /\ k \in Nat /\ T \in Seq(S \cup N) /\ Len(T) = k + Len(t)
      /\ (\A i \in 1..k : T[i] = ss[i] /\ ss[i] \in Range(ss)) /\ \A i \in k + 1..k + Len(t) : T[i] = t[i - k]
  <2>1. t \in Seq(S \cup N) /\ ss \in Seq(S \cup N)
    BY <1>1
  <2>2. \A i \in 1..k : ss[i] \in Range(ss)
    BY DEF Range
  <2> QED BY <2>1, <2>2
<1> HIDE DEF T, k
<1>4. M \in [1..Len(T) + 1 -> Levels] /\ M[1] = l /\ M[Len(T) + 1] = L[Len(t) + 1]
  BY <1>2, <1>3
<1>5. ASSUME NEW i \in 1..Len(T)
      PROVE  Entry(T[i], M[i], M[i + 1])
  <2>1. CASE i <= k
    <3>1. M[i] = l /\ M[i + 1] = l
      BY <1>2, <1>3, <2>1
    <3>2. T[i] \in Range(ss)
      <4>1. i \in 1..k
        BY <1>3, <2>1
      <4> QED BY <1>3, <4>1
    <3>3. Entry(T[i], l, l)
      BY <3>2
    <3> HIDE DEF M
    <3> QED BY <3>1, <3>3
  <2>2. CASE ~(i <= k)
    <3>1. i - k \in 1..Len(t) /\ i \in k + 1..k + Len(t) /\ i \in 1..k + Len(t) + 1 /\ i + 1 \in 1..k + Len(t) + 1
          /\ (i + 1) - k = (i - k) + 1
      BY <1>3, <2>2
    <3>2. M[i] = L[i - k] /\ M[i + 1] = L[(i - k) + 1] /\ T[i] = t[i - k]
      BY <1>3, <2>2, <3>1
    <3>3. Entry(t[i - k], L[i - k], L[(i - k) + 1])
      BY <1>2, <3>1
    <3> QED BY <3>2, <3>3
  <2> QED BY <2>1, <2>2
<1>6. Sequence(T)
  BY <1>3 DEF Sequence
<1>7. Fit(T, l)
  BY <1>2, <1>4, <1>5, <1>6 DEF Fit
<1> QED BY <1>7 DEF T

-----------------------------------------------------------------------------
(* The C code written so far and the code that the entries of todo are     *)
(* certain to write.                                                       *)
Ops == {"event", "panic", "value", "flag", "return", "if", "else", "endif", "iferr", "switch",
        "case", "break", "endswitch", "label", "goto", "unless"}
Instrs ==
    {c \in [op : Ops, n : Nat, at : {"", "start", "end", "continue", "ok", "err", "any"}, j : Nat] :
        /\ c.op = "case" => c.at = ""
        /\ c.op = "value" => c.at \in {"ok", "err", "any"}
        /\ c.op \in {"label", "goto"} => c.j = 0
        /\ c.op = "unless" => c.at = "end"
        /\ c.op = "switch" => c.j \in {0, 1}}
Pending(x) ==
    CASE x.t = "code" -> {x.c}
      [] x.t = "prong" -> {C("endswitch", x.at, "")} \cup
             (IF x.i <= Len(x.s.prongs) THEN {Prongs("case", x.at, x.i)} ELSE {})
      [] OTHER -> {}
PendingIn(q) == UNION {Pending(x) : x \in Range(q)}
Code == Range(out) \cup PendingIn(todo)

(* Every opening brace in N has its closing one in K, and a switch the     *)
(* prong it can always choose.                                             *)
Closed(N, K) ==
    \A c \in N :
        /\ c.op \in {"if", "iferr", "else"} => C("endif", c.n, "") \in K
        /\ c.op \in {"switch", "break"} => C("endswitch", c.n, "") \in K
        /\ c.op = "switch" /\ c.j = 1 => Prongs("case", c.n, 1) \in K

(* Labels and jumps of the code q, with these loops open: each label once, *)
(* after the start of its loop; an open loop has its other labels still to *)
(* come; a jump has its label, or its loop is open and will have it.       *)
Resolved(c, q, loops, cont) ==
    \/ Label(c.n, c.at) \in Range(q)
    \/ c.at = "end" /\ c.n \in Range(loops)
    \/ c.at = "continue" /\ \E i \in DOMAIN loops : loops[i] = c.n /\ cont[i]
JumpsFit(q, loops, cont) ==
    /\ \A i, j \in DOMAIN q : q[i].op = "label" /\ q[i] = q[j] => i = j
    /\ \A c \in Range(q) : c.op = "label" => Label(c.n, "start") \in Range(q)
    /\ \A n \in Range(loops) :
         /\ Label(n, "start") \in Range(q)
         /\ Label(n, "end") \notin Range(q) /\ Label(n, "continue") \notin Range(q)
    /\ \A c \in Range(q) : c.op \in {"goto", "unless"} => Resolved(c, q, loops, cont)

(* The emitter's stacks are those of a level that the entries of todo fit. *)
AtLevel(l) ==
    /\ l \in Levels /\ l.free \cap l.marks = {}
    /\ defer_stack_ = l.scopes /\ loop_id_stack_ = l.loops /\ emitting = l.emit
    /\ loop_has_continue_ \in Seq(BOOLEAN) /\ Len(loop_has_continue_) = Len(l.loops)
    /\ \A i \in DOMAIN l.loops : l.loops[i] \in l.marks => loop_has_continue_[i]
    /\ \A n \in l.free : Label(n, "start") \notin Range(out)
    /\ Fit(todo, l)
Written ==
    /\ out \in Seq(Instrs)
    /\ JumpsFit(out, loop_id_stack_, loop_has_continue_)
    /\ Closed(Code, Code)
EmitInv ==
    /\ \E l \in Levels : AtLevel(l)
    /\ Written
    /\ errors = FALSE

(* Before the emission, and in a function that was not let through.        *)
Unemitted ==
    /\ todo = <<BlockTask(body, -1)>> /\ out = <<>>
    /\ defer_stack_ = <<>> /\ loop_id_stack_ = <<>> /\ loop_has_continue_ = <<>>
    /\ emitting = <<>> /\ errors = FALSE
ProgramInv ==
    /\ pc \in 1..Len(out) + 1
    /\ trace \in Seq(Nat) /\ choices \in Seq(Nat)
    /\ return_val \in {"ok", "err"} /\ err_occurred \in BOOLEAN
Inv ==
    /\ body \in Functions
    /\ ProgramInv
    /\ phase \in {"validate", "rejected", "emit", "aborted", "run", "returned", "panicked"}
    /\ phase \in {"validate", "emit", "aborted"} => pc = 1
    /\ phase \in {"run", "returned", "panicked"} => todo = <<>>
    /\ IF phase \in {"validate", "rejected"} THEN Unemitted ELSE EmitInv

(* What the entry that is emitted next says of the level. *)
LEMMA NextEntry ==
    ASSUME NEW l \in Levels, AtLevel(l), todo # <<>>
    PROVE  \E m \in Levels : Fit(Tail(todo), m) /\ Entry(Head(todo), l, m)
BY FitTail DEF AtLevel

(* The elements of joined sequences. *)
LEMMA RangeJoined ==
    ASSUME NEW S, NEW p \in Seq(S), NEW q \in Seq(S)
    PROVE  Range(p \o q) = Range(p) \cup Range(q)
<1> DEFINE r == p \o q
<1>1. /\ Len(p) \in Nat /\ Len(q) \in Nat /\ DOMAIN p = 1..Len(p) /\ DOMAIN q = 1..Len(q)
      /\ DOMAIN r = 1..Len(p) + Len(q)
      /\ \A i \in 1..Len(p) : r[i] = p[i]
      /\ \A i \in 1..Len(q) : r[Len(p) + i] = q[i]
  OBVIOUS
<1> HIDE DEF r
<1>2. ASSUME NEW x \in Range(r) PROVE x \in Range(p) \cup Range(q)
  <2>1. PICK i \in DOMAIN r : x = r[i]
    BY DEF Range
  <2>2. CASE i <= Len(p)
    BY <1>1, <2>1, <2>2 DEF Range
  <2>3. CASE ~(i <= Len(p))
    <3>1. i - Len(p) \in 1..Len(q) /\ Len(p) + (i - Len(p)) = i
      BY <1>1, <2>3
    <3> QED BY <1>1, <2>1, <3>1 DEF Range
  <2> QED BY <2>2, <2>3
<1>3. ASSUME NEW x \in Range(p) PROVE x \in Range(r)
  <2>1. PICK i \in DOMAIN p : x = p[i]
    BY DEF Range
  <2>2. i \in DOMAIN r /\ r[i] = p[i]
    BY <1>1
  <2> QED BY <2>1, <2>2 DEF Range
<1>4. ASSUME NEW x \in Range(q) PROVE x \in Range(r)
  <2>1. PICK i \in DOMAIN q : x = q[i]
    BY DEF Range
  <2>2. Len(p) + i \in DOMAIN r /\ r[Len(p) + i] = q[i]
    BY <1>1
  <2> QED BY <2>1, <2>2 DEF Range
<1> QED BY <1>2, <1>3, <1>4 DEF r

LEMMA PendingJoined ==
    ASSUME NEW p, NEW q, Sequence(p), Sequence(q)
    PROVE  Sequence(p \o q) /\ PendingIn(p \o q) = PendingIn(p) \cup PendingIn(q)
<1>1. PICK S, T : p \in Seq(S) /\ q \in Seq(T)
  BY DEF Sequence
<1>2. p \in Seq(S \cup T) /\ q \in Seq(S \cup T) /\ p \o q \in Seq(S \cup T)
  BY <1>1
<1>3. Range(p \o q) = Range(p) \cup Range(q)
  BY <1>2, RangeJoined
<1> QED BY <1>2, <1>3 DEF PendingIn, Sequence

LEMMA PendingHead ==
    ASSUME NEW q, Sequence(q), q # <<>>
    PROVE  Sequence(Tail(q)) /\ PendingIn(q) = Pending(Head(q)) \cup PendingIn(Tail(q))
<1>1. PICK S : q \in Seq(S)
  BY DEF Sequence
<1>2. Head(q) \in S /\ Tail(q) \in Seq(S) /\ q = <<Head(q)>> \o Tail(q) /\ <<Head(q)>> \in Seq(S)
  BY <1>1
<1>3. Range(q) = Range(<<Head(q)>>) \cup Range(Tail(q))
  <2> DEFINE h == <<Head(q)>>
             t == Tail(q)
  <2>1. h \in Seq(S) /\ t \in Seq(S) /\ q = h \o t
    BY <1>2
  <2> HIDE DEF h, t
  <2>2. Range(h \o t) = Range(h) \cup Range(t)
    BY <2>1, RangeJoined
  <2>3. Range(q) = Range(h) \cup Range(t)
    BY <2>1, <2>2
  <2> QED BY <2>3 DEF h, t
<1>4. Range(<<Head(q)>>) = {Head(q)}
  BY DEF Range
<1> QED BY <1>2, <1>3, <1>4 DEF PendingIn, Sequence

(* Braces stay closed if what is written and what is put on todo closes    *)
(* its own, and the code of the entry taken off is among it.               *)
LEMMA BracesKept ==
    ASSUME NEW code \in Seq(Instrs), NEW tasks, Sequence(tasks), Emit(code, tasks), Written,
           Sequence(todo), todo # <<>>,
           Pending(Head(todo)) \subseteq Range(code) \cup PendingIn(tasks),
           Closed(Range(code) \cup PendingIn(tasks), Code \cup Range(code) \cup PendingIn(tasks))
    PROVE  Closed(Code', Code') /\ out' \in Seq(Instrs) /\ Range(out') = Range(out) \cup Range(code)
<1>1. out' = out \o code /\ todo' = tasks \o Tail(todo) /\ out \in Seq(Instrs)
  BY DEF Emit, Written
<1>2. Range(out') = Range(out) \cup Range(code) /\ out' \in Seq(Instrs)
  BY <1>1, RangeJoined
<1>3. PendingIn(todo') = PendingIn(tasks) \cup PendingIn(Tail(todo))
  BY <1>1, PendingHead, PendingJoined
<1>4. PendingIn(todo) = Pending(Head(todo)) \cup PendingIn(Tail(todo))
  BY PendingHead
<1>5. Code' = Range(out') \cup PendingIn(todo')
  BY DEF Code, PendingIn, Pending, Range
<1>6. Code' = Code \cup Range(code) \cup PendingIn(tasks)
  BY <1>2, <1>3, <1>4, <1>5 DEF Code
<1>7. Closed(Code, Code)
  BY DEF Written
<1>8. Closed(Code', Code')
  BY <1>6, <1>7 DEF Closed
<1> QED BY <1>2, <1>8

(* Code without labels and jumps leaves those there are as they are. *)
Quiet(code) == \A c \in Range(code) : c.op \notin {"label", "goto", "unless"}

LEMMA JumpsKept ==
    ASSUME NEW code \in Seq(Instrs), Quiet(code), out \in Seq(Instrs), out' = out \o code,
           JumpsFit(out, loop_id_stack_, loop_has_continue_),
           UNCHANGED <<loop_id_stack_, loop_has_continue_>>
    PROVE  /\ JumpsFit(out', loop_id_stack_', loop_has_continue_')
           /\ \A n : Label(n, "start") \notin Range(out) => Label(n, "start") \notin Range(out')
<1>1. Range(out') = Range(out) \cup Range(code)
  BY RangeJoined
<1>2. \A n, at : Label(n, at) \in Range(out') => Label(n, at) \in Range(out)
  BY <1>1 DEF Quiet, Label, C
<1>3. ASSUME NEW i \in DOMAIN out', NEW j \in DOMAIN out', out'[i].op = "label", out'[i] = out'[j]
      PROVE  i = j
  <2>1. \A k \in DOMAIN out' : out'[k].op = "label" => k \in DOMAIN out /\ out'[k] = out[k]
    <3> SUFFICES ASSUME NEW k \in DOMAIN out', out'[k].op = "label"
                 PROVE  k \in DOMAIN out /\ out'[k] = out[k]
      OBVIOUS
    <3>1. k \in 1..Len(out) + Len(code) /\ Len(out) \in Nat /\ Len(code) \in Nat /\ DOMAIN out = 1..Len(out)
      OBVIOUS
    <3>2. k \in 1..Len(out) => out'[k] = out[k]
      OBVIOUS
    <3>3. k \notin 1..Len(out) => out'[k] \in Range(code)
      <4> SUFFICES ASSUME k \notin 1..Len(out) PROVE out'[k] \in Range(code)
        OBVIOUS
      <4>1. k - Len(out) \in DOMAIN code /\ out'[k] = code[k - Len(out)]
        BY <3>1
      <4> QED BY <4>1 DEF Range
    <3> QED BY <3>1, <3>2, <3>3 DEF Quiet
  <2> QED BY <1>3, <2>1 DEF JumpsFit
<1>4. \A c \in Range(out') : c.op = "label" => Label(c.n, "start") \in Range(out')
  BY <1>1 DEF JumpsFit, Quiet
<1>5. \A n \in Range(loop_id_stack_') :
         /\ Label(n, "start") \in Range(out')
         /\ Label(n, "end") \notin Range(out') /\ Label(n, "continue") \notin Range(out')
  BY <1>1, <1>2 DEF JumpsFit
<1>6. \A c \in Range(out') : c.op \in {"goto", "unless"} => Resolved(c, out', loop_id_stack_', loop_has_continue_')
  BY <1>1 DEF JumpsFit, Quiet, Resolved
<1> QED BY <1>2, <1>3, <1>4, <1>5, <1>6 DEF JumpsFit

-----------------------------------------------------------------------------
(* The step lemmas: each action of the emitter keeps EmitInv. *)
LEMMA QuietStep ==
    ASSUME NEW l \in Levels, NEW n \in Levels, AtLevel(l), EmitInv, todo # <<>>,
           NEW code \in Seq(Instrs), Quiet(code), NEW tasks, Sequence(tasks), Emit(code, tasks),
           Pending(Head(todo)) \subseteq Range(code) \cup PendingIn(tasks),
           Closed(Range(code) \cup PendingIn(tasks), Code \cup Range(code) \cup PendingIn(tasks)),
           UNCHANGED <<loop_id_stack_, loop_has_continue_>>, errors' = FALSE,
           defer_stack_' = n.scopes, emitting' = n.emit, n.loops = l.loops,
           n.free \subseteq l.free, n.marks \subseteq l.marks, Fit(tasks \o Tail(todo), n)
    PROVE  EmitInv'
<1>1. Sequence(todo)
  BY DEF AtLevel, Fit
<1>2. Closed(Code', Code') /\ out' \in Seq(Instrs) /\ Range(out') = Range(out) \cup Range(code)
  BY <1>1, BracesKept DEF EmitInv
<1>3. out \in Seq(Instrs) /\ out' = out \o code /\ JumpsFit(out, loop_id_stack_, loop_has_continue_)
      /\ todo' = tasks \o Tail(todo)
  BY DEF EmitInv, Written, Emit
<1>4. /\ JumpsFit(out', loop_id_stack_', loop_has_continue_')
      /\ \A k : Label(k, "start") \notin Range(out) => Label(k, "start") \notin Range(out')
  BY <1>3, JumpsKept
<1>5. Written'
  BY <1>2, <1>4 DEF Written
<1>6. AtLevel(n)'
  BY <1>3, <1>4 DEF AtLevel
<1> QED BY <1>5, <1>6 DEF EmitInv

(* Code that is not written, and entries without code. *)
LEMMA NoCode ==
    /\ <<>> \in Seq(Instrs) /\ Quiet(<<>>) /\ Range(<<>>) = {}
    /\ Sequence(<<>>) /\ PendingIn(<<>>) = {}
    /\ \A K : Closed({}, K)
<1>1. Range(<<>>) = {}
  BY DEF Range
<1>2. <<>> \in Seq({})
  OBVIOUS
<1> QED BY <1>1, <1>2 DEF Quiet, PendingIn, Closed, Sequence

LEMMA One ==
    ASSUME NEW x
    PROVE  Sequence(<<x>>) /\ Range(<<x>>) = {x} /\ PendingIn(<<x>>) = Pending(x)
<1>1. Range(<<x>>) = {x}
  BY DEF Range
<1>2. <<x>> \in Seq({x})
  OBVIOUS
<1> QED BY <1>1, <1>2 DEF PendingIn, Sequence

LEMMA Two ==
    ASSUME NEW x, NEW y
    PROVE  /\ Sequence(<<x, y>>) /\ PendingIn(<<x, y>>) = Pending(x) \cup Pending(y)
           /\ \A q : Sequence(q) => <<x, y>> \o q = <<x>> \o (<<y>> \o q)
<1>1. Range(<<x, y>>) = {x, y}
  BY DEF Range
<1>2. <<x, y>> \in Seq({x, y})
  OBVIOUS
<1>3. ASSUME NEW q, Sequence(q) PROVE <<x, y>> \o q = <<x>> \o (<<y>> \o q)
  <2>1. PICK S : q \in Seq(S)
    BY <1>3 DEF Sequence
  <2> DEFINE R == S \cup {x, y}
  <2>2. q \in Seq(R) /\ <<x>> \in Seq(R) /\ <<y>> \in Seq(R)
    BY <2>1
  <2>3. <<x, y>> = <<x>> \o <<y>>
    <3>1. <<x, y>> \in Seq(R) /\ Len(<<x, y>>) = 2 /\ <<x, y>>[1] = x /\ <<x, y>>[2] = y
      OBVIOUS
    <3>2. <<x>> \o <<y>> \in Seq(R) /\ Len(<<x>> \o <<y>>) = 2
          /\ (<<x>> \o <<y>>)[1] = x /\ (<<x>> \o <<y>>)[2] = y
      BY <2>2
    <3>3. ASSUME NEW i \in 1..2 PROVE <<x, y>>[i] = (<<x>> \o <<y>>)[i]
      <4>1. i = 1 \/ i = 2
        OBVIOUS
      <4> QED BY <3>1, <3>2, <4>1
    <3> QED BY <3>1, <3>2, <3>3, SeqEqual
  <2> HIDE DEF R
  <2> QED BY <2>2, <2>3, ConcatAssociative
<1> QED BY <1>1, <1>2, <1>3 DEF PendingIn, Sequence

LEMMA Appended ==
    ASSUME NEW S, NEW q \in Seq(S), NEW x \in S
    PROVE  LET r == Append(q, x)
           IN  /\ r \in Seq(S) /\ r # <<>> /\ Front(r) = q /\ Len(r) = Len(q) + 1 /\ r[Len(r)] = x
               /\ DOMAIN r = 1..Len(q) + 1 /\ DOMAIN q = 1..Len(q) /\ Len(q) \in Nat
               /\ \A i \in 1..Len(q) : r[i] = q[i]
<1> DEFINE r == Append(q, x)
<1>1. /\ r \in Seq(S) /\ r # <<>> /\ Len(r) = Len(q) + 1 /\ r[Len(r)] = x
      /\ DOMAIN r = 1..Len(q) + 1 /\ DOMAIN q = 1..Len(q) /\ Len(q) \in Nat
      /\ \A i \in 1..Len(q) : r[i] = q[i]
  OBVIOUS
<1>2. Front(r) = q
  <2>1. Front(r) = [i \in 1..Len(q) |-> r[i]]
    BY <1>1 DEF Front
  <2>2. q = [i \in 1..Len(q) |-> q[i]]
    BY <1>1
  <2> HIDE DEF r
  <2>3. [i \in 1..Len(q) |-> r[i]] = [i \in 1..Len(q) |-> q[i]]
    BY <1>1
  <2> QED BY <2>1, <2>2, <2>3
<1> QED BY <1>1, <1>2

LEMMA AppendKeeps ==
    ASSUME NEW S, NEW q \in Seq(S), NEW x \in S
    PROVE  \A i \in 1..Len(q) : Append(q, x)[i] = q[i]
BY Appended

(* The same of numbers and of truth values, whose sorts the provers know. *)
Grown(q, x) == Append(q, x)
Unmarked(q) == Append(q, FALSE)

LEMMA GrownNumber ==
    ASSUME NEW q \in Seq(Nat), NEW x \in Nat, NEW r, r = Grown(q, x)
    PROVE  /\ r \in Seq(Nat) /\ r # <<>> /\ Front(r) = q /\ Len(r) = Len(q) + 1 /\ r[Len(r)] = x
           /\ DOMAIN r = 1..Len(q) + 1 /\ DOMAIN q = 1..Len(q) /\ Len(q) \in Nat
           /\ \A i \in 1..Len(q) : r[i] = q[i]
<1>1. /\ r \in Seq(Nat) /\ r # <<>> /\ Len(r) = Len(q) + 1 /\ r[Len(r)] = x
      /\ DOMAIN r = 1..Len(q) + 1 /\ DOMAIN q = 1..Len(q) /\ Len(q) \in Nat
      /\ \A i \in 1..Len(q) : r[i] = q[i]
  BY DEF Grown
<1>2. Front(r) = q
  <2>1. Front(r) = [i \in 1..Len(q) |-> r[i]]
    BY <1>1 DEF Front
  <2>2. q = [i \in 1..Len(q) |-> q[i]]
    BY <1>1
  <2>3. [i \in 1..Len(q) |-> r[i]] = [i \in 1..Len(q) |-> q[i]]
    BY <1>1
  <2> QED BY <2>1, <2>2, <2>3
<1> QED BY <1>1, <1>2

LEMMA GrownTruth ==
    ASSUME NEW q \in Seq(BOOLEAN), NEW r, r = Unmarked(q)
    PROVE  /\ r \in Seq(BOOLEAN) /\ Len(r) = Len(q) + 1
           /\ \A i \in 1..Len(q) : r[i] = q[i]
<1>1. r \in Seq(BOOLEAN) /\ Len(r) = Len(q) + 1
  BY DEF Unmarked
<1>2. \A i \in 1..Len(q) : r[i] = q[i]
  BY DEF Unmarked
<1> QED BY <1>1, <1>2

(* The kind of an entry says which kind of step it makes. *)
LEMMA EntryKinds ==
    ASSUME NEW x, NEW l, NEW m, Entry(x, l, m)
    PROVE  /\ x.t = "block" => BlockEntry(x, l, m)
           /\ x.t = "rest" => RestEntry(x, l, m)
           /\ x.t = "close" => CloseEntry(x, l, m)
           /\ x.t = "stmt" => StmtEntry(x, l, m)
           /\ x.t = "code" => CodeEntry(x, l, m)
           /\ x.t = "deferred" => DeferredEntry(x, l, m)
           /\ x.t = "leave" => LeaveEntry(x, l, m)
           /\ x.t = "unwind" => UnwindEntry(x, l, m)
           /\ x.t = "iferr" => IfErrEntry(x, l, m)
           /\ x.t = "loopend" => LoopEndEntry(x, l, m)
           /\ x.t = "prong" => ProngEntry(x, l, m)
BY DEF Entry, BlockEntry, RestEntry, CloseEntry, StmtEntry, CodeEntry, DeferredEntry, Deferrable,
       LeaveEntry, UnwindEntry, IfErrEntry, LoopEndEntry, ProngEntry

LEMMA LevelParts ==
    ASSUME NEW l \in Levels
    PROVE  /\ l.scopes \in Seq(DeferScopes) /\ l.loops \in Seq(0..MaxLoopIds) /\ l.emit \in Seq(Nat)
           /\ l.free \in SUBSET LoopNumbers /\ l.marks \in SUBSET Nat
           /\ Distinct(l.loops) /\ Distinct(l.emit) /\ l.free \cap Range(l.loops) = {}
BY DEF Levels

LEMMA WithScopes ==
    ASSUME NEW l \in Levels, NEW s \in Seq(DeferScopes)
    PROVE  \E n \in Levels : n.scopes = s /\ n.loops = l.loops /\ n.emit = l.emit
                              /\ n.free = l.free /\ n.marks = l.marks
<1> DEFINE n == [scopes |-> s, loops |-> l.loops, emit |-> l.emit, free |-> l.free, marks |-> l.marks]
<1>1. /\ l.loops \in Seq(0..MaxLoopIds) /\ l.emit \in Seq(Nat)
      /\ l.free \in SUBSET LoopNumbers /\ l.marks \in SUBSET Nat
      /\ Distinct(l.loops) /\ Distinct(l.emit) /\ l.free \cap Range(l.loops) = {}
  BY LevelParts
<1>2. n \in Levels
  BY <1>1 DEF Levels
<1> QED BY <1>2

LEMMA WithEmit ==
    ASSUME NEW l \in Levels, NEW e \in Seq(Nat), Distinct(e)
    PROVE  \E n \in Levels : n.scopes = l.scopes /\ n.loops = l.loops /\ n.emit = e
                              /\ n.free = l.free /\ n.marks = l.marks
<1> DEFINE n == [scopes |-> l.scopes, loops |-> l.loops, emit |-> e, free |-> l.free, marks |-> l.marks]
<1>1. /\ l.scopes \in Seq(DeferScopes) /\ l.loops \in Seq(0..MaxLoopIds)
      /\ l.free \in SUBSET LoopNumbers /\ l.marks \in SUBSET Nat
      /\ Distinct(l.loops) /\ l.free \cap Range(l.loops) = {}
  BY LevelParts
<1>2. n \in Levels
  BY <1>1 DEF Levels
<1> QED BY <1>2

(* The same stacks with fewer loops free, or with more marks. *)
LEMMA WithFree ==
    ASSUME NEW l \in Levels, NEW f, f \subseteq l.free, NEW k \in SUBSET Nat
    PROVE  \E n \in Levels : n.scopes = l.scopes /\ n.loops = l.loops /\ n.emit = l.emit
                              /\ n.free = f /\ n.marks = k
<1> DEFINE n == [scopes |-> l.scopes, loops |-> l.loops, emit |-> l.emit, free |-> f, marks |-> k]
<1>1. /\ l.scopes \in Seq(DeferScopes) /\ l.loops \in Seq(0..MaxLoopIds) /\ l.emit \in Seq(Nat)
      /\ f \in SUBSET LoopNumbers
      /\ Distinct(l.loops) /\ Distinct(l.emit) /\ f \cap Range(l.loops) = {}
  BY LevelParts
<1>2. n \in Levels
  BY <1>1 DEF Levels
<1> QED BY <1>2

LEMMA WithMarks ==
    ASSUME NEW l \in Levels, NEW k \in SUBSET Nat
    PROVE  \E n \in Levels : n.scopes = l.scopes /\ n.loops = l.loops /\ n.emit = l.emit
                              /\ n.free = l.free /\ n.marks = k
<1>1. l.free \subseteq l.free
  OBVIOUS
<1> QED BY <1>1, WithFree

(* The level an action starts from and the one behind its entry. *)
LEMMA StepStarts ==
    ASSUME EmitInv, todo # <<>>
    PROVE  \E l, m \in Levels :
             /\ AtLevel(l) /\ Fit(Tail(todo), m) /\ Entry(Head(todo), l, m)
             /\ Sequence(Tail(todo))
BY NextEntry DEF EmitInv, Fit

LEMMA emitBlockFits ==
    ASSUME EmitInv, emitBlock
    PROVE  EmitInv'
<1> DEFINE x == Head(todo)
           scope == [label_id |-> x.label, defers |-> <<>>, err_defers |-> <<>>]
           rest == RestTask(x.b)
<1>1. todo # <<>> /\ x.t = "block" /\ defer_stack_' = Append(defer_stack_, scope)
      /\ Emit(<<>>, <<rest>>) /\ UNCHANGED <<loop_id_stack_, loop_has_continue_, emitting, errors>>
  BY DEF emitBlock, Emitting, Now
<1> HIDE DEF x
<1>2. PICK l, m \in Levels : /\ AtLevel(l) /\ Fit(Tail(todo), m) /\ Entry(x, l, m)
             /\ Sequence(Tail(todo))
  BY <1>1, StepStarts DEF x
<1>3. BlockEntry(x, l, m)
  BY <1>1, <1>2, EntryKinds
<1>4. scope \in DeferScopes
  BY <1>3, LevelParts, DeferConstants DEF BlockEntry, DeferScopes, Range
<1> HIDE DEF scope
<1>5. Append(l.scopes, scope) \in Seq(DeferScopes)
  BY <1>4, LevelParts
<1>6. PICK n \in Levels : n.scopes = Append(l.scopes, scope) /\ n.loops = l.loops /\ n.emit = l.emit
                          /\ n.free = l.free /\ n.marks = l.marks
  BY <1>5, WithScopes
<1>7. /\ n.scopes # <<>> /\ Front(n.scopes) = l.scopes /\ n.scopes[Len(n.scopes)] = scope
      /\ DOMAIN n.scopes = 1..Len(l.scopes) + 1 /\ DOMAIN l.scopes = 1..Len(l.scopes)
      /\ (\A i \in 1..Len(l.scopes) : n.scopes[i] = l.scopes[i]) /\ n.scopes[Len(l.scopes) + 1] = scope
  <2>1. l.scopes \in Seq(DeferScopes)
    BY LevelParts
  <2> QED BY <1>4, <1>6, <2>1, Appended
<1>8. Open(l) \cup ({x.label} \cap Range(l.loops)) = Open(n)
  <2>1. scope.label_id = x.label
    BY DEF scope
  <2>2. \A i \in DOMAIN n.scopes : \/ i \in DOMAIN l.scopes /\ n.scopes[i] = l.scopes[i]
                                   \/ n.scopes[i] = scope
    <3> DEFINE k == Len(l.scopes)
    <3>0. l.scopes \in Seq(DeferScopes)
      BY LevelParts
    <3>2. k \in Nat
      BY <3>0
    <3> HIDE DEF k
    <3>3. \A i \in 1..k + 1 : i \in 1..k \/ i = k + 1
      BY <3>2
    <3>1. \A i \in 1..Len(l.scopes) + 1 : i \in 1..Len(l.scopes) \/ i = Len(l.scopes) + 1
      BY <3>3 DEF k
    <3> QED BY <1>7, <3>1
  <2>3. \A i \in DOMAIN l.scopes : i \in DOMAIN n.scopes /\ n.scopes[i] = l.scopes[i]
    BY <1>7, LevelParts
  <2>4. Len(l.scopes) + 1 \in DOMAIN n.scopes /\ n.scopes[Len(l.scopes) + 1] = scope
    BY <1>7, LevelParts
  <2> QED BY <1>6, <2>1, <2>2, <2>3, <2>4 DEF Open
<1>9. Entry(rest, n, m)
  <2>1. Len(scope.defers) = 0 /\ Len(scope.err_defers) = 0 /\ Range(scope.defers) = {}
    BY DEF scope, Range
  <2>2. x.b \in Seq(Statements) /\ DeferCount(x.b) \in Int /\ DeferCount(x.b) <= MaxDefers
    BY <1>3, CountType DEF BlockEntry, FineBlock
  <2>3. FineBlock(x.b, Open(n), n.free, n.emit)
    BY <1>3, <1>6, <1>8 DEF BlockEntry
  <2>4. Closes(n, m) /\ Uses(n, m, Owned(x.b))
    BY <1>3, <1>6, <1>7 DEF BlockEntry, Closes, Stays, Uses
  <2>5. 0 + 0 + DeferCount(x.b) <= MaxDefers
    BY <2>2, DeferConstants
  <2>6. RestEntry(rest, n, m)
    <3>1. rest.t = "rest" /\ rest.b = x.b
      BY DEF RestTask
    <3> HIDE DEF rest
    <3> QED BY <1>7, <2>1, <2>3, <2>4, <2>5, <3>1 DEF RestEntry
  <2> QED BY <2>6 DEF Entry
<1>10. Fit(<<rest>> \o Tail(todo), n)
  BY <1>2, <1>9, FitPush
<1>11. Pending(x) = {} /\ PendingIn(<<rest>>) = {} /\ Sequence(<<rest>>)
  <2>1. Pending(rest) = {}
    BY DEF Pending, RestTask
  <2>2. Pending(x) = {}
    BY <1>1 DEF Pending
  <2> QED BY <2>1, <2>2, One
<1>12. defer_stack_' = n.scopes /\ emitting' = n.emit
  BY <1>1, <1>2, <1>6 DEF AtLevel
<1>13. errors' = FALSE
  BY <1>1 DEF EmitInv
<1> HIDE DEF rest
<1> QED BY <1>1, <1>2, <1>6, <1>10, <1>11, <1>12, <1>13, NoCode, QuietStep DEF x

(* An action that writes nothing. *)
LEMMA SilentStep ==
    ASSUME NEW l \in Levels, NEW n \in Levels, AtLevel(l), EmitInv, todo # <<>>,
           NEW tasks, Sequence(tasks), Emit(<<>>, tasks),
           Pending(Head(todo)) = {}, PendingIn(tasks) = {},
           UNCHANGED <<loop_id_stack_, loop_has_continue_>>, errors' = FALSE,
           defer_stack_' = n.scopes, emitting' = n.emit, n.loops = l.loops,
           n.free \subseteq l.free, n.marks \subseteq l.marks, Fit(tasks \o Tail(todo), n)
    PROVE  EmitInv'
BY NoCode, QuietStep

LEMMA FineMore ==
    ASSUME NEW b, NEW open, NEW free, NEW emit, NEW more, FineBlock(b, open, free, emit),
           Owned(b) \subseteq more
    PROVE  FineBlock(b, open, more, emit)
BY DEF FineBlock, Fine, Owned

(* One element of a sequence is changed. *)
LEMMA Changed ==
    ASSUME NEW S, NEW q \in Seq(S), NEW k \in 1..Len(q), NEW x \in S
    PROVE  LET r == [q EXCEPT ![k] = x]
           IN  /\ r \in Seq(S) /\ Len(r) = Len(q) /\ DOMAIN r = 1..Len(q)
               /\ r[k] = x /\ \A i \in 1..Len(q) : i # k => r[i] = q[i]
OBVIOUS

LEMMA RoomLeft ==
    ASSUME NEW p \in Nat, NEW q \in Nat, NEW c \in Nat, NEW t \in Nat, p + q + c <= MaxDefers, t + 1 <= c,
           NEW g, NEW h, g + h = p + q + 1
    PROVE  ~(p + q >= MaxDefers) /\ g + h + t <= MaxDefers
BY DeferConstants

LEMMA CollectDeferFits ==
    ASSUME EmitInv, CollectDefer
    PROVE  EmitInv'
<1> DEFINE x == Head(todo)
           s == Head(x.b)
           rest == RestTask(Tail(x.b))
           k == Len(defer_stack_)
           top == defer_stack_[k]
           grown == IF s.k = "defer" THEN [top EXCEPT !.defers = Append(@, s)]
                    ELSE [top EXCEPT !.err_defers = Append(@, s)]
<1>1. /\ todo # <<>> /\ x.t = "rest" /\ x.b # <<>> /\ Deferred(s)
      /\ errors' = (errors \/ Len(top.defers) + Len(top.err_defers) >= MaxDefers)
      /\ defer_stack_' = IF s.k = "defer"
                THEN [defer_stack_ EXCEPT ![k].defers = Append(@, s)]
                ELSE [defer_stack_ EXCEPT ![k].err_defers = Append(@, s)]
      /\ Emit(<<>>, <<rest>>) /\ UNCHANGED <<loop_id_stack_, loop_has_continue_, emitting>>
  BY DEF CollectDefer, Emitting, Now, Scope
<1> HIDE DEF x
<1>2. PICK l, m \in Levels : /\ AtLevel(l) /\ Fit(Tail(todo), m) /\ Entry(x, l, m)
             /\ Sequence(Tail(todo))
  BY <1>1, StepStarts DEF x
<1>3. RestEntry(x, l, m)
  BY <1>1, <1>2, EntryKinds
<1>4. l.scopes = defer_stack_ /\ l.emit = emitting /\ defer_stack_ \in Seq(DeferScopes) /\ defer_stack_ # <<>>
  BY <1>2, <1>3, LevelParts DEF AtLevel, RestEntry, Closes
<1>5. k \in Nat /\ k > 0 /\ k \in DOMAIN defer_stack_ /\ DOMAIN defer_stack_ = 1..k /\ top \in DeferScopes
  BY <1>4
<1>6. /\ Fine(s, Open(l), l.free, l.emit) /\ FineBlock(Tail(x.b), Open(l), l.free \ LoopIds(s), l.emit)
      /\ x.b \in Seq(Statements)
  BY <1>1, <1>3, TailFine DEF RestEntry, FineBlock
<1>7. s \in Kept
  BY <1>1, <1>6 DEF Kept, Fine
<1>8. /\ grown \in DeferScopes /\ grown.label_id = top.label_id
      /\ Len(grown.defers) + Len(grown.err_defers) = Len(top.defers) + Len(top.err_defers) + 1
      /\ Len(top.defers) \in Nat /\ Len(top.err_defers) \in Nat
      /\ \A d \in Range(grown.defers) : d \in Range(top.defers) \/ d = s
  <2>1. /\ top.defers \in Seq(Kept) /\ top.err_defers \in Seq(Kept) /\ top.label_id \in -1..MaxLoopIds
        /\ top = [label_id |-> top.label_id, defers |-> top.defers, err_defers |-> top.err_defers]
    BY <1>5 DEF DeferScopes
  <2>2. ASSUME NEW q \in Seq(Kept)
        PROVE  /\ Append(q, s) \in Seq(Kept) /\ Len(Append(q, s)) = Len(q) + 1 /\ Len(q) \in Nat
               /\ \A d \in Range(Append(q, s)) : d \in Range(q) \/ d = s
    <3>1. /\ Append(q, s) \in Seq(Kept) /\ Len(Append(q, s)) = Len(q) + 1 /\ Len(q) \in Nat
          /\ DOMAIN Append(q, s) = 1..Len(q) + 1 /\ DOMAIN q = 1..Len(q)
          /\ Append(q, s)[Len(q) + 1] = s /\ \A i \in 1..Len(q) : Append(q, s)[i] = q[i]
      BY <1>7
    <3> DEFINE r == Append(q, s)
    <3> HIDE DEF r
    <3>2. \A d \in Range(r) : d \in Range(q) \/ d = s
      BY <3>1 DEF Range, r
    <3> QED BY <3>1, <3>2 DEF r
  <2> HIDE DEF top, s
  <2>3. CASE s.k = "defer"
    <3>1. grown = [label_id |-> top.label_id, defers |-> Append(top.defers, s), err_defers |-> top.err_defers]
      BY <2>1, <2>3
    <3>2. grown.label_id = top.label_id /\ grown.defers = Append(top.defers, s) /\ grown.err_defers = top.err_defers
      BY <3>1
    <3>3. grown \in DeferScopes
      BY <2>1, <2>2, <3>1 DEF DeferScopes
    <3> HIDE DEF grown
    <3> QED BY <2>1, <2>2, <3>2, <3>3
  <2>4. CASE s.k # "defer"
    <3>1. grown = [label_id |-> top.label_id, defers |-> top.defers, err_defers |-> Append(top.err_defers, s)]
      BY <2>1, <2>4
    <3>2. grown.label_id = top.label_id /\ grown.defers = top.defers /\ grown.err_defers = Append(top.err_defers, s)
      BY <3>1
    <3>3. grown \in DeferScopes
      BY <2>1, <2>2, <3>1 DEF DeferScopes
    <3> HIDE DEF grown
    <3> QED BY <2>1, <2>2, <3>2, <3>3
  <2> QED BY <2>3, <2>4
<1>9. defer_stack_' = [defer_stack_ EXCEPT ![k] = grown]
  <2>1. CASE s.k = "defer"
    <3>1. defer_stack_' = [defer_stack_ EXCEPT ![k].defers = Append(@, s)] /\ grown = [top EXCEPT !.defers = Append(@, s)]
      BY <1>1, <2>1
    <3> QED BY <1>4, <1>5, <3>1
  <2>2. CASE s.k # "defer"
    <3>1. defer_stack_' = [defer_stack_ EXCEPT ![k].err_defers = Append(@, s)] /\ grown = [top EXCEPT !.err_defers = Append(@, s)]
      BY <1>1, <2>2
    <3> QED BY <1>4, <1>5, <3>1
  <2> QED BY <2>1, <2>2
<1> HIDE DEF grown
<1>10. /\ defer_stack_' \in Seq(DeferScopes) /\ Len(defer_stack_') = k /\ DOMAIN defer_stack_' = 1..k
       /\ defer_stack_'[k] = grown /\ \A i \in 1..k - 1 : defer_stack_'[i] = defer_stack_[i]
  <2>1. k \in 1..Len(defer_stack_) /\ k - 1 \in Nat
    BY <1>5
  <2> HIDE DEF top
  <2>2. /\ [defer_stack_ EXCEPT ![k] = grown] \in Seq(DeferScopes)
        /\ Len([defer_stack_ EXCEPT ![k] = grown]) = k /\ DOMAIN [defer_stack_ EXCEPT ![k] = grown] = 1..k
        /\ [defer_stack_ EXCEPT ![k] = grown][k] = grown
        /\ \A i \in 1..k : i # k => [defer_stack_ EXCEPT ![k] = grown][i] = defer_stack_[i]
    BY <1>4, <1>8, <2>1, Changed
  <2> HIDE DEF k
  <2>3. \A i \in 1..k - 1 : i \in 1..k /\ i # k
    BY <1>5
  <2> QED BY <1>9, <2>2, <2>3 DEF k
<1>11. Front(defer_stack_') = Front(defer_stack_)
  <2>1. Front(defer_stack_') = [i \in 1..k - 1 |-> defer_stack_'[i]]
    BY <1>10 DEF Front
  <2>2. Front(defer_stack_) = [i \in 1..k - 1 |-> defer_stack_[i]]
    BY <1>4 DEF Front
  <2>3. [i \in 1..k - 1 |-> defer_stack_'[i]] = [i \in 1..k - 1 |-> defer_stack_[i]]
    BY <1>10
  <2> QED BY <2>1, <2>2, <2>3
<1>12. PICK n \in Levels : n.scopes = defer_stack_' /\ n.loops = l.loops /\ n.emit = l.emit
                          /\ n.free = l.free /\ n.marks = l.marks
  BY <1>10, WithScopes
<1>13. Open(n) = Open(l)
  <2>1. \A i \in 1..k : defer_stack_'[i].label_id = defer_stack_[i].label_id
    <3> SUFFICES ASSUME NEW i \in 1..k PROVE defer_stack_'[i].label_id = defer_stack_[i].label_id
      OBVIOUS
    <3>1. CASE i = k
      BY <1>8, <1>10, <3>1
    <3>2. CASE i # k
      <4>1. i \in 1..k - 1
        <5> HIDE DEF k
        <5> QED BY <1>5, <3>2
      <4> QED BY <1>10, <4>1
    <3> QED BY <3>1, <3>2
  <2> QED BY <1>4, <1>5, <1>10, <1>12, <2>1 DEF Open
<1>14. /\ Owned(Tail(x.b)) \subseteq Owned(x.b)
       /\ DeferCount(x.b) \in Nat /\ DeferCount(Tail(x.b)) \in Nat /\ DeferCount(Tail(x.b)) + 1 <= DeferCount(x.b)
  BY <1>1, <1>6, BlockSplits, CountTail
<1>15. Owned(Tail(x.b)) \subseteq l.free
  BY <1>6 DEF FineBlock, Fine, Owned
<1>16. FineBlock(Tail(x.b), Open(n), n.free, n.emit)
  BY <1>6, <1>12, <1>13, <1>15, FineMore
<1>17. Closes(n, m) /\ Uses(n, m, Owned(Tail(x.b)))
  <2>1. Closes(n, m)
    BY <1>3, <1>4, <1>5, <1>10, <1>11, <1>12 DEF RestEntry, Closes
  <2> QED BY <1>3, <1>12, <1>14, <2>1 DEF RestEntry, Uses
<1>18. Len(top.defers) + Len(top.err_defers) + DeferCount(x.b) <= MaxDefers
  BY <1>3, <1>4 DEF RestEntry
<1>19. Entry(rest, n, m)
  <2>1. n.scopes[Len(n.scopes)] = grown
    BY <1>10, <1>12
  <2>2. Len(grown.defers) + Len(grown.err_defers) + DeferCount(Tail(x.b)) <= MaxDefers
    BY <1>8, <1>14, <1>18, RoomLeft
  <2>3. \A d \in Range(grown.defers) : Numbers(d) \cap Range(n.emit) = {}
    <3>1. Numbers(s) \cap Range(l.emit) = {}
      BY <1>6 DEF Fine
    <3>2. \A d \in Range(top.defers) : Numbers(d) \cap Range(l.emit) = {}
      BY <1>3, <1>4 DEF RestEntry
    <3> QED BY <1>8, <1>12, <3>1, <3>2
  <2>4. rest.t = "rest" /\ rest.b = Tail(x.b)
    BY DEF RestTask
  <2> HIDE DEF rest
  <2> QED BY <1>16, <1>17, <2>1, <2>2, <2>3, <2>4 DEF RestEntry, Entry
<1>20. errors' = FALSE
  <2>1. ~(Len(top.defers) + Len(top.err_defers) >= MaxDefers)
    BY <1>8, <1>14, <1>18, RoomLeft
  <2> QED BY <1>1, <2>1 DEF EmitInv
<1>21. Fit(<<rest>> \o Tail(todo), n)
  BY <1>2, <1>19, FitPush
<1>22. Pending(x) = {} /\ PendingIn(<<rest>>) = {} /\ Sequence(<<rest>>)
  <2>1. Pending(rest) = {}
    BY DEF Pending, RestTask
  <2>2. Pending(x) = {}
    BY <1>1 DEF Pending
  <2> QED BY <2>1, <2>2, One
<1>23. emitting' = n.emit
  BY <1>1, <1>4, <1>12
<1> HIDE DEF rest
<1> QED BY <1>1, <1>2, <1>12, <1>20, <1>21, <1>22, <1>23, SilentStep DEF x

LEMMA TwoTasks ==
    ASSUME NEW x, NEW y, Pending(x) = {}, Pending(y) = {}
    PROVE  Sequence(<<x, y>>) /\ PendingIn(<<x, y>>) = {}
<1>1. PendingIn(<<x, y>>) = Pending(x) \cup Pending(y) /\ Sequence(<<x, y>>)
  BY Two
<1> QED BY <1>1

LEMMA TwoFit ==
    ASSUME NEW x, NEW y, NEW q, NEW l \in Levels, NEW n \in Levels, NEW m \in Levels,
           Fit(q, m), Entry(y, n, m), Entry(x, l, n)
    PROVE  Fit(<<x, y>> \o q, l)
<1>1. Fit(<<y>> \o q, n)
  BY FitPush
<1>2. Fit(<<x>> \o (<<y>> \o q), l)
  BY <1>1, FitPush
<1>3. <<x, y>> \o q = <<x>> \o (<<y>> \o q)
  <2>1. Sequence(q)
    BY DEF Fit
  <2> QED BY <2>1, Two
<1> QED BY <1>2, <1>3

LEMMA RoomKept ==
    ASSUME NEW p \in Nat, NEW q \in Nat, NEW c \in Nat, NEW t \in Nat, p + q + c <= MaxDefers, t <= c
    PROVE  p + q + t <= MaxDefers
BY DeferConstants

LEMMA BlockStatementFits ==
    ASSUME EmitInv, BlockStatement
    PROVE  EmitInv'
<1> DEFINE x == Head(todo)
           s == Head(x.b)
           first == StmtTask(s)
           rest == IF allPathsExit[s] THEN CloseTask ELSE RestTask(Tail(x.b))
<1>1. /\ todo # <<>> /\ x.t = "rest" /\ x.b # <<>>
      /\ Emit(<<>>, <<first, rest>>)
      /\ UNCHANGED <<defer_stack_, loop_id_stack_, loop_has_continue_, emitting, errors>>
  BY DEF BlockStatement, Emitting, Now
<1> HIDE DEF x
<1>2. PICK l, m \in Levels : /\ AtLevel(l) /\ Fit(Tail(todo), m) /\ Entry(x, l, m)
             /\ Sequence(Tail(todo))
  BY <1>1, StepStarts DEF x
<1>3. RestEntry(x, l, m)
  BY <1>1, <1>2, EntryKinds
<1>4. /\ Fine(s, Open(l), l.free, l.emit) /\ FineBlock(Tail(x.b), Open(l), l.free \ LoopIds(s), l.emit)
      /\ x.b \in Seq(Statements)
  BY <1>1, <1>3, TailFine DEF RestEntry, FineBlock
<1> DEFINE free == l.free \ LoopIds(s)
<1>5. free \subseteq l.free /\ l.marks \in SUBSET Nat
  BY LevelParts
<1> HIDE DEF free
<1>6. PICK n \in Levels : n.scopes = l.scopes /\ n.loops = l.loops /\ n.emit = l.emit
                          /\ n.free = l.free \ LoopIds(s) /\ n.marks = l.marks
  <2>1. \E n \in Levels : n.scopes = l.scopes /\ n.loops = l.loops /\ n.emit = l.emit
                          /\ n.free = free /\ n.marks = l.marks
    BY <1>5, WithFree
  <2> QED BY <2>1 DEF free
<1>7. Open(n) = Open(l)
  BY <1>6 DEF Open
<1>8. Entry(first, l, n)
  <2>1. first.t = "stmt" /\ first.s = s
    BY DEF StmtTask
  <2> HIDE DEF first
  <2> QED BY <1>4, <1>6, <2>1 DEF StmtEntry, Entry, Stays, Uses
<1>9. /\ Owned(x.b) = LoopIds(s) \cup Owned(Tail(x.b))
      /\ DeferCount(x.b) \in Nat /\ DeferCount(Tail(x.b)) \in Nat /\ DeferCount(Tail(x.b)) <= DeferCount(x.b)
  BY <1>1, <1>4, BlockSplits, CountTail
<1>10. Closes(n, m) /\ Uses(n, m, Owned(Tail(x.b))) /\ Uses(n, m, {})
  BY <1>3, <1>6, <1>9 DEF RestEntry, Closes, Uses
<1>11. Entry(rest, n, m)
  <2>1. CASE allPathsExit[s]
    <3>1. rest = CloseTask
      BY <2>1
    <3> HIDE DEF rest
    <3>2. rest.t = "close"
      BY <3>1 DEF CloseTask
    <3> QED BY <1>10, <3>2 DEF CloseEntry, Entry
  <2>2. CASE ~allPathsExit[s]
    <3>1. rest = RestTask(Tail(x.b))
      BY <2>2
    <3> HIDE DEF rest
    <3>2. rest.t = "rest" /\ rest.b = Tail(x.b)
      BY <3>1 DEF RestTask
    <3>3. LET top == n.scopes[Len(n.scopes)]
          IN  /\ Len(top.defers) + Len(top.err_defers) + DeferCount(Tail(x.b)) <= MaxDefers
              /\ \A d \in Range(top.defers) : Numbers(d) \cap Range(n.emit) = {}
      <4> DEFINE top == l.scopes[Len(l.scopes)]
      <4>1. Len(top.defers) + Len(top.err_defers) + DeferCount(x.b) <= MaxDefers
        BY <1>3 DEF RestEntry
      <4>2. Len(top.defers) \in Nat /\ Len(top.err_defers) \in Nat
        <5>1. top \in DeferScopes
          BY <1>3, LevelParts DEF RestEntry, Closes
        <5> HIDE DEF top
        <5> QED BY <5>1 DEF DeferScopes
      <4>3. Len(top.defers) + Len(top.err_defers) + DeferCount(Tail(x.b)) <= MaxDefers
        <5> HIDE DEF top
        <5> QED BY <1>9, <4>1, <4>2, RoomKept
      <4> QED BY <1>3, <1>6, <4>3 DEF RestEntry
    <3> QED BY <1>4, <1>6, <1>7, <1>10, <3>2, <3>3 DEF RestEntry, Entry
  <2> QED BY <2>1, <2>2
<1>12. Fit(<<first, rest>> \o Tail(todo), l)
  <2> HIDE DEF first, rest
  <2> QED BY <1>2, <1>8, <1>11, TwoFit
<1>13. Pending(x) = {} /\ PendingIn(<<first, rest>>) = {} /\ Sequence(<<first, rest>>)
  <2>1. Pending(first) = {} /\ Pending(rest) = {}
    BY DEF Pending, RestTask, CloseTask, StmtTask
  <2>2. Pending(x) = {}
    BY <1>1 DEF Pending
  <2> HIDE DEF first, rest
  <2> QED BY <2>1, <2>2, TwoTasks
<1>14. errors' = FALSE /\ defer_stack_' = l.scopes /\ emitting' = l.emit
  BY <1>1, <1>2 DEF EmitInv, AtLevel
<1> HIDE DEF first, rest
<1> QED BY <1>1, <1>2, <1>12, <1>13, <1>14, SilentStep DEF x

(* Deferred statements, last one first, before what fits. *)
LEMMA DeferredFit ==
    ASSUME NEW q, NEW l \in Levels, Fit(q, l), NEW ds \in Seq(Kept),
           \A d \in Range(ds) : Numbers(d) \cap Range(l.emit) = {}
    PROVE  /\ Fit(InReverse(ds) \o q, l)
           /\ Sequence(InReverse(ds)) /\ PendingIn(InReverse(ds)) = {}
           /\ \A i \in DOMAIN InReverse(ds) : Deferrable(InReverse(ds)[i], l.emit)
<1> DEFINE r == InReverse(ds)
           Tasks == {DeferredTask(d) : d \in Range(ds)}
<1>1. Len(ds) \in Nat /\ DOMAIN ds = 1..Len(ds) /\ \A i \in 1..Len(ds) : ds[i] \in Kept
  OBVIOUS
<1>2. r \in Seq(Tasks)
  <2>1. \A i \in 1..Len(ds) : Len(ds) + 1 - i \in 1..Len(ds)
    BY <1>1
  <2>2. \A i \in 1..Len(ds) : DeferredTask(ds[Len(ds) + 1 - i]) \in Tasks
    BY <1>1, <2>1 DEF Range
  <2> QED BY <1>1, <2>2 DEF InReverse
<1>3. ASSUME NEW x \in Tasks PROVE Deferrable(x, l.emit) /\ Pending(x) = {} /\ Entry(x, l, l)
  <2>1. PICK d \in Range(ds) : x = DeferredTask(d)
    OBVIOUS
  <2>2. d \in Kept /\ Numbers(d) \cap Range(l.emit) = {}
    BY DEF Range
  <2>3. Deferrable(x, l.emit)
    BY <2>1, <2>2 DEF Deferrable, DeferredTask
  <2>4. Pending(x) = {}
    BY <2>1 DEF Pending, DeferredTask
  <2> QED BY <2>3, <2>4 DEF Entry, DeferredEntry, Stays, Uses
<1> HIDE DEF r, Tasks
<1>4. \A x \in Range(r) : x \in Tasks
  BY <1>2 DEF Range
<1>5. Fit(r \o q, l)
  BY <1>2, <1>3, <1>4, FitSame
<1>6. PendingIn(r) = {}
  BY <1>3, <1>4 DEF PendingIn
<1>7. \A i \in DOMAIN r : Deferrable(r[i], l.emit)
  BY <1>2, <1>3
<1> QED BY <1>2, <1>5, <1>6, <1>7 DEF r, Sequence

(* The deferred statements of a scope are kept ones. *)
LEMMA ScopeKept ==
    ASSUME NEW l \in Levels, NEW i \in 1..Len(l.scopes)
    PROVE  /\ l.scopes[i] \in DeferScopes
           /\ l.scopes[i].defers \in Seq(Kept) /\ l.scopes[i].err_defers \in Seq(Kept)
<1>1. l.scopes[i] \in DeferScopes
  BY LevelParts
<1> DEFINE scope == l.scopes[i]
<1> HIDE DEF scope
<1>2. scope \in DeferScopes => scope.defers \in Seq(Kept) /\ scope.err_defers \in Seq(Kept)
  BY DEF DeferScopes
<1> QED BY <1>1, <1>2 DEF scope

LEMMA BlockFallsThroughFits ==
    ASSUME EmitInv, BlockFallsThrough
    PROVE  EmitInv'
<1> DEFINE x == Head(todo)
           ds == Scope.defers
           tasks == InReverse(ds) \o <<CloseTask>>
<1>1. /\ todo # <<>> /\ x.t = "rest"
      /\ Emit(<<>>, Append(InReverse(ds), CloseTask))
      /\ UNCHANGED <<defer_stack_, loop_id_stack_, loop_has_continue_, emitting, errors>>
  BY DEF BlockFallsThrough, Emitting, Now
<1> HIDE DEF x
<1>2. PICK l, m \in Levels : /\ AtLevel(l) /\ Fit(Tail(todo), m) /\ Entry(x, l, m)
             /\ Sequence(Tail(todo))
  BY <1>1, StepStarts DEF x
<1>3. RestEntry(x, l, m)
  BY <1>1, <1>2, EntryKinds
<1>4. /\ defer_stack_ = l.scopes /\ l.scopes # <<>> /\ ds = l.scopes[Len(l.scopes)].defers
      /\ \A d \in Range(ds) : Numbers(d) \cap Range(l.emit) = {}
  BY <1>2, <1>3 DEF AtLevel, RestEntry, Closes, Scope
<1>5. ds \in Seq(Kept)
  <2>1. Len(l.scopes) \in 1..Len(l.scopes)
    BY <1>4, LevelParts
  <2> HIDE DEF ds
  <2> QED BY <1>4, <2>1, ScopeKept
<1> HIDE DEF ds
<1>6. Entry(CloseTask, l, m)
  BY <1>3 DEF RestEntry, CloseEntry, Entry, CloseTask, Uses
<1>7. Fit(<<CloseTask>> \o Tail(todo), l)
  BY <1>2, <1>6, FitPush
<1>8. /\ Fit(InReverse(ds) \o (<<CloseTask>> \o Tail(todo)), l)
      /\ Sequence(InReverse(ds)) /\ PendingIn(InReverse(ds)) = {}
  BY <1>4, <1>5, <1>7, DeferredFit
<1>9. /\ Append(InReverse(ds), CloseTask) = tasks
      /\ InReverse(ds) \o (<<CloseTask>> \o Tail(todo)) = tasks \o Tail(todo)
  <2>1. PICK S, T : InReverse(ds) \in Seq(S) /\ Tail(todo) \in Seq(T)
    BY <1>2, <1>8 DEF Sequence
  <2> DEFINE R == S \cup T \cup {CloseTask}
             p == InReverse(ds)
             c == CloseTask
  <2>2. p \in Seq(R) /\ Tail(todo) \in Seq(R) /\ c \in R /\ <<c>> \in Seq(R)
    BY <2>1
  <2> HIDE DEF R, p, c
  <2>3. p \o (<<c>> \o Tail(todo)) = (p \o <<c>>) \o Tail(todo)
    BY <2>2, ConcatAssociative
  <2>4. Append(p, c) = p \o <<c>>
    BY <2>2
  <2> QED BY <2>3, <2>4 DEF p, c
<1>10. Sequence(tasks) /\ PendingIn(tasks) = {} /\ Pending(x) = {}
  <2>1. Pending(CloseTask) = {}
    BY DEF Pending, CloseTask
  <2>2. Sequence(<<CloseTask>>) /\ PendingIn(<<CloseTask>>) = {}
    BY <2>1, One
  <2>3. Pending(x) = {}
    BY <1>1 DEF Pending
  <2> QED BY <1>8, <2>2, <2>3, PendingJoined
<1>11. errors' = FALSE /\ defer_stack_' = l.scopes /\ emitting' = l.emit
  BY <1>1, <1>2 DEF EmitInv, AtLevel
<1> HIDE DEF tasks
<1> QED BY <1>1, <1>2, <1>8, <1>9, <1>10, <1>11, SilentStep DEF x

LEMMA NothingAdded ==
    ASSUME NEW q, Sequence(q)
    PROVE  <<>> \o q = q
<1>1. PICK S : q \in Seq(S)
  BY DEF Sequence
<1> QED BY <1>1

(* An action that takes an entry off todo and puts nothing on it. *)
LEMMA PopStep ==
    ASSUME NEW l \in Levels, NEW m \in Levels, AtLevel(l), EmitInv, todo # <<>>,
           Fit(Tail(todo), m), Emit(<<>>, <<>>), Pending(Head(todo)) = {},
           UNCHANGED <<loop_id_stack_, loop_has_continue_>>, errors' = FALSE,
           defer_stack_' = m.scopes, emitting' = m.emit, m.loops = l.loops, Uses(l, m, {})
    PROVE  EmitInv'
<1>1. Fit(<<>> \o Tail(todo), m)
  <2>1. Sequence(Tail(todo))
    BY DEF Fit
  <2>2. <<>> \o Tail(todo) = Tail(todo)
    BY <2>1, NothingAdded
  <2> QED BY <2>2
<1>2. m.free \subseteq l.free /\ m.marks \subseteq l.marks
  BY DEF Uses
<1> QED BY <1>1, <1>2, NoCode, SilentStep

LEMMA CloseBlockFits ==
    ASSUME EmitInv, CloseBlock
    PROVE  EmitInv'
<1> DEFINE x == Head(todo)
<1>1. /\ todo # <<>> /\ x.t = "close" /\ Emit(<<>>, <<>>) /\ defer_stack_' = Front(defer_stack_)
      /\ UNCHANGED <<loop_id_stack_, loop_has_continue_, emitting, errors>>
  BY DEF CloseBlock, Emitting, Now
<1> HIDE DEF x
<1>2. PICK l, m \in Levels : /\ AtLevel(l) /\ Fit(Tail(todo), m) /\ Entry(x, l, m)
             /\ Sequence(Tail(todo))
  BY <1>1, StepStarts DEF x
<1>3. CloseEntry(x, l, m)
  BY <1>1, <1>2, EntryKinds
<1>4. Pending(x) = {}
  BY <1>1 DEF Pending
<1>5. errors' = FALSE /\ defer_stack_' = m.scopes /\ emitting' = m.emit /\ m.loops = l.loops /\ Uses(l, m, {})
  BY <1>1, <1>2, <1>3 DEF EmitInv, AtLevel, CloseEntry, Closes
<1> QED BY <1>1, <1>2, <1>4, <1>5, PopStep DEF x

LEMMA EmitDeferredFits ==
    ASSUME EmitInv, EmitDeferred
    PROVE  EmitInv'
<1> DEFINE x == Head(todo)
           d == x.d
           block == BlockTask(d.body, -1)
           e == Append(emitting, d.n)
<1>1. /\ todo # <<>> /\ x.t = "deferred" /\ Emit(<<>>, <<block, LeaveTask>>) /\ emitting' = e
      /\ UNCHANGED <<defer_stack_, loop_id_stack_, loop_has_continue_, errors>>
  BY DEF EmitDeferred, Emitting, Now
<1> HIDE DEF x
<1>2. PICK l, m \in Levels : /\ AtLevel(l) /\ Fit(Tail(todo), m) /\ Entry(x, l, m)
             /\ Sequence(Tail(todo))
  BY <1>1, StepStarts DEF x
<1>3. d \in Kept /\ Numbers(d) \cap Range(l.emit) = {} /\ Stays(l, m) /\ Uses(l, m, {})
  BY <1>1, <1>2, EntryKinds DEF DeferredEntry, Deferrable
<1>4. d.n \in Nat /\ d.n \in Numbers(d)
  BY <1>3, SelfGathers, DeferConstants DEF Kept, Deferred, StatementTypes
<1>5. emitting = l.emit /\ l.emit \in Seq(Nat) /\ Distinct(l.emit)
  BY <1>2, LevelParts DEF AtLevel
<1>6. e \in Seq(Nat) /\ e # <<>> /\ Front(e) = l.emit /\ Distinct(e)
  <2>1. /\ e \in Seq(Nat) /\ e # <<>> /\ Front(e) = l.emit /\ e[Len(l.emit) + 1] = d.n
        /\ DOMAIN e = 1..Len(l.emit) + 1 /\ DOMAIN l.emit = 1..Len(l.emit) /\ Len(l.emit) \in Nat
        /\ \A i \in 1..Len(l.emit) : e[i] = l.emit[i]
    <3> DEFINE k == d.n
               q == l.emit
               r == Append(q, k)
    <3>1. e = r /\ k \in Nat /\ q \in Seq(Nat)
      BY <1>4, <1>5
    <3> HIDE DEF e, d, k, q
    <3>2. /\ r \in Seq(Nat) /\ r # <<>> /\ Front(r) = q /\ Len(r) = Len(q) + 1 /\ r[Len(r)] = k
          /\ DOMAIN r = 1..Len(q) + 1 /\ DOMAIN q = 1..Len(q) /\ Len(q) \in Nat
          /\ \A i \in 1..Len(q) : r[i] = q[i]
      BY <3>1, Appended
    <3> HIDE DEF r
    <3>3. r[Len(q) + 1] = k
      BY <3>2
    <3>4. /\ e \in Seq(Nat) /\ e # <<>> /\ Front(e) = q /\ e[Len(q) + 1] = k
          /\ DOMAIN e = 1..Len(q) + 1 /\ DOMAIN q = 1..Len(q) /\ Len(q) \in Nat
          /\ \A i \in 1..Len(q) : e[i] = q[i]
      BY <3>1, <3>2, <3>3
    <3> QED BY <3>4 DEF k, q
  <2> HIDE DEF e, d
  <2>2. \A i \in 1..Len(l.emit) : l.emit[i] # d.n
    BY <1>3, <1>4, <2>1 DEF Range
  <2>3. ASSUME NEW i \in DOMAIN e, NEW j \in DOMAIN e, e[i] = e[j] PROVE i = j
    <3>1. i \in 1..Len(l.emit) \/ i = Len(l.emit) + 1
      <4>1. i \in 1..Len(l.emit) + 1 /\ Len(l.emit) \in Nat
        BY <2>1
      <4> QED BY <4>1
    <3>2. j \in 1..Len(l.emit) \/ j = Len(l.emit) + 1
      <4>1. j \in 1..Len(l.emit) + 1 /\ Len(l.emit) \in Nat
        BY <2>1
      <4> QED BY <4>1
    <3> QED BY <1>5, <2>1, <2>2, <2>3, <3>1, <3>2 DEF Distinct
  <2> QED BY <2>1, <2>3 DEF Distinct
<1>7. /\ \A open, free : FineBlock(d.body, open, free, e)
      /\ DeferCount(d.body) <= MaxDefers /\ Owned(d.body) = {}
  BY <1>3, <1>4, <1>5, DeferredFine
<1> HIDE DEF e, d
<1>8. PICK n \in Levels : n.scopes = l.scopes /\ n.loops = l.loops /\ n.emit = e
                              /\ n.free = l.free /\ n.marks = l.marks
  BY <1>6, WithEmit
<1>9. Entry(block, n, n)
  <2>1. block.t = "block" /\ block.b = d.body /\ block.label = -1
    BY DEF BlockTask
  <2> HIDE DEF block
  <2>2. Stays(n, n) /\ Uses(n, n, Owned(block.b))
    BY <1>7, <2>1 DEF Stays, Uses
  <2> QED BY <1>7, <1>8, <2>1, <2>2 DEF BlockEntry, Entry
<1>10. Entry(LeaveTask, n, m)
  <2>1. LeaveTask.t = "leave"
    BY DEF LeaveTask
  <2> QED BY <1>3, <1>6, <1>8, <2>1 DEF LeaveEntry, Entry, Stays, Uses
<1>11. Pending(x) = {} /\ Pending(block) = {} /\ Pending(LeaveTask) = {}
  <2>1. Pending(x) = {}
    BY <1>1 DEF Pending
  <2> QED BY <2>1 DEF Pending, BlockTask, LeaveTask
<1> HIDE DEF block
<1>12. Fit(<<block, LeaveTask>> \o Tail(todo), n)
  BY <1>2, <1>9, <1>10, TwoFit
<1>13. Sequence(<<block, LeaveTask>>) /\ PendingIn(<<block, LeaveTask>>) = {}
  BY <1>11, TwoTasks
<1>14. errors' = FALSE /\ defer_stack_' = n.scopes /\ emitting' = n.emit
  BY <1>1, <1>2, <1>8 DEF EmitInv, AtLevel
<1> QED BY <1>1, <1>2, <1>8, <1>11, <1>12, <1>13, <1>14, SilentStep DEF x

(* No deferred statement is reached while it is being emitted. *)
LEMMA NeverAgain ==
    ASSUME EmitInv, EmitDeferredAgain
    PROVE  FALSE
<1> DEFINE x == Head(todo)
           d == x.d
<1>1. todo # <<>> /\ x.t = "deferred" /\ d.n \in Range(emitting)
  BY DEF EmitDeferredAgain, Emitting, Now
<1> HIDE DEF x
<1>2. PICK l, m \in Levels : AtLevel(l) /\ Entry(x, l, m)
  BY <1>1, StepStarts DEF x
<1>3. d \in Kept /\ Numbers(d) \cap Range(l.emit) = {}
  BY <1>1, <1>2, EntryKinds DEF DeferredEntry, Deferrable
<1>4. d.n \in Numbers(d)
  BY <1>3, SelfGathers DEF Kept
<1>5. emitting = l.emit
  BY <1>2 DEF AtLevel
<1> QED BY <1>1, <1>3, <1>4, <1>5

LEMMA LeaveDeferredFits ==
    ASSUME EmitInv, LeaveDeferred
    PROVE  EmitInv'
<1> DEFINE x == Head(todo)
<1>1. /\ todo # <<>> /\ x.t = "leave" /\ Emit(<<>>, <<>>) /\ emitting' = Front(emitting)
      /\ UNCHANGED <<defer_stack_, loop_id_stack_, loop_has_continue_, errors>>
  BY DEF LeaveDeferred, Emitting, Now
<1> HIDE DEF x
<1>2. PICK l, m \in Levels : /\ AtLevel(l) /\ Fit(Tail(todo), m) /\ Entry(x, l, m)
             /\ Sequence(Tail(todo))
  BY <1>1, StepStarts DEF x
<1>3. LeaveEntry(x, l, m)
  BY <1>1, <1>2, EntryKinds
<1>4. Pending(x) = {}
  BY <1>1 DEF Pending
<1>5. errors' = FALSE /\ defer_stack_' = m.scopes /\ emitting' = m.emit /\ m.loops = l.loops /\ Uses(l, m, {})
  BY <1>1, <1>2, <1>3 DEF EmitInv, AtLevel, LeaveEntry
<1> QED BY <1>1, <1>2, <1>4, <1>5, PopStep DEF x

LEMMA UnwindDoneFits ==
    ASSUME EmitInv, UnwindDone
    PROVE  EmitInv'
<1> DEFINE x == Head(todo)
<1>1. /\ todo # <<>> /\ x.t = "unwind" /\ Emit(<<>>, <<>>)
      /\ UNCHANGED <<defer_stack_, loop_id_stack_, loop_has_continue_, emitting, errors>>
  BY DEF UnwindDone, Emitting, Now
<1> HIDE DEF x
<1>2. PICK l, m \in Levels : /\ AtLevel(l) /\ Fit(Tail(todo), m) /\ Entry(x, l, m)
             /\ Sequence(Tail(todo))
  BY <1>1, StepStarts DEF x
<1>3. UnwindEntry(x, l, m)
  BY <1>1, <1>2, EntryKinds
<1>4. Pending(x) = {}
  BY <1>1 DEF Pending
<1>5. errors' = FALSE /\ defer_stack_' = m.scopes /\ emitting' = m.emit /\ m.loops = l.loops /\ Uses(l, m, {})
  BY <1>1, <1>2, <1>3 DEF EmitInv, AtLevel, UnwindEntry, Stays
<1> QED BY <1>1, <1>2, <1>4, <1>5, PopStep DEF x

(* Named, so that a proof can do without what the provers know of them. *)
Join(a, b) == a \o b
Over(R, a) == a \in Seq(R)

LEMMA JoinAssociative ==
    ASSUME NEW R, NEW a, NEW b, NEW c, Over(R, a), Over(R, b), Over(R, c)
    PROVE  Join(a, Join(b, c)) = Join(Join(a, b), c)
<1>1. a \in Seq(R) /\ b \in Seq(R) /\ c \in Seq(R)
  BY DEF Over
<1>2. (a \o b) \o c = a \o (b \o c)
  BY <1>1, SMT
<1> QED BY <1>2, Zenon DEF Join

LEMMA JoinOver ==
    ASSUME NEW R, NEW a, NEW b, Over(R, a), Over(R, b)
    PROVE  Over(R, Join(a, b))
BY DEF Join, Over

LEMMA Reassociated ==
    ASSUME NEW R, NEW p1, NEW p2, NEW p3, NEW p4,
           Over(R, p1), Over(R, p2), Over(R, p3), Over(R, p4)
    PROVE  Join(p1, Join(p2, Join(p3, p4))) = Join(Join(Join(p1, p2), p3), p4)
<1>2. Over(R, Join(p1, p2)) /\ Over(R, Join(p3, p4))
  BY JoinOver
<1>3. Join(p1, Join(p2, Join(p3, p4))) = Join(Join(p1, p2), Join(p3, p4))
  BY <1>2, JoinAssociative
<1>4. Join(Join(p1, p2), Join(p3, p4)) = Join(Join(Join(p1, p2), p3), p4)
  BY <1>2, JoinAssociative
<1> QED BY <1>3, <1>4

LEMMA ThreeJoined ==
    ASSUME NEW p1, NEW p2, NEW p3, NEW p4, Sequence(p1), Sequence(p2), Sequence(p3), Sequence(p4)
    PROVE  /\ p1 \o (p2 \o (p3 \o p4)) = (p1 \o p2 \o p3) \o p4
           /\ Sequence(p1 \o p2 \o p3) /\ PendingIn(p1 \o p2 \o p3) = PendingIn(p1) \cup PendingIn(p2) \cup PendingIn(p3)
<1>1. PICK S, T, U, V : p1 \in Seq(S) /\ p2 \in Seq(T) /\ p3 \in Seq(U) /\ p4 \in Seq(V)
  BY DEF Sequence
<1> DEFINE R == S \cup T \cup U \cup V
<1>2. p1 \in Seq(R) /\ p2 \in Seq(R) /\ p3 \in Seq(R) /\ p4 \in Seq(R)
  BY <1>1
<1> HIDE DEF R
<1>4. p1 \o (p2 \o (p3 \o p4)) = (p1 \o p2 \o p3) \o p4
  <2>1. Over(R, p1) /\ Over(R, p2) /\ Over(R, p3) /\ Over(R, p4)
    BY <1>2 DEF Over
  <2>2. Join(p1, Join(p2, Join(p3, p4))) = Join(Join(Join(p1, p2), p3), p4)
    BY <2>1, Reassociated
  <2> QED BY <2>2, Zenon DEF Join
<1>6. Sequence(p1 \o p2) /\ PendingIn(p1 \o p2) = PendingIn(p1) \cup PendingIn(p2)
  BY PendingJoined
<1>7. Sequence(p1 \o p2 \o p3) /\ PendingIn(p1 \o p2 \o p3) = PendingIn(p1 \o p2) \cup PendingIn(p3)
  BY <1>6, PendingJoined
<1> QED BY <1>4, <1>6, <1>7

(* An entry that is put on todo in some cases only. *)
LEMMA MaybeFit ==
    ASSUME NEW q, NEW l \in Levels, Fit(q, l), NEW x, NEW c \in BOOLEAN, Pending(x) = {},
           c => Entry(x, l, l)
    PROVE  LET p == IF c THEN <<x>> ELSE <<>>
           IN  Fit(p \o q, l) /\ Sequence(p) /\ PendingIn(p) = {}
<1>1. CASE c
  <2>1. Fit(<<x>> \o q, l)
    BY <1>1, FitPush
  <2>2. Sequence(<<x>>) /\ PendingIn(<<x>>) = {}
    BY One
  <2> QED BY <1>1, <2>1, <2>2
<1>2. CASE ~c
  <2>1. <<>> \o q = q
    BY NothingAdded DEF Fit
  <2> QED BY <1>2, <2>1, NoCode
<1> QED BY <1>1, <1>2

LEMMA emitDefersForScopeExitFits ==
    ASSUME EmitInv, emitDefersForScopeExit
    PROVE  EmitInv'
<1> DEFINE x == Head(todo)
           i == x.i
           scope == defer_stack_[i]
           stop == x.target # -1 /\ defer_stack_[i].label_id = x.target
           c == scope.err_defers # <<>> /\ HasErrFlag
           iferr == IfErrTask(InReverse(scope.err_defers))
           next == UnwindTask(i - 1, x.target)
           p == InReverse(scope.defers)
           q == IF c THEN <<iferr>> ELSE <<>>
           r == IF ~stop THEN <<next>> ELSE <<>>
<1>1. /\ todo # <<>> /\ x.t = "unwind" /\ i > 0
      /\ Emit(<<>>, p \o q \o r)
      /\ UNCHANGED <<defer_stack_, loop_id_stack_, loop_has_continue_, emitting, errors>>
  <2>1. (IF stop THEN <<>> ELSE <<next>>) = r
    OBVIOUS
  <2> QED BY <2>1 DEF emitDefersForScopeExit, Unwound, Emitting, Now
<1> HIDE DEF x
<1>2. PICK l, m \in Levels : /\ AtLevel(l) /\ Fit(Tail(todo), m) /\ Entry(x, l, m)
             /\ Sequence(Tail(todo))
  BY <1>1, StepStarts DEF x
<1>3. i \in 0..Len(l.scopes) /\ l.emit = <<>> /\ Stays(l, m) /\ Uses(l, m, {})
  BY <1>1, <1>2, EntryKinds DEF UnwindEntry
<1>4. m.scopes = defer_stack_ /\ m.emit = emitting /\ m.emit = <<>> /\ m.loops = l.loops
  BY <1>2, <1>3 DEF AtLevel, Stays
<1>5. i \in 1..Len(m.scopes) /\ Len(m.scopes) \in Nat
  BY <1>1, <1>3, LevelParts DEF Stays
<1>6. scope.defers \in Seq(Kept) /\ scope.err_defers \in Seq(Kept)
  BY <1>4, <1>5, ScopeKept
<1>7. Range(m.emit) = {}
  BY <1>4 DEF Range
<1>8. /\ Pending(next) = {} /\ Pending(x) = {} /\ Pending(iferr) = {}
  <2>1. Pending(x) = {}
    BY <1>1 DEF Pending
  <2> QED BY <2>1 DEF Pending, UnwindTask, IfErrTask
<1>9. Entry(next, m, m)
  <2>1. next.t = "unwind" /\ next.i = i - 1
    BY DEF UnwindTask
  <2>2. i - 1 \in 0..Len(m.scopes)
    <3> HIDE DEF i
    <3> QED BY <1>5
  <2> HIDE DEF next
  <2>3. Stays(m, m) /\ Uses(m, m, {})
    BY DEF Stays, Uses
  <2> QED BY <1>4, <2>1, <2>2, <2>3 DEF UnwindEntry, Entry
<1> HIDE DEF i, scope, next, c, stop
<1>10. Fit(r \o Tail(todo), m) /\ Sequence(r) /\ PendingIn(r) = {}
  <2> DEFINE go == ~stop
  <2>1. go \in BOOLEAN
    OBVIOUS
  <2>2. r = IF go THEN <<next>> ELSE <<>>
    OBVIOUS
  <2> HIDE DEF go, r
  <2> QED BY <1>2, <1>8, <1>9, <2>1, <2>2, MaybeFit
<1> HIDE DEF r
<1>11. Entry(iferr, m, m)
  <2> DEFINE ds == InReverse(scope.err_defers)
  <2>1. Sequence(ds) /\ \A k \in DOMAIN ds : Deferrable(ds[k], m.emit)
    BY <1>6, <1>7, <1>10, DeferredFit
  <2>2. iferr.t = "iferr" /\ iferr.ds = ds
    BY DEF IfErrTask
  <2> HIDE DEF iferr, ds
  <2>3. Stays(m, m) /\ Uses(m, m, {})
    BY DEF Stays, Uses
  <2> QED BY <2>1, <2>2, <2>3 DEF IfErrEntry, Entry
<1> HIDE DEF iferr
<1>12. Fit(q \o (r \o Tail(todo)), m) /\ Sequence(q) /\ PendingIn(q) = {}
  <2>1. c \in BOOLEAN
    BY DEF c
  <2> QED BY <1>8, <1>10, <1>11, <2>1, MaybeFit
<1> HIDE DEF q
<1>13. Fit(p \o (q \o (r \o Tail(todo))), m) /\ Sequence(p) /\ PendingIn(p) = {}
  BY <1>6, <1>7, <1>12, DeferredFit
<1> HIDE DEF p
<1>14. p \o (q \o (r \o Tail(todo))) = (p \o q \o r) \o Tail(todo)
  <2> DEFINE t == Tail(todo)
  <2>1. Sequence(p) /\ Sequence(q) /\ Sequence(r) /\ Sequence(t)
    BY <1>2, <1>10, <1>12, <1>13
  <2> HIDE DEF r, t
  <2>2. p \o (q \o (r \o t)) = (p \o q \o r) \o t
    BY <2>1, ThreeJoined
  <2> QED BY <2>2 DEF t
<1>15. Sequence(p \o q \o r) /\ PendingIn(p \o q \o r) = {}
  <2>1. Sequence(p \o q) /\ PendingIn(p \o q) = {}
    BY <1>12, <1>13, PendingJoined
  <2> QED BY <1>10, <2>1, PendingJoined
<1>16. /\ errors' = FALSE /\ defer_stack_' = m.scopes /\ emitting' = m.emit
       /\ m.free \subseteq l.free /\ m.marks \subseteq l.marks
  BY <1>1, <1>3, <1>4 DEF EmitInv, Uses
<1> DEFINE tasks == p \o q \o r
<1>17. Fit(tasks \o Tail(todo), m)
  BY <1>13, <1>14
<1> HIDE DEF tasks
<1> QED BY <1>1, <1>2, <1>4, <1>8, <1>15, <1>16, <1>17, SilentStep DEF x, tasks

-----------------------------------------------------------------------------
(* Statements. *)
LEMMA ThreeTasks ==
    ASSUME NEW x, NEW y, NEW z
    PROVE  Sequence(<<x, y, z>>) /\ PendingIn(<<x, y, z>>) = Pending(x) \cup Pending(y) \cup Pending(z)
<1>1. Range(<<x, y, z>>) = {x, y, z}
  BY DEF Range
<1>2. <<x, y, z>> \in Seq({x, y, z})
  OBVIOUS
<1> QED BY <1>1, <1>2 DEF PendingIn, Sequence

LEMMA Three ==
    ASSUME NEW x, NEW y, NEW z, NEW q, Sequence(q)
    PROVE  Join(<<x, y, z>>, q) = Join(<<x>>, Join(<<y, z>>, q))
<1>1. PICK S : q \in Seq(S)
  BY DEF Sequence
<1> DEFINE R == S \cup {x, y, z}
<1>2. q \in Seq(R) /\ <<x>> \in Seq(R) /\ <<y, z>> \in Seq(R)
  BY <1>1
<1>3. <<x, y, z>> = <<x>> \o <<y, z>>
  <2>1. <<x, y, z>> \in Seq(R) /\ Len(<<x, y, z>>) = 3
        /\ <<x, y, z>>[1] = x /\ <<x, y, z>>[2] = y /\ <<x, y, z>>[3] = z
    OBVIOUS
  <2>2. <<x>> \o <<y, z>> \in Seq(R) /\ Len(<<x>> \o <<y, z>>) = 3
        /\ (<<x>> \o <<y, z>>)[1] = x /\ (<<x>> \o <<y, z>>)[2] = y /\ (<<x>> \o <<y, z>>)[3] = z
    BY <1>2
  <2>3. ASSUME NEW i \in 1..3 PROVE <<x, y, z>>[i] = (<<x>> \o <<y, z>>)[i]
    <3>1. i = 1 \/ i = 2 \/ i = 3
      OBVIOUS
    <3> QED BY <2>1, <2>2, <3>1
  <2> QED BY <2>1, <2>2, <2>3, SeqEqual
<1> HIDE DEF R
<1>4. <<x, y, z>> \o q = <<x>> \o (<<y, z>> \o q)
  BY <1>2, <1>3, ConcatAssociative
<1> QED BY <1>4, Zenon DEF Join

LEMMA ThreeFit ==
    ASSUME NEW x, NEW y, NEW z, NEW rest, NEW k \in Levels, NEW l \in Levels, NEW n \in Levels, NEW m \in Levels,
           Fit(rest, m), Entry(z, n, m), Entry(y, l, n), Entry(x, k, l)
    PROVE  Fit(<<x, y, z>> \o rest, k)
<1>1. Fit(<<y, z>> \o rest, l)
  BY TwoFit
<1>2. Fit(<<x>> \o (<<y, z>> \o rest), k)
  BY <1>1, FitPush
<1>3. <<x, y, z>> \o rest = <<x>> \o (<<y, z>> \o rest)
  <2>1. Sequence(rest)
    BY DEF Fit
  <2>2. Join(<<x, y, z>>, rest) = Join(<<x>>, Join(<<y, z>>, rest))
    BY <2>1, Three
  <2> QED BY <2>2, Zenon DEF Join
<1> QED BY <1>2, <1>3

(* Code that is neither a brace, nor a label, nor a jump. *)
Calm(code) == code \in Seq(Instrs) /\ \A c \in Range(code) : c.op \in {"event", "panic", "value", "flag"}

LEMMA CalmCode ==
    ASSUME NEW code, Calm(code)
    PROVE  code \in Seq(Instrs) /\ Quiet(code) /\ \A K : Closed(Range(code), K)
BY DEF Calm, Quiet, Closed

LEMMA CalmJoined ==
    ASSUME NEW p, NEW q, Calm(p), Calm(q)
    PROVE  Calm(p \o q)
<1>1. p \in Seq(Instrs) /\ q \in Seq(Instrs) /\ p \o q \in Seq(Instrs)
  BY DEF Calm
<1>2. Range(p \o q) = Range(p) \cup Range(q)
  BY <1>1, RangeJoined
<1> QED BY <1>1, <1>2 DEF Calm

LEMMA CalmOne ==
    ASSUME NEW c \in Instrs, c.op \in {"event", "panic", "value", "flag"}
    PROVE  Calm(<<c>>)
<1>1. <<c>> \in Seq(Instrs) /\ Range(<<c>>) = {c}
  BY DEF Range
<1> QED BY <1>1 DEF Calm

LEMMA CalmEvent ==
    ASSUME NEW n \in Nat
    PROVE  Calm(Event(n)) /\ Calm(<<>>)
<1>1. Calm(<<>>)
  BY NoCode DEF Calm
<1> DEFINE c == C("event", n, "")
<1>2. c \in Instrs /\ c.op = "event"
  BY DEF Instrs, C, Ops
<1> HIDE DEF c
<1>3. Calm(<<c>>)
  BY <1>2, CalmOne
<1> QED BY <1>1, <1>3 DEF Event, c

(* What is known when a statement is emitted. *)
LEMMA StmtStarts ==
    ASSUME EmitInv, NEW k, EmittingStmt(k)
    PROVE  /\ todo # <<>> /\ Head(todo).t = "stmt" /\ Head(todo).s.k = k /\ Pending(Head(todo)) = {}
           /\ \E l, m \in Levels :
                /\ AtLevel(l) /\ Fit(Tail(todo), m) /\ Sequence(Tail(todo))
                /\ Fine(Head(todo).s, Open(l), l.free, l.emit) /\ Stays(l, m) /\ Uses(l, m, LoopIds(Head(todo).s))
<1> DEFINE x == Head(todo)
<1>1. todo # <<>> /\ x.t = "stmt" /\ x.s.k = k
  BY DEF EmittingStmt, Emitting
<1> HIDE DEF x
<1>2. PICK l, m \in Levels : /\ AtLevel(l) /\ Fit(Tail(todo), m) /\ Entry(x, l, m)
             /\ Sequence(Tail(todo))
  BY <1>1, StepStarts DEF x
<1>3. StmtEntry(x, l, m)
  BY <1>1, <1>2, EntryKinds
<1>4. Pending(x) = {}
  BY <1>1 DEF Pending
<1> QED BY <1>1, <1>2, <1>3, <1>4 DEF StmtEntry, x

LEMMA FewerUsed ==
    ASSUME NEW l, NEW m, NEW F, NEW G, Uses(l, m, F), G \subseteq F
    PROVE  Uses(l, m, G)
BY DEF Uses

(* A block of a statement that is not a loop is put on todo. *)
LEMMA BlockEntered ==
    ASSUME NEW l \in Levels, NEW m \in Levels, NEW s, NEW b \in Blocks(s), ~Loop(s), NEW F,
           Fine(s, Open(l), F, l.emit), Owned(b) \subseteq l.free, Stays(l, m), Uses(l, m, Owned(b))
    PROVE  Entry(BlockTask(b, -1), l, m) /\ Pending(BlockTask(b, -1)) = {}
<1> DEFINE x == BlockTask(b, -1)
           inner == Open(l) \cup ({-1} \cap Range(l.loops))
<1>1. x.t = "block" /\ x.b = b /\ x.label = -1
  BY DEF BlockTask
<1>2. FineBlock(b, inner, F, l.emit) /\ DeferCount(b) <= MaxDefers
  <2>1. F \ (IF Loop(s) THEN {s.id} ELSE {}) = F
    OBVIOUS
  <2>2. Open(l) \subseteq inner
    OBVIOUS
  <2> HIDE DEF inner
  <2>3. Loop(s) => s.id \in inner
    OBVIOUS
  <2>4. /\ FineBlock(b, inner, F \ (IF Loop(s) THEN {s.id} ELSE {}), l.emit)
        /\ DeferCount(b) <= MaxDefers
    BY <2>2, <2>3, BlockFine, Zenon
  <2> QED BY <2>1, <2>4
<1>3. FineBlock(b, inner, l.free, l.emit)
  BY <1>2, FineMore
<1>4. Pending(x) = {}
  BY <1>1 DEF Pending
<1> HIDE DEF x
<1>5. Entry(x, l, m)
  BY <1>1, <1>2, <1>3 DEF BlockEntry, Entry
<1> QED BY <1>4, <1>5 DEF x

(* Only code is written for the statement. *)
LEMMA CodeOnlyStep ==
    ASSUME NEW l \in Levels, NEW m \in Levels, AtLevel(l), EmitInv, todo # <<>>,
           Fit(Tail(todo), m), NEW code, Calm(code), Emit(code, <<>>), Pending(Head(todo)) = {},
           UNCHANGED <<defer_stack_, loop_id_stack_, loop_has_continue_, emitting, errors>>,
           Stays(l, m), NEW F, Uses(l, m, F)
    PROVE  EmitInv'
<1>1. Fit(<<>> \o Tail(todo), m)
  <2>1. <<>> \o Tail(todo) = Tail(todo)
    BY NothingAdded DEF Fit
  <2> QED BY <2>1
<1>2. m.free \subseteq l.free /\ m.marks \subseteq l.marks /\ m.loops = l.loops
  BY DEF Uses, Stays
<1>3. errors' = FALSE /\ defer_stack_' = m.scopes /\ emitting' = m.emit
  BY DEF EmitInv, AtLevel, Stays
<1>4. code \in Seq(Instrs) /\ Quiet(code) /\ \A K : Closed(Range(code), K)
  BY CalmCode
<1>5. Range(code) \cup PendingIn(<<>>) = Range(code) /\ Sequence(<<>>)
  BY NoCode
<1> QED BY <1>1, <1>2, <1>3, <1>4, <1>5, QuietStep

LEMMA EmitSimpleFits ==
    ASSUME EmitInv, EmitSimple
    PROVE  EmitInv'
<1> DEFINE x == Head(todo)
           s == x.s
<1>1. UNCHANGED <<defer_stack_, loop_id_stack_, loop_has_continue_, emitting, errors>>
  BY DEF EmitSimple
<1>2. CASE EmittingStmt("act") /\ Emit(Event(s.n), <<>>)
  <2>1. PICK l, m \in Levels :
                /\ AtLevel(l) /\ Fit(Tail(todo), m)
                /\ Fine(s, Open(l), l.free, l.emit) /\ Stays(l, m) /\ Uses(l, m, LoopIds(s))
    BY <1>2, StmtStarts
  <2>2. todo # <<>> /\ Pending(x) = {} /\ s.k = "act"
    BY <1>2, StmtStarts
  <2>3. s.n \in Nat
    BY <2>1, <2>2, DeferConstants DEF Fine, StatementTypes
  <2>4. Calm(Event(s.n))
    BY <2>3, CalmEvent
  <2> HIDE DEF x
  <2> QED BY <1>1, <1>2, <2>1, <2>2, <2>4, CodeOnlyStep DEF x
<1>3. CASE EmittingStmt("unreachable") /\ Emit(<<C("panic", 0, "")>>, <<>>)
  <2>1. PICK l, m \in Levels :
                /\ AtLevel(l) /\ Fit(Tail(todo), m)
                /\ Fine(s, Open(l), l.free, l.emit) /\ Stays(l, m) /\ Uses(l, m, LoopIds(s))
    BY <1>3, StmtStarts
  <2>2. todo # <<>> /\ Pending(x) = {}
    BY <1>3, StmtStarts
  <2> DEFINE c == C("panic", 0, "")
  <2>3. c \in Instrs /\ c.op = "panic"
    BY DEF Instrs, C, Ops
  <2> HIDE DEF c
  <2>4. Calm(<<c>>)
    BY <2>3, CalmOne
  <2> HIDE DEF x
  <2> QED BY <1>1, <1>3, <2>1, <2>2, <2>4, CodeOnlyStep DEF x, c
<1>4. CASE EmittingStmt("block") /\ Emit(<<>>, <<BlockTask(s.body, -1)>>)
  <2>1. PICK l, m \in Levels :
                /\ AtLevel(l) /\ Fit(Tail(todo), m)
                /\ Fine(s, Open(l), l.free, l.emit) /\ Stays(l, m) /\ Uses(l, m, LoopIds(s))
    BY <1>4, StmtStarts
  <2>2. todo # <<>> /\ Pending(x) = {} /\ s.k = "block"
    BY <1>4, StmtStarts
  <2>3. s.body \in Blocks(s) /\ ~Loop(s)
    BY <2>2 DEF Blocks, Loop
  <2>4. Owned(s.body) \subseteq LoopIds(s) /\ LoopIds(s) \subseteq l.free
    BY <2>1, <2>3, BlockFine DEF Fine
  <2>5. Uses(l, m, Owned(s.body))
    BY <2>1, <2>4, FewerUsed
  <2> DEFINE block == BlockTask(s.body, -1)
  <2>6. Entry(block, l, m) /\ Pending(block) = {}
    BY <2>1, <2>3, <2>4, <2>5, BlockEntered
  <2> HIDE DEF block, x
  <2>7. Fit(<<block>> \o Tail(todo), l)
    BY <2>1, <2>6, FitPush
  <2>8. Sequence(<<block>>) /\ PendingIn(<<block>>) = {}
    BY <2>6, One
  <2>9. errors' = FALSE /\ defer_stack_' = l.scopes /\ emitting' = l.emit
    BY <1>1, <2>1 DEF EmitInv, AtLevel
  <2> QED BY <1>1, <1>4, <2>1, <2>2, <2>7, <2>8, <2>9, SilentStep DEF x, block
<1> QED BY <1>2, <1>3, <1>4 DEF EmitSimple, Now

(* What closes a brace, and a return, may be put on todo. *)
LEMMA CodeEntered ==
    ASSUME NEW l \in Levels, NEW m \in Levels, NEW n \in Nat, NEW op \in {"else", "endif", "break", "return"},
           Stays(l, m), Uses(l, m, {})
    PROVE  Entry(CodeTask(C(op, n, "")), l, m) /\ Pending(CodeTask(C(op, n, ""))) = {C(op, n, "")}
<1> DEFINE c == C(op, n, "")
           x == CodeTask(c)
<1>1. x.t = "code" /\ x.c = c
  BY DEF CodeTask
<1>2. c \in {C("else", n, ""), C("endif", n, ""), C("break", n, ""), C("return", n, "")}
  OBVIOUS
<1> HIDE DEF x
<1>3. Pending(x) = {c}
  BY <1>1 DEF Pending
<1>4. Entry(x, l, m)
  BY <1>1, <1>2 DEF CodeEntry, Entry
<1> QED BY <1>3, <1>4 DEF x

LEMMA BraceCode ==
    ASSUME NEW n \in Nat, NEW op \in {"if", "else", "endif", "iferr", "break", "endswitch", "return"}
    PROVE  C(op, n, "") \in Instrs /\ C(op, n, "").op = op /\ C(op, n, "").n = n /\ C(op, n, "").j = 0
BY DEF C, Instrs, Ops

(* One instruction is written. *)
LEMMA OneCode ==
    ASSUME NEW c \in Instrs, c.op \notin {"label", "goto", "unless"}
    PROVE  <<c>> \in Seq(Instrs) /\ Quiet(<<c>>) /\ Range(<<c>>) = {c}
<1>1. <<c>> \in Seq(Instrs) /\ Range(<<c>>) = {c}
  BY DEF Range
<1> QED BY <1>1 DEF Quiet

LEMMA HereIsNat ==
    ASSUME EmitInv
    PROVE  Here \in Nat
BY DEF EmitInv, Written, Here

LEMMA SameLevel ==
    ASSUME NEW l
    PROVE  Stays(l, l) /\ Uses(l, l, {})
BY DEF Stays, Uses

LEMMA EmitErrDefersFits ==
    ASSUME EmitInv, EmitErrDefers
    PROVE  EmitInv'
<1> DEFINE x == Head(todo)
           ds == x.ds
           c == C("iferr", Here, "")
           e == C("endif", Here, "")
           end == CodeTask(e)
           tasks == ds \o <<end>>
<1>1. /\ todo # <<>> /\ x.t = "iferr" /\ Emit(<<c>>, Append(ds, end))
      /\ UNCHANGED <<defer_stack_, loop_id_stack_, loop_has_continue_, emitting, errors>>
  BY DEF EmitErrDefers, Emitting, Now
<1> HIDE DEF x
<1>2. PICK l, m \in Levels : /\ AtLevel(l) /\ Fit(Tail(todo), m) /\ Entry(x, l, m)
             /\ Sequence(Tail(todo))
  BY <1>1, StepStarts DEF x
<1>3. /\ Sequence(ds) /\ \A i \in DOMAIN ds : Deferrable(ds[i], l.emit)
      /\ Stays(l, m) /\ Uses(l, m, {})
  BY <1>1, <1>2, EntryKinds DEF IfErrEntry
<1>4. Here \in Nat
  BY HereIsNat
<1>5. Entry(end, l, m) /\ Pending(end) = {e}
  BY <1>3, <1>4, CodeEntered
<1>6. /\ c \in Instrs /\ c.op = "iferr" /\ c.n = Here /\ e.op = "endif"
      /\ e = C("endif", c.n, "")
  <2>1. c \in Instrs /\ c.op = "iferr" /\ c.n = Here
    BY <1>4, BraceCode
  <2>2. e.op = "endif"
    BY DEF C
  <2> QED BY <2>1, <2>2
<1>7. Pending(x) = {}
  BY <1>1 DEF Pending
<1> HIDE DEF c, e, end, ds
<1>8. Fit(<<end>> \o Tail(todo), l)
  BY <1>2, <1>5, FitPush
<1>9. PICK S : ds \in Seq(S)
  BY <1>3 DEF Sequence
<1>10. \A d \in Range(ds) : Entry(d, l, l) /\ Pending(d) = {}
  <2> SUFFICES ASSUME NEW i \in DOMAIN ds PROVE Entry(ds[i], l, l) /\ Pending(ds[i]) = {}
    BY DEF Range
  <2>1. Deferrable(ds[i], l.emit)
    BY <1>3
  <2>2. Pending(ds[i]) = {}
    BY <2>1 DEF Deferrable, Pending
  <2> QED BY <2>1, <2>2, SameLevel DEF DeferredEntry, Entry
<1>11. Fit(ds \o (<<end>> \o Tail(todo)), l)
  BY <1>8, <1>9, <1>10, FitSame
<1>12. /\ Append(ds, end) = tasks
       /\ ds \o (<<end>> \o Tail(todo)) = tasks \o Tail(todo)
  <2>1. PICK T : Tail(todo) \in Seq(T)
    BY <1>2 DEF Sequence
  <2> DEFINE R == S \cup T \cup {end}
             rest == Tail(todo)
  <2>2. ds \in Seq(R) /\ rest \in Seq(R) /\ end \in R /\ <<end>> \in Seq(R)
    BY <1>9, <2>1
  <2> HIDE DEF R, rest
  <2>3. ds \o (<<end>> \o rest) = (ds \o <<end>>) \o rest
    BY <2>2, ConcatAssociative
  <2>4. Append(ds, end) = ds \o <<end>>
    BY <2>2
  <2> QED BY <2>3, <2>4 DEF rest
<1>13. Sequence(tasks) /\ PendingIn(tasks) = {e}
  <2>1. PendingIn(ds) = {}
    BY <1>10 DEF PendingIn
  <2>2. Sequence(<<end>>) /\ PendingIn(<<end>>) = {e}
    BY <1>5, One
  <2>3. Sequence(ds \o <<end>>) /\ PendingIn(ds \o <<end>>) = PendingIn(ds) \cup PendingIn(<<end>>)
    BY <1>3, <2>2, PendingJoined
  <2> QED BY <2>1, <2>2, <2>3
<1>14. errors' = FALSE /\ defer_stack_' = l.scopes /\ emitting' = l.emit
  BY <1>1, <1>2 DEF EmitInv, AtLevel
<1>15. <<c>> \in Seq(Instrs) /\ Quiet(<<c>>) /\ Range(<<c>>) = {c}
  BY <1>6, OneCode
<1>16. \A K : Closed({c, e}, K \cup {c, e})
  BY <1>6 DEF Closed
<1>17. Closed(Range(<<c>>) \cup PendingIn(tasks), Code \cup Range(<<c>>) \cup PendingIn(tasks))
  <2>1. Range(<<c>>) \cup PendingIn(tasks) = {c, e}
    BY <1>13, <1>15
  <2>2. Code \cup Range(<<c>>) \cup PendingIn(tasks) = Code \cup {c, e}
    BY <2>1
  <2> QED BY <1>16, <2>1, <2>2
<1> DEFINE code == <<c>>
<1> HIDE DEF tasks, code
<1> QED BY <1>1, <1>2, <1>7, <1>11, <1>12, <1>13, <1>14, <1>15, <1>17, QuietStep DEF x, code

(* The return that a try becomes can be emitted. *)
LEMMA ErrReturnFine ==
    ASSUME NEW open, NEW free
    PROVE  Fine(If(<<Return(0, "err")>>), open, free, <<>>) /\ LoopIds(If(<<Return(0, "err")>>)) = {}
<1> DEFINE R == Return(0, "err")
           I == If(<<R>>)
<1>1. R \in Statements /\ I \in Statements
  BY DeferConstants
<1>2. R.k = "return" /\ I.k = "if" /\ I.then = <<R>> /\ I.else = <<>>
  BY DEF Return, If
<1> HIDE DEF R, I
<1>3. Blocks(R) = {} /\ Blocks(I) = {<<R>>, <<>>}
  BY <1>2 DEF Blocks
<1>4. Kids(R) = {} /\ Kids(I) = {R}
  <2>1. Range(<<R>>) = {R} /\ Range(<<>>) = {}
    BY DEF Range
  <2> QED BY <1>3, <2>1 DEF Kids
<1>5. Inside[R] = {R}
  <2>1. UNION {Inside[t] : t \in Kids(R)} = {}
    BY <1>4
  <2> QED BY <1>1, <2>1, InsideIs
<1>6. Inside[I] = {I, R}
  <2>1. UNION {Inside[t] : t \in Kids(I)} = {R}
    BY <1>4, <1>5
  <2> QED BY <1>1, <2>1, InsideIs
<1>7. Targets[R] = {}
  <2>1. UNION {Targets[t] : t \in Kids(R)} = {}
    BY <1>4
  <2>2. ~Loop(R) /\ R.k \notin {"break", "continue"}
    BY <1>2 DEF Loop
  <2> QED BY <1>1, <2>1, <2>2, TargetsAre
<1>8. Targets[I] = {}
  <2>1. UNION {Targets[t] : t \in Kids(I)} = {}
    BY <1>4, <1>7
  <2>2. ~Loop(I) /\ I.k \notin {"break", "continue"}
    BY <1>2 DEF Loop
  <2> QED BY <1>1, <2>1, <2>2, TargetsAre
<1>9. LoopIds(I) = {}
  BY <1>2, <1>6 DEF LoopIds, Loop
<1>10. DeferCount(<<R>>) = 0 /\ DeferCount(<<>>) = 0
  <2>1. {i \in DOMAIN <<R>> : Deferred(<<R>>[i])} = {}
    BY <1>2 DEF Deferred
  <2>2. {i \in DOMAIN <<>> : Deferred(<<>>[i])} = {}
    OBVIOUS
  <2> QED BY <2>1, <2>2, FS_EmptySet DEF DeferCount
<1>11. Within(I)
  <2>1. \A t \in Inside[I] : \A c \in Blocks(t) : ~(DeferCount(c) > MaxDefers)
    BY <1>3, <1>6, <1>10, DeferConstants
  <2>2. \A t \in Inside[I] : ~Deferred(t)
    BY <1>2, <1>6 DEF Deferred
  <2> QED BY <2>1, <2>2 DEF Within
<1>12. Range(<<>>) = {}
  BY DEF Range
<1>13. Fine(I, open, free, <<>>)
  BY <1>1, <1>8, <1>9, <1>11, <1>12 DEF Fine
<1> QED BY <1>9, <1>13 DEF I, R

(* A break or continue has one target, its loop. *)
LEMMA JumpTargets ==
    ASSUME NEW s \in Statements, s.k \in {"break", "continue"}
    PROVE  Targets[s] = {s.to} /\ s.to \in Nat
<1> DEFINE inner == UNION {Targets[t] : t \in Kids(s)}
<1>1. Targets[s] = CASE s.k \in {"break", "continue"} -> {s.to}
                     [] Loop(s) -> inner \ {s.id}
                     [] OTHER -> inner
  BY TargetsAre
<1>2. ~Loop(s) /\ s.to \in Nat
  BY DeferConstants DEF Loop, StatementTypes
<1> HIDE DEF inner
<1> QED BY <1>1, <1>2

(* A try or a return is not emitted inside a deferred statement. *)
LEMMA NotDeferred ==
    ASSUME NEW s, NEW open, NEW free, NEW emit, Fine(s, open, free, emit),
           s.k \in {"try", "return", "break", "continue"} \/ Loop(s)
    PROVE  emit = <<>>
<1> SUFFICES ASSUME emit # <<>> PROVE FALSE
  OBVIOUS
<1>1. s \in Statements /\ Plain(s)
  BY DEF Fine
<1>2. s \in Inside[s]
  BY <1>1, SelfInside
<1>3. s.k \in {"break", "continue"} => Targets[s] = {s.to}
  BY <1>1, JumpTargets
<1> QED BY <1>1, <1>2, <1>3 DEF Plain

LEMMA lowerTryExprFits ==
    ASSUME EmitInv, lowerTryExpr
    PROVE  EmitInv'
<1> DEFINE x == Head(todo)
           s == x.s
           I == If(<<Return(0, "err")>>)
           next == StmtTask(I)
           code == Event(s.n)
<1>1. /\ Emit(code, <<next>>)
      /\ UNCHANGED <<defer_stack_, loop_id_stack_, loop_has_continue_, emitting, errors>>
  BY DEF lowerTryExpr, Now
<1>2. EmittingStmt("try")
  BY DEF lowerTryExpr
<1>3. PICK l, m \in Levels :
                /\ AtLevel(l) /\ Fit(Tail(todo), m)
                /\ Fine(s, Open(l), l.free, l.emit) /\ Stays(l, m) /\ Uses(l, m, LoopIds(s))
  BY <1>2, StmtStarts
<1>4. todo # <<>> /\ Pending(x) = {} /\ s.k = "try"
  BY <1>2, StmtStarts
<1>5. s.n \in Nat
  BY <1>3, <1>4, DeferConstants DEF Fine, StatementTypes
<1>6. code \in Seq(Instrs) /\ Quiet(code) /\ \A K : Closed(Range(code), K)
  BY <1>5, CalmEvent, CalmCode
<1>7. l.emit = <<>>
  BY <1>3, <1>4, NotDeferred
<1>8. Fine(I, Open(l), l.free, l.emit) /\ LoopIds(I) = {}
  BY <1>7, ErrReturnFine
<1> HIDE DEF x, I, code
<1>9. next.t = "stmt" /\ next.s = I
  BY DEF StmtTask
<1>10. Pending(next) = {}
  BY <1>9 DEF Pending
<1> HIDE DEF next
<1>11. Entry(next, l, m)
  <2>1. Uses(l, m, LoopIds(I))
    BY <1>3, <1>8, FewerUsed
  <2> QED BY <1>3, <1>8, <1>9, <2>1 DEF StmtEntry, Entry
<1>12. Fit(<<next>> \o Tail(todo), l)
  BY <1>3, <1>11, FitPush
<1>13. Sequence(<<next>>) /\ PendingIn(<<next>>) = {}
  BY <1>10, One
<1>14. errors' = FALSE /\ defer_stack_' = l.scopes /\ emitting' = l.emit
  BY <1>1, <1>3 DEF EmitInv, AtLevel
<1> DEFINE tasks == <<next>>
<1>15. Range(code) \cup PendingIn(tasks) = Range(code)
  BY <1>13
<1>16. Closed(Range(code) \cup PendingIn(tasks), Code \cup Range(code) \cup PendingIn(tasks))
  BY <1>6, <1>15
<1> HIDE DEF tasks
<1> QED BY <1>1, <1>3, <1>4, <1>6, <1>12, <1>13, <1>14, <1>16, QuietStep DEF x, tasks

LEMMA emitReturnFits ==
    ASSUME EmitInv, emitReturn
    PROVE  EmitInv'
<1> DEFINE x == Head(todo)
           s == x.s
           v == C("value", 0, s.val)
           f == C("flag", 0, "")
           flag == IF HasErrFlag THEN <<f>> ELSE <<>>
           code == Event(s.n) \o <<v>> \o flag
           r == C("return", 0, "")
           unwind == FromInnermost(-1)
           ret == CodeTask(r)
<1>1. /\ Emit(code, <<unwind, ret>>)
      /\ UNCHANGED <<defer_stack_, loop_id_stack_, loop_has_continue_, emitting, errors>>
  BY DEF emitReturn, Now
<1>2. EmittingStmt("return")
  BY DEF emitReturn
<1>3. PICK l, m \in Levels :
                /\ AtLevel(l) /\ Fit(Tail(todo), m)
                /\ Fine(s, Open(l), l.free, l.emit) /\ Stays(l, m) /\ Uses(l, m, LoopIds(s))
  BY <1>2, StmtStarts
<1>4. todo # <<>> /\ Pending(x) = {} /\ s.k = "return"
  BY <1>2, StmtStarts
<1>5. s.n \in Nat /\ s.val \in {"ok", "err", "any"}
  BY <1>3, <1>4, DeferConstants DEF Fine, StatementTypes
<1>6. v \in Instrs /\ v.op = "value" /\ f \in Instrs /\ f.op = "flag"
  BY <1>5 DEF Instrs, C, Ops
<1>7. Calm(code)
  <2>1. Calm(<<v>>) /\ Calm(<<f>>)
    <3> HIDE DEF v, f
    <3> QED BY <1>6, CalmOne
  <2>2. Calm(flag) /\ Calm(Event(s.n))
    BY <1>5, <2>1, CalmEvent
  <2> HIDE DEF flag, v
  <2>3. Calm(Event(s.n) \o <<v>>)
    BY <2>1, <2>2, CalmJoined
  <2> QED BY <2>2, <2>3, CalmJoined
<1> HIDE DEF code
<1>8. code \in Seq(Instrs) /\ Quiet(code) /\ \A K : Closed(Range(code), K)
  BY <1>7, CalmCode
<1>9. l.emit = <<>>
  BY <1>3, <1>4, NotDeferred
<1>10. Entry(unwind, l, l) /\ Pending(unwind) = {}
  <2>1. unwind.t = "unwind" /\ unwind.i = Len(l.scopes)
    BY <1>3 DEF FromInnermost, UnwindTask, AtLevel
  <2>2. Len(l.scopes) \in 0..Len(l.scopes)
    BY LevelParts
  <2> HIDE DEF unwind
  <2> QED BY <1>9, <2>1, <2>2, SameLevel DEF UnwindEntry, Entry, Pending
<1>11. Entry(ret, l, m) /\ Pending(ret) = {r}
  <2>1. Uses(l, m, {})
    BY <1>3, FewerUsed
  <2> QED BY <1>3, <2>1, CodeEntered
<1>12. r.op = "return"
  BY DEF C
<1> HIDE DEF x, unwind, ret, r
<1>13. Fit(<<unwind, ret>> \o Tail(todo), l)
  BY <1>3, <1>10, <1>11, TwoFit
<1> DEFINE tasks == <<unwind, ret>>
<1>14. Sequence(tasks) /\ PendingIn(tasks) = {r}
  <2>1. PendingIn(tasks) = Pending(unwind) \cup Pending(ret) /\ Sequence(tasks)
    BY Two
  <2> QED BY <1>10, <1>11, <2>1
<1> HIDE DEF tasks
<1>15. Closed(Range(code) \cup PendingIn(tasks), Code \cup Range(code) \cup PendingIn(tasks))
  BY <1>8, <1>12, <1>14 DEF Closed
<1>16. errors' = FALSE /\ defer_stack_' = l.scopes /\ emitting' = l.emit
  BY <1>1, <1>3 DEF EmitInv, AtLevel
<1> QED BY <1>1, <1>3, <1>4, <1>8, <1>13, <1>14, <1>15, <1>16, QuietStep DEF x, tasks

(* The same stacks without some of the loops that were free. *)
LEMMA WithoutLoops ==
    ASSUME NEW l \in Levels, NEW F
    PROVE  \E n \in Levels : Stays(l, n) /\ n.free = l.free \ F /\ n.marks = l.marks
<1> DEFINE f == l.free \ F
<1>1. f \subseteq l.free /\ l.marks \in SUBSET Nat
  BY LevelParts
<1> HIDE DEF f
<1>2. \E n \in Levels : n.scopes = l.scopes /\ n.loops = l.loops /\ n.emit = l.emit
                          /\ n.free = f /\ n.marks = l.marks
  BY <1>1, WithFree
<1> QED BY <1>2 DEF f, Stays

(* The braces of an if, or of one of its parts, are closed. *)
LEMMA IfClosed ==
    ASSUME NEW N, NEW K, NEW n, C("endif", n, "") \in K,
           \A c \in N : c.op \in {"if", "else", "endif"} /\ c.n = n
    PROVE  Closed(N, K)
BY DEF Closed

(* The else of an if is put on todo. *)
LEMMA ElseEntered ==
    ASSUME NEW l \in Levels, NEW n \in Nat
    PROVE  /\ Entry(CodeTask(C("else", n, "")), l, l)
           /\ Pending(CodeTask(C("else", n, ""))) = {C("else", n, "")}
<1>1. Stays(l, l) /\ Uses(l, l, {})
  BY SameLevel
<1> QED BY <1>1, CodeEntered

(* The part between the then block and the end of an if: nothing, or an    *)
(* else block.                                                             *)
LEMMA ElseFits ==
    ASSUME NEW l \in Levels, NEW m \in Levels, NEW s, s.k = "if", NEW q, Fit(q, m), NEW at \in Nat,
           Fine(s, Open(l), l.free, l.emit), Stays(l, m), Uses(l, m, LoopIds(s))
    PROVE  LET other == IF s.has_else
                          THEN <<CodeTask(C("else", at, "")), BlockTask(s.else, -1)>>
                          ELSE <<>>
           IN  /\ Sequence(other) /\ PendingIn(other) \subseteq {C("else", at, "")}
               /\ \E n \in Levels : Fit(other \o q, n) /\ Entry(BlockTask(s.then, -1), l, n)
               /\ Pending(BlockTask(s.then, -1)) = {}
<1> DEFINE then == BlockTask(s.then, -1)
           els == BlockTask(s.else, -1)
           e == C("else", at, "")
           code == CodeTask(e)
<1>1. s \in Statements /\ s.then \in Blocks(s) /\ s.else \in Blocks(s) /\ ~Loop(s)
  BY DEF Fine, Blocks, Loop
<1>2. Owned(s.then) \subseteq LoopIds(s) /\ Owned(s.else) \subseteq LoopIds(s) /\ LoopIds(s) \subseteq l.free
  BY <1>1, BlockFine DEF Fine
<1>3. Owned(s.then) \cap Owned(s.else) = {}
  <2>1. Apart(s.then, s.else)
    BY <1>1, DeferConstants DEF LoopsNumbered
  <2> QED BY <2>1 DEF Apart, Owned
<1>4. CASE s.has_else
  <2>2. PICK n \in Levels : Stays(l, n) /\ n.free = l.free \ Owned(s.then) /\ n.marks = l.marks
    BY WithoutLoops
  <2>3. Open(n) = Open(l)
    BY <2>2 DEF Open, Stays
  <2>4. Stays(l, n) /\ Uses(l, n, Owned(s.then))
    BY <2>2 DEF Stays, Uses
  <2>5. Stays(n, m) /\ Uses(n, m, Owned(s.else)) /\ Owned(s.else) \subseteq n.free
    BY <1>2, <1>3, <2>2 DEF Stays, Uses
  <2>6. Owned(s.then) \subseteq l.free
    BY <1>2
  <2>7. Entry(then, l, n) /\ Pending(then) = {}
    BY <1>1, <2>4, <2>6, BlockEntered
  <2>8. Fine(s, Open(n), l.free, n.emit)
    BY <2>2, <2>3 DEF Stays
  <2>9. Entry(els, n, m) /\ Pending(els) = {}
    BY <1>1, <2>5, <2>8, BlockEntered
  <2>10. Entry(code, n, n) /\ Pending(code) = {e}
    BY ElseEntered, Zenon
  <2> HIDE DEF then, els, code, e
  <2>11. Fit(<<code, els>> \o q, n)
    BY <2>9, <2>10, TwoFit
  <2>12. Sequence(<<code, els>>) /\ PendingIn(<<code, els>>) = {e}
    <3>1. PendingIn(<<code, els>>) = Pending(code) \cup Pending(els) /\ Sequence(<<code, els>>)
      BY Two
    <3> QED BY <2>9, <2>10, <3>1
  <2> DEFINE p == <<code, els>>
  <2>13. (IF s.has_else THEN p ELSE <<>>) = p
    BY <1>4
  <2> HIDE DEF p
  <2>14. /\ Sequence(p) /\ PendingIn(p) \subseteq {e}
         /\ \E k \in Levels : Fit(p \o q, k) /\ Entry(then, l, k)
         /\ Pending(then) = {}
    BY <2>7, <2>11, <2>12 DEF p
  <2> QED BY <2>13, <2>14 DEF p, then, els, code, e
<1>5. CASE ~s.has_else
  <2>1. Owned(s.then) \subseteq l.free
    BY <1>2
  <2>2. Uses(l, m, Owned(s.then))
    BY <1>2, FewerUsed
  <2>3. Entry(then, l, m) /\ Pending(then) = {}
    BY <1>1, <2>1, <2>2, BlockEntered
  <2>4. <<>> \o q = q
    BY NothingAdded DEF Fit
  <2>5. Fit(<<>> \o q, m)
    BY <2>4
  <2> DEFINE p == <<>>
  <2>6. (IF s.has_else THEN <<code, els>> ELSE <<>>) = p
    BY <1>5
  <2> HIDE DEF p
  <2>7. /\ Sequence(p) /\ PendingIn(p) \subseteq {e}
        /\ \E k \in Levels : Fit(p \o q, k) /\ Entry(then, l, k)
        /\ Pending(then) = {}
    BY <2>3, <2>5, NoCode DEF p
  <2> QED BY <2>6, <2>7
<1> QED BY <1>4, <1>5

LEMMA emitIfFits ==
    ASSUME EmitInv, emitIf
    PROVE  EmitInv'
<1> DEFINE x == Head(todo)
           s == x.s
           c == C("if", Here, "")
           d == C("else", Here, "")
           e == C("endif", Here, "")
           then == BlockTask(s.then, -1)
           other == IF s.has_else THEN <<CodeTask(d), BlockTask(s.else, -1)>> ELSE <<>>
           end == CodeTask(e)
           tasks == <<then>> \o other \o <<end>>
           code == <<c>>
<1>1. /\ Emit(code, tasks)
      /\ UNCHANGED <<defer_stack_, loop_id_stack_, loop_has_continue_, emitting, errors>>
  BY DEF emitIf, Now
<1>2. EmittingStmt("if")
  BY DEF emitIf
<1>3. PICK l, m \in Levels :
                /\ AtLevel(l) /\ Fit(Tail(todo), m)
                /\ Fine(s, Open(l), l.free, l.emit) /\ Stays(l, m) /\ Uses(l, m, LoopIds(s))
  BY <1>2, StmtStarts
<1>4. todo # <<>> /\ Pending(x) = {} /\ s.k = "if"
  BY <1>2, StmtStarts
<1>5. Here \in Nat
  BY HereIsNat
<1>6. /\ c \in Instrs /\ c.op = "if" /\ c.n = Here /\ d.op = "else" /\ d.n = Here
      /\ e.op = "endif" /\ e.n = Here
  <2>1. c \in Instrs /\ c.op = "if" /\ c.n = Here
    BY <1>5, BraceCode
  <2>2. d.op = "else" /\ d.n = Here
    BY <1>5, BraceCode
  <2>3. e.op = "endif" /\ e.n = Here
    BY <1>5, BraceCode
  <2> QED BY <2>1, <2>2, <2>3
<1>7. Entry(end, m, m) /\ Pending(end) = {e}
  BY <1>5, SameLevel, CodeEntered
<1> HIDE DEF x, end
<1>8. Fit(<<end>> \o Tail(todo), m)
  BY <1>3, <1>7, FitPush
<1> DEFINE q == <<end>> \o Tail(todo)
<1> HIDE DEF q
<1>9. /\ Sequence(other) /\ PendingIn(other) \subseteq {d}
      /\ \E n \in Levels : Fit(other \o q, n) /\ Entry(then, l, n)
      /\ Pending(then) = {}
  <2>1. Fit(q, m)
    BY <1>8 DEF q
  <2> QED BY <1>3, <1>4, <1>5, <2>1, ElseFits
<1> HIDE DEF other, then
<1>10. Fit(<<then>> \o (other \o q), l)
  BY <1>9, FitPush
<1>11. /\ Sequence(<<then>>) /\ PendingIn(<<then>>) = {}
       /\ Sequence(<<end>>) /\ PendingIn(<<end>>) = {e}
  BY <1>7, <1>9, One
<1>12. /\ <<then>> \o (other \o q) = tasks \o Tail(todo)
       /\ Sequence(tasks) /\ PendingIn(tasks) = PendingIn(<<then>>) \cup PendingIn(other) \cup PendingIn(<<end>>)
  <2> DEFINE p1 == <<then>>
             p3 == <<end>>
             t == Tail(todo)
  <2>1. Sequence(p1) /\ Sequence(p3) /\ Sequence(t)
    BY <1>3, <1>11 DEF Fit
  <2> HIDE DEF p1, p3, t
  <2>0. Sequence(other)
    BY <1>9
  <2>2. /\ p1 \o (other \o (p3 \o t)) = (p1 \o other \o p3) \o t
        /\ Sequence(p1 \o other \o p3)
        /\ PendingIn(p1 \o other \o p3) = PendingIn(p1) \cup PendingIn(other) \cup PendingIn(p3)
    <3> SUFFICES ASSUME NEW p, NEW u, NEW r, NEW v, Sequence(p), Sequence(u), Sequence(r), Sequence(v)
                 PROVE  /\ p \o (u \o (r \o v)) = (p \o u \o r) \o v
                        /\ Sequence(p \o u \o r)
                        /\ PendingIn(p \o u \o r) = PendingIn(p) \cup PendingIn(u) \cup PendingIn(r)
      BY <2>0, <2>1
    <3> QED BY ThreeJoined
  <2> QED BY <2>2 DEF p1, p3, t, q
<1> HIDE DEF tasks
<1>13. Fit(tasks \o Tail(todo), l)
  BY <1>10, <1>12
<1>14. e \in PendingIn(tasks) /\ PendingIn(tasks) \subseteq {d, e}
  BY <1>9, <1>11, <1>12
<1>15. code \in Seq(Instrs) /\ Quiet(code) /\ Range(code) = {c}
  BY <1>6, OneCode
<1>16. Closed(Range(code) \cup PendingIn(tasks), Code \cup Range(code) \cup PendingIn(tasks))
  <2>1. \A i \in Range(code) \cup PendingIn(tasks) : i.op \in {"if", "else", "endif"} /\ i.n = Here
    BY <1>6, <1>14, <1>15
  <2>2. e \in Code \cup Range(code) \cup PendingIn(tasks)
    BY <1>14
  <2> QED BY <2>1, <2>2, IfClosed
<1>17. errors' = FALSE /\ defer_stack_' = l.scopes /\ emitting' = l.emit
  BY <1>1, <1>3 DEF EmitInv, AtLevel
<1> HIDE DEF code
<1> QED BY <1>1, <1>3, <1>4, <1>12, <1>13, <1>15, <1>16, <1>17, QuietStep DEF x

(* What is certain to be written for the prongs of a switch from one on. *)
LEMMA ProngPending ==
    ASSUME NEW x, x.t = "prong"
    PROVE  /\ C("endswitch", x.at, "") \in Pending(x)
           /\ Pending(x) \subseteq {C("endswitch", x.at, ""), Prongs("case", x.at, x.i)}
           /\ x.i <= Len(x.s.prongs) => Prongs("case", x.at, x.i) \in Pending(x)
<1>1. Pending(x) = {C("endswitch", x.at, "")} \cup
             (IF x.i <= Len(x.s.prongs) THEN {Prongs("case", x.at, x.i)} ELSE {})
  BY DEF Pending
<1> QED BY <1>1

LEMMA ProngCode ==
    ASSUME NEW at \in Nat, NEW i \in Nat, NEW j \in {0, 1}
    PROVE  /\ Prongs("case", at, i) \in Instrs /\ Prongs("case", at, i).op = "case"
           /\ Prongs("switch", at, j) \in Instrs /\ Prongs("switch", at, j).op = "switch"
           /\ Prongs("switch", at, j).n = at /\ Prongs("switch", at, j).j = j
<1>1. Prongs("case", at, i) \in Instrs /\ Prongs("case", at, i).op = "case"
  BY DEF Prongs, Instrs, Ops
<1>2. Prongs("switch", at, j).op = "switch" /\ Prongs("switch", at, j).n = at /\ Prongs("switch", at, j).j = j
  BY DEF Prongs
<1>3. Prongs("switch", at, 0) \in Instrs /\ Prongs("switch", at, 1) \in Instrs
  BY DEF Prongs, Instrs, Ops
<1> QED BY <1>1, <1>2, <1>3

(* The blocks of the prongs share no loop, and have only the switch's.     *)
LEMMA LeftSplits ==
    ASSUME NEW s \in Statements, s.k = "switch", NEW open, NEW free, NEW emit, Fine(s, open, free, emit),
           NEW i \in Nat \ {0}
    PROVE  /\ Len(s.prongs) \in Nat
           /\ Left(s, i) \subseteq LoopIds(s)
           /\ i <= Len(s.prongs) =>
                /\ s.prongs[i] \in Blocks(s)
                /\ Left(s, i) = Owned(s.prongs[i]) \cup Left(s, i + 1)
                /\ Owned(s.prongs[i]) \cap Left(s, i + 1) = {}
<1> DEFINE q == s.prongs
<1>1. q \in Seq(Seq(Statements)) /\ Blocks(s) = Range(q)
      /\ \A j, k \in DOMAIN q : j # k => Apart(q[j], q[k])
  BY DeferConstants DEF StatementTypes, LoopsNumbered, Blocks
<1> HIDE DEF q
<1>2. Len(q) \in Nat /\ DOMAIN q = 1..Len(q)
  BY <1>1
<1>3. \A j \in 1..Len(q) : q[j] \in Blocks(s)
  BY <1>1, <1>2 DEF Range
<1>4. \A j \in 1..Len(q) : Owned(q[j]) \subseteq LoopIds(s)
  <2>1. ~Loop(s)
    BY DEF Loop
  <2> QED BY <1>3, <2>1, BlockFine
<1>5. \A j \in i..Len(q) : j \in 1..Len(q)
  BY <1>2
<1>6. \A k \in Nat \ {0} : UNION {Owned(q[j]) : j \in k..Len(q)} \subseteq LoopIds(s)
  <2> SUFFICES ASSUME NEW k \in Nat \ {0}, NEW j \in k..Len(q) PROVE Owned(q[j]) \subseteq LoopIds(s)
    OBVIOUS
  <2>1. j \in 1..Len(q)
    BY <1>2
  <2> QED BY <1>4, <2>1
<1>7. ASSUME i <= Len(q)
      PROVE  /\ UNION {Owned(q[j]) : j \in i..Len(q)} = Owned(q[i]) \cup UNION {Owned(q[j]) : j \in i + 1..Len(q)}
             /\ Owned(q[i]) \cap UNION {Owned(q[j]) : j \in i + 1..Len(q)} = {}
             /\ i \in 1..Len(q)
  <2>1. i..Len(q) = {i} \cup (i + 1..Len(q)) /\ i \in 1..Len(q)
    BY <1>2, <1>7
  <2>2. ASSUME NEW j \in i + 1..Len(q) PROVE Owned(q[i]) \cap Owned(q[j]) = {}
    <3>1. j # i /\ j \in DOMAIN q /\ i \in DOMAIN q
      BY <1>2, <2>1
    <3>2. Apart(q[i], q[j])
      BY <1>1, <3>1
    <3> QED BY <3>2 DEF Apart, Owned
  <2> QED BY <2>1, <2>2
<1> QED BY <1>2, <1>3, <1>6, <1>7 DEF Left, q

LEMMA emitSwitchFits ==
    ASSUME EmitInv, emitSwitch
    PROVE  EmitInv'
<1> DEFINE x == Head(todo)
           s == x.s
           j == IF s.has_else THEN 1 ELSE 0
           c == Prongs("switch", Here, j)
           e == C("endswitch", Here, "")
           next == ProngTask(s, 1, Here)
           code == <<c>>
           tasks == <<next>>
<1>1. /\ Emit(code, tasks)
      /\ UNCHANGED <<defer_stack_, loop_id_stack_, loop_has_continue_, emitting, errors>>
  BY DEF emitSwitch, Now
<1>2. EmittingStmt("switch")
  BY DEF emitSwitch
<1>3. PICK l, m \in Levels :
                /\ AtLevel(l) /\ Fit(Tail(todo), m)
                /\ Fine(s, Open(l), l.free, l.emit) /\ Stays(l, m) /\ Uses(l, m, LoopIds(s))
  BY <1>2, StmtStarts
<1>4. todo # <<>> /\ Pending(x) = {} /\ s.k = "switch"
  BY <1>2, StmtStarts
<1>5. Here \in Nat
  BY HereIsNat
<1>6. s \in Statements /\ s.has_else \in BOOLEAN /\ (s.has_else => s.prongs # <<>>)
      /\ s.prongs \in Seq(Seq(Statements))
  BY <1>3, <1>4, DeferConstants DEF Fine, StatementTypes
<1>7. j \in {0, 1} /\ (j = 1 => 1 <= Len(s.prongs))
  <2>1. s.prongs # <<>> => 1 <= Len(s.prongs)
    BY <1>6
  <2> QED BY <1>6, <2>1
<1> HIDE DEF j
<1>8. c \in Instrs /\ c.op = "switch" /\ c.n = Here /\ c.j = j
  BY <1>5, <1>7, ProngCode
<1>9. code \in Seq(Instrs) /\ Quiet(code) /\ Range(code) = {c}
  <2> HIDE DEF c
  <2> QED BY <1>8, OneCode
<1>10. /\ next.t = "prong" /\ next.s = s /\ next.i = 1 /\ next.at = Here
       /\ e \in Pending(next) /\ Pending(next) \subseteq {e, Prongs("case", Here, 1)}
       /\ 1 <= Len(s.prongs) => Prongs("case", Here, 1) \in Pending(next)
  <2>1. next.t = "prong" /\ next.s = s /\ next.i = 1 /\ next.at = Here
    BY DEF ProngTask
  <2> HIDE DEF next, s
  <2>2. /\ C("endswitch", next.at, "") \in Pending(next)
        /\ Pending(next) \subseteq {C("endswitch", next.at, ""), Prongs("case", next.at, next.i)}
        /\ next.i <= Len(next.s.prongs) => Prongs("case", next.at, next.i) \in Pending(next)
    BY <2>1, ProngPending
  <2> QED BY <2>1, <2>2
<1>11. Left(s, 1) \subseteq LoopIds(s)
  <2> DEFINE k == 1
  <2>1. k \in Nat \ {0}
    OBVIOUS
  <2>2. Fine(s, Open(l), l.free, l.emit)
    BY <1>3
  <2> HIDE DEF k, s
  <2>3. Left(s, k) \subseteq LoopIds(s)
    BY <1>4, <1>6, <2>1, <2>2, LeftSplits
  <2> QED BY <2>3 DEF k
<1> HIDE DEF next, c
<1>12. Entry(next, l, m)
  <2>1. Fine(s, Open(l), LoopIds(s), l.emit) /\ LoopIds(s) \subseteq l.free
    BY <1>3 DEF Fine
  <2>2. Left(s, 1) \subseteq l.free /\ Uses(l, m, Left(s, 1))
    BY <1>3, <1>11, <2>1, FewerUsed
  <2>3. next.at \in Nat /\ next.i \in Nat \ {0} /\ next.s.k = "switch"
    <3> HIDE DEF s
    <3>1. next.i = 1 /\ next.at = Here /\ next.s = s
      BY <1>10
    <3>2. 1 \in Nat \ {0} /\ Here \in Nat /\ s.k = "switch"
      BY <1>4, <1>5
    <3> QED BY <3>1, <3>2, Zenon
  <2>4. Left(next.s, next.i) = Left(s, 1) /\ LoopIds(next.s) = LoopIds(s)
    BY <1>10
  <2> HIDE DEF s
  <2>5. ProngEntry(next, l, m)
    BY <1>3, <1>10, <2>1, <2>2, <2>3, <2>4 DEF ProngEntry
  <2> QED BY <2>5 DEF Entry
<1> HIDE DEF x
<1>13. Fit(tasks \o Tail(todo), l)
  BY <1>3, <1>12, FitPush
<1>14. Sequence(tasks) /\ PendingIn(tasks) = Pending(next)
  BY One
<1> HIDE DEF tasks, code
<1>15. Closed(Range(code) \cup PendingIn(tasks), Code \cup Range(code) \cup PendingIn(tasks))
  <2>1. e.op = "endswitch" /\ Prongs("case", Here, 1).op = "case"
    BY DEF C, Prongs
  <2>2. \A i \in Range(code) \cup PendingIn(tasks) : i = c \/ i.op \in {"endswitch", "case"}
    BY <1>9, <1>10, <1>14, <2>1
  <2>3. e \in PendingIn(tasks) /\ (c.j = 1 => Prongs("case", Here, 1) \in PendingIn(tasks))
    BY <1>7, <1>8, <1>10, <1>14
  <2> QED BY <1>8, <2>2, <2>3 DEF Closed
<1>16. errors' = FALSE /\ defer_stack_' = l.scopes /\ emitting' = l.emit
  BY <1>1, <1>3 DEF EmitInv, AtLevel
<1> QED BY <1>1, <1>3, <1>4, <1>9, <1>13, <1>14, <1>15, <1>16, QuietStep DEF x

LEMMA emitProngsFits ==
    ASSUME EmitInv, emitProngs
    PROVE  EmitInv'
<1> DEFINE x == Head(todo)
           s == x.s
           i == x.i
           e == C("endswitch", x.at, "")
<1>1. /\ todo # <<>> /\ x.t = "prong"
      /\ UNCHANGED <<defer_stack_, loop_id_stack_, loop_has_continue_, emitting, errors>>
  BY DEF emitProngs, Emitting
<1>2. IF i <= Len(s.prongs)
         THEN Emit(<<Prongs("case", x.at, i)>>,
                   <<BlockTask(s.prongs[i], -1), CodeTask(C("break", x.at, "")), ProngTask(s, i + 1, x.at)>>)
         ELSE Emit(<<e>>, <<>>)
  BY DEF emitProngs, Now
<1> HIDE DEF x
<1>3. PICK l, m \in Levels : /\ AtLevel(l) /\ Fit(Tail(todo), m) /\ Entry(x, l, m)
             /\ Sequence(Tail(todo))
  BY <1>1, StepStarts DEF x
<1>4. /\ x.at \in Nat /\ i \in Nat \ {0} /\ s.k = "switch" /\ Fine(s, Open(l), LoopIds(s), l.emit)
      /\ Left(s, i) \subseteq l.free /\ Stays(l, m) /\ Uses(l, m, Left(s, i))
  BY <1>1, <1>3, EntryKinds DEF ProngEntry
<1>5. /\ Left(s, i) \subseteq LoopIds(s)
      /\ i <= Len(s.prongs) =>
                /\ s.prongs[i] \in Blocks(s)
                /\ Left(s, i) = Owned(s.prongs[i]) \cup Left(s, i + 1)
                /\ Owned(s.prongs[i]) \cap Left(s, i + 1) = {}
  BY <1>4, LeftSplits DEF Fine
<1>6. Pending(x) = {e} \cup (IF i <= Len(s.prongs) THEN {Prongs("case", x.at, i)} ELSE {})
  BY <1>1 DEF Pending
<1>7. e \in Instrs /\ e.op = "endswitch"
  BY <1>4, BraceCode
<1>8. CASE i <= Len(s.prongs)
  <2> DEFINE c == Prongs("case", x.at, i)
             b == s.prongs[i]
             block == BlockTask(b, -1)
             d == C("break", x.at, "")
             break == CodeTask(d)
             next == ProngTask(s, i + 1, x.at)
             more == Prongs("case", x.at, i + 1)
             code == <<c>>
             tasks == <<block, break, next>>
  <2>1. Emit(code, tasks)
    BY <1>2, <1>8
  <2>2. b \in Blocks(s) /\ ~Loop(s) /\ Owned(b) \subseteq l.free
    BY <1>4, <1>5, <1>8 DEF Loop
  <2>3. PICK n \in Levels : Stays(l, n) /\ n.free = l.free \ Owned(b) /\ n.marks = l.marks
    BY WithoutLoops
  <2>4. Stays(n, m) /\ Uses(n, m, Left(s, i + 1)) /\ Uses(l, n, Owned(b)) /\ Open(n) = Open(l)
        /\ Left(s, i + 1) \subseteq n.free /\ n.emit = l.emit
    BY <1>4, <1>5, <1>8, <2>3 DEF Stays, Uses, Open
  <2>5. Entry(block, l, n) /\ Pending(block) = {}
    BY <1>4, <2>2, <2>3, <2>4, BlockEntered
  <2>6. Entry(break, n, n) /\ Pending(break) = {d}
    BY <1>4, SameLevel, CodeEntered
  <2>7. /\ next.t = "prong" /\ next.s = s /\ next.i = i + 1 /\ next.at = x.at
        /\ e \in Pending(next) /\ Pending(next) \subseteq {e, more}
    <3>1. next.t = "prong" /\ next.s = s /\ next.i = i + 1 /\ next.at = x.at
      BY DEF ProngTask
    <3> HIDE DEF next, i, s
    <3>2. /\ C("endswitch", next.at, "") \in Pending(next)
          /\ Pending(next) \subseteq {C("endswitch", next.at, ""), Prongs("case", next.at, next.i)}
      BY <3>1, ProngPending
    <3> QED BY <3>1, <3>2
  <2>8. /\ c \in Instrs /\ c.op = "case" /\ d.op = "break" /\ d.n = x.at /\ more.op = "case"
    BY <1>4 DEF C, Prongs, Instrs, Ops
  <2> HIDE DEF c, b, block, break, next, more, d
  <2>9. Entry(next, n, m)
    <3>1. i + 1 \in Nat \ {0}
      BY <1>4
    <3>2. Fine(s, Open(n), LoopIds(s), n.emit)
      BY <1>4, <2>4
    <3> QED BY <1>4, <2>4, <2>7, <3>1, <3>2 DEF ProngEntry, Entry
  <2>10. Fit(tasks \o Tail(todo), l)
    BY <1>3, <2>5, <2>6, <2>9, ThreeFit
  <2>11. Sequence(tasks) /\ PendingIn(tasks) = {d} \cup Pending(next)
    <3>1. PendingIn(tasks) = Pending(block) \cup Pending(break) \cup Pending(next) /\ Sequence(tasks)
      BY ThreeTasks
    <3> QED BY <2>5, <2>6, <3>1
  <2>12. code \in Seq(Instrs) /\ Quiet(code) /\ Range(code) = {c}
    BY <2>8, OneCode
  <2> HIDE DEF tasks, code
  <2>13. Closed(Range(code) \cup PendingIn(tasks), Code \cup Range(code) \cup PendingIn(tasks))
    <3>1. \A k \in Range(code) \cup PendingIn(tasks) : k = d \/ k.op \in {"endswitch", "case"}
      BY <1>7, <2>7, <2>8, <2>11, <2>12
    <3>2. e \in PendingIn(tasks)
      BY <2>7, <2>11
    <3> QED BY <2>8, <3>1, <3>2 DEF Closed
  <2>14. Pending(x) \subseteq Range(code) \cup PendingIn(tasks)
    BY <1>6, <1>8, <2>7, <2>11, <2>12 DEF c
  <2>15. errors' = FALSE /\ defer_stack_' = l.scopes /\ emitting' = l.emit
    BY <1>1, <1>3 DEF EmitInv, AtLevel
  <2> QED BY <1>1, <1>3, <2>1, <2>10, <2>11, <2>12, <2>13, <2>14, <2>15, QuietStep DEF x
<1>9. CASE ~(i <= Len(s.prongs))
  <2> DEFINE code == <<e>>
  <2>1. Emit(code, <<>>)
    BY <1>2, <1>9
  <2> HIDE DEF e
  <2>2. code \in Seq(Instrs) /\ Quiet(code) /\ Range(code) = {e}
    BY <1>7, OneCode
  <2>3. Fit(<<>> \o Tail(todo), m)
    <3>1. <<>> \o Tail(todo) = Tail(todo)
      BY <1>3, NothingAdded
    <3> QED BY <1>3, <3>1
  <2> HIDE DEF code
  <2>4. Pending(x) \subseteq Range(code) \cup PendingIn(<<>>) /\ Range(code) \cup PendingIn(<<>>) = {e}
        /\ Sequence(<<>>)
    BY <1>6, <1>9, <2>2, NoCode
  <2>5. Closed(Range(code) \cup PendingIn(<<>>), Code \cup Range(code) \cup PendingIn(<<>>))
    BY <1>7, <2>4 DEF Closed
  <2>6. /\ errors' = FALSE /\ defer_stack_' = m.scopes /\ emitting' = m.emit /\ m.loops = l.loops
        /\ m.free \subseteq l.free /\ m.marks \subseteq l.marks
    BY <1>1, <1>3, <1>4 DEF EmitInv, AtLevel, Stays, Uses
  <2> QED BY <1>1, <1>3, <2>1, <2>2, <2>3, <2>4, <2>5, <2>6, QuietStep DEF x
<1> QED BY <1>8, <1>9

(* A step that writes labels or jumps. *)
LEMMA LoudStep ==
    ASSUME NEW l \in Levels, NEW n \in Levels, AtLevel(l), EmitInv, todo # <<>>,
           NEW code \in Seq(Instrs), NEW tasks, Sequence(tasks), Emit(code, tasks),
           Pending(Head(todo)) \subseteq Range(code) \cup PendingIn(tasks),
           Closed(Range(code) \cup PendingIn(tasks), Code \cup Range(code) \cup PendingIn(tasks)),
           JumpsFit(out', loop_id_stack_', loop_has_continue_'),
           \A k \in n.free : Label(k, "start") \notin Range(out'),
           errors' = FALSE, defer_stack_' = n.scopes, emitting' = n.emit, loop_id_stack_' = n.loops,
           loop_has_continue_' \in Seq(BOOLEAN), Len(loop_has_continue_') = Len(n.loops),
           \A i \in DOMAIN n.loops : n.loops[i] \in n.marks => loop_has_continue_'[i],
           n.free \cap n.marks = {}, Fit(tasks \o Tail(todo), n)
    PROVE  EmitInv'
<1>1. Sequence(todo)
  BY DEF AtLevel, Fit
<1>2. Closed(Code', Code') /\ out' \in Seq(Instrs)
  BY <1>1, BracesKept DEF EmitInv
<1>3. todo' = tasks \o Tail(todo)
  BY DEF Emit
<1>4. Written'
  BY <1>2 DEF Written
<1>5. AtLevel(n)'
  BY <1>3 DEF AtLevel
<1> QED BY <1>4, <1>5 DEF EmitInv

(* Code without labels is written: the labels are those there were. *)
LEMMA NoLabelAdded ==
    ASSUME NEW c \in Instrs, c.op # "label", out \in Seq(Instrs), out' = out \o <<c>>,
           JumpsFit(out, loop_id_stack_, loop_has_continue_),
           UNCHANGED <<loop_id_stack_, loop_has_continue_>>,
           c.op \in {"goto", "unless"} => Resolved(c, out, loop_id_stack_, loop_has_continue_)
    PROVE  /\ JumpsFit(out', loop_id_stack_', loop_has_continue_')
           /\ \A n : Label(n, "start") \notin Range(out) => Label(n, "start") \notin Range(out')
<1> DEFINE code == <<c>>
<1>1. Range(out') = Range(out) \cup {c}
  <2>1. code \in Seq(Instrs) /\ Range(code) = {c} /\ out' = out \o code
    BY DEF Range
  <2> HIDE DEF code
  <2> QED BY <2>1, RangeJoined
<1>2. \A n, at : Label(n, at) \in Range(out') => Label(n, at) \in Range(out)
  BY <1>1 DEF Label, C
<1>3. ASSUME NEW i \in DOMAIN out', NEW j \in DOMAIN out', out'[i].op = "label", out'[i] = out'[j]
      PROVE  i = j
  <2>1. \A k \in DOMAIN out' : out'[k].op = "label" => k \in DOMAIN out /\ out'[k] = out[k]
    <3> SUFFICES ASSUME NEW k \in DOMAIN out', out'[k].op = "label"
                 PROVE  k \in DOMAIN out /\ out'[k] = out[k]
      OBVIOUS
    <3>1. k \in 1..Len(out) + 1 /\ Len(out) \in Nat /\ DOMAIN out = 1..Len(out)
      OBVIOUS
    <3>2. k \in 1..Len(out) => out'[k] = out[k]
      OBVIOUS
    <3>3. k \notin 1..Len(out) => out'[k] = c
      OBVIOUS
    <3> QED BY <3>1, <3>2, <3>3
  <2> QED BY <1>3, <2>1 DEF JumpsFit
<1>4. \A d \in Range(out') : d.op = "label" => Label(d.n, "start") \in Range(out')
  BY <1>1 DEF JumpsFit
<1>5. \A n \in Range(loop_id_stack_') :
         /\ Label(n, "start") \in Range(out')
         /\ Label(n, "end") \notin Range(out') /\ Label(n, "continue") \notin Range(out')
  BY <1>1, <1>2 DEF JumpsFit
<1>6. \A d \in Range(out') : d.op \in {"goto", "unless"} => Resolved(d, out', loop_id_stack_', loop_has_continue_')
  BY <1>1 DEF JumpsFit, Resolved
<1> QED BY <1>2, <1>3, <1>4, <1>5, <1>6 DEF JumpsFit

(* The labels of a loop and the jumps to them. *)
LEMMA LabelCode ==
    ASSUME NEW n \in Nat, NEW at \in {"start", "end", "continue"}
    PROVE  /\ Goto(n, at) \in Instrs /\ Goto(n, at).op = "goto" /\ Goto(n, at).n = n /\ Goto(n, at).at = at
           /\ Label(n, at) \in Instrs /\ Label(n, at).op = "label" /\ Label(n, at).n = n /\ Label(n, at).at = at
<1>1. Goto(n, at).op = "goto" /\ Goto(n, at).n = n /\ Goto(n, at).at = at
      /\ Label(n, at).op = "label" /\ Label(n, at).n = n /\ Label(n, at).at = at
  BY DEF Goto, Label, C
<1>2. Goto(n, at) \in Instrs
  BY DEF Goto, C, Instrs, Ops
<1>3. Label(n, at) \in Instrs
  BY DEF Label, C, Instrs, Ops
<1> QED BY <1>1, <1>2, <1>3

LEMMA EmitCodeFits ==
    ASSUME EmitInv, EmitCode
    PROVE  EmitInv'
<1> DEFINE x == Head(todo)
           c == x.c
           code == <<c>>
<1>1. /\ todo # <<>> /\ x.t = "code" /\ Emit(code, <<>>)
      /\ UNCHANGED <<defer_stack_, loop_id_stack_, loop_has_continue_, emitting, errors>>
  BY DEF EmitCode, Emitting, Now
<1> HIDE DEF x
<1>2. PICK l, m \in Levels : /\ AtLevel(l) /\ Fit(Tail(todo), m) /\ Entry(x, l, m)
             /\ Sequence(Tail(todo))
  BY <1>1, StepStarts DEF x
<1>3. CodeEntry(x, l, m)
  BY <1>1, <1>2, EntryKinds
<1>4. Stays(l, m) /\ Uses(l, m, {})
  BY <1>3 DEF CodeEntry
<1>5. l.loops = loop_id_stack_ /\ \A n \in Range(l.loops) : n \in Nat
  BY <1>2, LevelParts, DeferConstants DEF AtLevel, Range
<1>6. /\ c \in Instrs /\ c.op # "label"
      /\ c.op \in {"goto", "unless"} => Resolved(c, out, loop_id_stack_, loop_has_continue_)
  <2>1. CASE \E n \in Nat : c \in {C("else", n, ""), C("endif", n, ""), C("break", n, ""), C("return", n, "")}
    <3>1. PICK n \in Nat : c \in {C("else", n, ""), C("endif", n, ""), C("break", n, ""), C("return", n, "")}
      BY <2>1
    <3>2. c \in Instrs /\ c.op \in {"else", "endif", "break", "return"}
      <4> DEFINE K(op) == C(op, n, "")
      <4>1. \A op \in {"else", "endif", "break", "return"} : K(op) \in Instrs /\ K(op).op = op
        <5> SUFFICES ASSUME NEW op \in {"else", "endif", "break", "return"}
                     PROVE  C(op, n, "") \in Instrs /\ C(op, n, "").op = op
          OBVIOUS
        <5>1. op \in {"if", "else", "endif", "iferr", "break", "endswitch", "return"}
          OBVIOUS
        <5> QED BY <5>1, BraceCode
      <4>2. c \in {K("else"), K("endif"), K("break"), K("return")}
        BY <3>1
      <4> HIDE DEF c, K
      <4> QED BY <4>1, <4>2
    <3> QED BY <3>2
  <2>2. CASE \E n \in Range(l.loops) : c = Goto(n, "end")
    <3>1. PICK n \in Range(l.loops) : c = Goto(n, "end")
      BY <2>2
    <3>2. c \in Instrs /\ c.op = "goto" /\ c.n = n /\ c.at = "end"
      <4>1. n \in Nat
        BY <1>5
      <4> HIDE DEF c
      <4> QED BY <3>1, <4>1, LabelCode
    <3> QED BY <1>5, <3>2 DEF Resolved
  <2>3. CASE \E n \in Range(l.loops) \cap l.marks : c = Goto(n, "continue")
    <3>1. PICK n \in Range(l.loops) \cap l.marks : c = Goto(n, "continue")
      BY <2>3
    <3>2. c \in Instrs /\ c.op = "goto" /\ c.n = n /\ c.at = "continue"
      <4>1. n \in Nat
        BY <1>5
      <4> HIDE DEF c
      <4> QED BY <3>1, <4>1, LabelCode
    <3>3. \E i \in DOMAIN l.loops : l.loops[i] = n /\ loop_has_continue_[i]
      BY <1>2, <3>1 DEF Range, AtLevel
    <3> QED BY <1>5, <3>2, <3>3 DEF Resolved
  <2> QED BY <1>3, <2>1, <2>2, <2>3 DEF CodeEntry
<1>7. Pending(x) = {c}
  BY <1>1 DEF Pending
<1>8. c \in Code
  <2>1. PendingIn(todo) = Pending(x) \cup PendingIn(Tail(todo))
    BY <1>1, <1>2, PendingHead DEF x, AtLevel, Fit
  <2> QED BY <1>7, <2>1 DEF Code
<1> HIDE DEF c
<1>9. code \in Seq(Instrs) /\ Range(code) = {c}
  BY <1>6 DEF Range
<1>10. out \in Seq(Instrs) /\ out' = out \o code /\ JumpsFit(out, loop_id_stack_, loop_has_continue_)
       /\ Closed(Code, Code)
  BY <1>1 DEF EmitInv, Written, Emit
<1>11. /\ JumpsFit(out', loop_id_stack_', loop_has_continue_')
       /\ \A n : Label(n, "start") \notin Range(out) => Label(n, "start") \notin Range(out')
  BY <1>1, <1>6, <1>10, NoLabelAdded
<1> HIDE DEF code
<1>12. Range(code) \cup PendingIn(<<>>) = {c} /\ Sequence(<<>>)
  BY <1>9, NoCode
<1>13. Closed(Range(code) \cup PendingIn(<<>>), Code \cup Range(code) \cup PendingIn(<<>>))
  <2>1. Closed({c}, Code)
    BY <1>8, <1>10 DEF Closed
  <2>2. Code \cup Range(code) \cup PendingIn(<<>>) = Code
    BY <1>8, <1>12
  <2> QED BY <1>12, <2>1, <2>2
<1>14. Fit(<<>> \o Tail(todo), m)
  <2>1. <<>> \o Tail(todo) = Tail(todo)
    BY <1>2, NothingAdded
  <2> QED BY <1>2, <2>1
<1>15. /\ errors' = FALSE /\ defer_stack_' = m.scopes /\ emitting' = m.emit /\ loop_id_stack_' = m.loops
       /\ loop_has_continue_' \in Seq(BOOLEAN) /\ Len(loop_has_continue_') = Len(m.loops)
       /\ \A i \in DOMAIN m.loops : m.loops[i] \in m.marks => loop_has_continue_'[i]
       /\ m.free \cap m.marks = {}
       /\ \A k \in m.free : Label(k, "start") \notin Range(out')
  BY <1>1, <1>2, <1>4, <1>11 DEF EmitInv, AtLevel, Stays, Uses
<1>16. Pending(x) \subseteq Range(code) \cup PendingIn(<<>>)
  BY <1>7, <1>12
<1> QED BY <1>1, <1>2, <1>9, <1>11, <1>12, <1>13, <1>14, <1>15, <1>16, LoudStep DEF x

(* The unwinding before a jump or a return is put on todo. *)
LEMMA UnwindEntered ==
    ASSUME NEW l \in Levels, AtLevel(l), l.emit = <<>>, NEW target
    PROVE  Entry(FromInnermost(target), l, l) /\ Pending(FromInnermost(target)) = {}
<1> DEFINE x == FromInnermost(target)
<1>1. x.t = "unwind" /\ x.i = Len(l.scopes)
  BY DEF FromInnermost, UnwindTask, AtLevel
<1>2. Len(l.scopes) \in 0..Len(l.scopes)
  BY LevelParts
<1> HIDE DEF x
<1>3. Entry(x, l, l) /\ Pending(x) = {}
  BY <1>1, <1>2, SameLevel DEF UnwindEntry, Entry, Pending
<1> QED BY <1>3 DEF x

LEMMA emitBreakFits ==
    ASSUME EmitInv, emitBreak
    PROVE  EmitInv'
<1> DEFINE x == Head(todo)
           s == x.s
           unwind == FromInnermost(s.to)
           g == Goto(s.to, "end")
           jump == CodeTask(g)
           tasks == <<unwind, jump>>
<1>1. /\ Emit(<<>>, tasks)
      /\ UNCHANGED <<defer_stack_, loop_id_stack_, loop_has_continue_, emitting, errors>>
  BY DEF emitBreak, Now
<1>2. EmittingStmt("break")
  BY DEF emitBreak
<1>3. PICK l, m \in Levels :
                /\ AtLevel(l) /\ Fit(Tail(todo), m)
                /\ Fine(s, Open(l), l.free, l.emit) /\ Stays(l, m) /\ Uses(l, m, LoopIds(s))
  BY <1>2, StmtStarts
<1>4. todo # <<>> /\ Pending(x) = {} /\ s.k = "break"
  BY <1>2, StmtStarts
<1>5. l.emit = <<>>
  BY <1>3, <1>4, NotDeferred
<1>6. s.to \in Range(l.loops)
  <2>1. s.to \in Targets[s]
    BY <1>3, <1>4, JumpTargets DEF Fine
  <2> QED BY <1>3, <2>1 DEF Fine, Open
<1>7. Entry(unwind, l, l) /\ Pending(unwind) = {}
  BY <1>3, <1>5, UnwindEntered
<1>8. jump.t = "code" /\ jump.c = g /\ g.op = "goto"
  BY DEF CodeTask, Goto, C
<1>9. \E n \in Range(l.loops) : g = Goto(n, "end")
  BY <1>6
<1> HIDE DEF x, unwind, jump, g
<1>10. Pending(jump) = {g}
  BY <1>8 DEF Pending
<1>11. Entry(jump, l, m)
  <2>1. Uses(l, m, {})
    BY <1>3, FewerUsed
  <2> QED BY <1>3, <1>8, <1>9, <2>1 DEF CodeEntry, Entry
<1>12. Fit(tasks \o Tail(todo), l)
  BY <1>3, <1>7, <1>11, TwoFit
<1>13. Sequence(tasks) /\ PendingIn(tasks) = {g}
  <2>1. PendingIn(tasks) = Pending(unwind) \cup Pending(jump) /\ Sequence(tasks)
    BY Two
  <2> QED BY <1>7, <1>10, <2>1
<1> HIDE DEF tasks
<1>14. Closed(Range(<<>>) \cup PendingIn(tasks), Code \cup Range(<<>>) \cup PendingIn(tasks))
  BY <1>8, <1>13, NoCode DEF Closed
<1>15. errors' = FALSE /\ defer_stack_' = l.scopes /\ emitting' = l.emit
  BY <1>1, <1>3 DEF EmitInv, AtLevel
<1>16. Pending(x) \subseteq Range(<<>>) \cup PendingIn(tasks)
  BY <1>4
<1> QED BY <1>1, <1>3, <1>4, <1>12, <1>13, <1>14, <1>15, <1>16, NoCode, QuietStep DEF x

LEMMA emitContinueFits ==
    ASSUME EmitInv, emitContinue
    PROVE  EmitInv'
<1> DEFINE x == Head(todo)
           s == x.s
           mark == {i \in DOMAIN loop_id_stack_ :
                     /\ loop_id_stack_[i] = s.to
                     /\ \A j \in DOMAIN loop_id_stack_ : j > i => loop_id_stack_[j] # s.to}
           marked == [i \in DOMAIN loop_has_continue_ |-> loop_has_continue_[i] \/ i \in mark]
           unwind == FromInnermost(s.to)
           g == Goto(s.to, "continue")
           jump == CodeTask(g)
           tasks == <<unwind, jump>>
<1>1. /\ EmittingStmt("continue") /\ Emit(<<>>, tasks) /\ loop_has_continue_' = marked
      /\ UNCHANGED <<defer_stack_, loop_id_stack_, emitting, errors>>
  BY DEF emitContinue, MarkContinue, Now
<1>2. PICK l, m \in Levels :
                /\ AtLevel(l) /\ Fit(Tail(todo), m)
                /\ Fine(s, Open(l), l.free, l.emit) /\ Stays(l, m) /\ Uses(l, m, LoopIds(s))
  BY <1>1, StmtStarts
<1>3. todo # <<>> /\ Pending(x) = {} /\ s.k = "continue"
  BY <1>1, StmtStarts
<1>4. l.emit = <<>>
  BY <1>2, <1>3, NotDeferred
<1>5. s.to \in Range(l.loops) /\ s.to \in Nat
  <2>1. s.to \in Targets[s] /\ s.to \in Nat
    BY <1>2, <1>3, JumpTargets DEF Fine
  <2> QED BY <1>2, <2>1 DEF Fine, Open
<1>6. /\ l.loops = loop_id_stack_ /\ DOMAIN loop_id_stack_ = 1..Len(l.loops) /\ Len(l.loops) \in Nat
      /\ loop_has_continue_ \in Seq(BOOLEAN) /\ Len(loop_has_continue_) = Len(l.loops) /\ Distinct(l.loops)
  BY <1>2, LevelParts DEF AtLevel
<1>7. /\ marked \in Seq(BOOLEAN) /\ Len(marked) = Len(l.loops)
      /\ \A i \in DOMAIN l.loops : loop_has_continue_[i] => marked[i]
      /\ \A i \in DOMAIN l.loops : l.loops[i] = s.to => marked[i]
  <2> DEFINE n == Len(l.loops)
  <2>1. DOMAIN loop_has_continue_ = 1..n /\ n \in Nat
    BY <1>6
  <2>2. \A i \in 1..n : loop_has_continue_[i] \in BOOLEAN
    BY <1>6
  <2>3. \A i \in 1..n : l.loops[i] = s.to => i \in mark
    <3> SUFFICES ASSUME NEW i \in 1..n, l.loops[i] = s.to PROVE i \in mark
      OBVIOUS
    <3>1. \A j \in 1..n : l.loops[j] = s.to => j = i
      BY <1>6 DEF Distinct
    <3>2. \A j \in 1..n : j > i => l.loops[j] # s.to
      BY <2>1, <3>1
    <3> QED BY <1>6, <3>2
  <2> HIDE DEF mark, n
  <2>4. marked = [i \in 1..n |-> loop_has_continue_[i] \/ i \in mark]
    BY <2>1
  <2> HIDE DEF marked
  <2>5. marked \in [1..n -> BOOLEAN]
    BY <2>4
  <2>6. marked \in Seq(BOOLEAN) /\ Len(marked) = n
    BY <2>1, <2>5
  <2>7. DOMAIN l.loops = 1..n
    BY <1>6 DEF n
  <2> QED BY <2>3, <2>4, <2>6, <2>7 DEF n
<1> HIDE DEF marked, mark
<1> DEFINE marks == l.marks \cup {s.to}
<1>8. marks \in SUBSET Nat /\ l.marks \subseteq marks /\ s.to \in marks
  BY <1>5, LevelParts
<1>9. l.free \cap marks = {}
  BY <1>2, <1>5, LevelParts DEF AtLevel
<1>10. \A i \in DOMAIN l.loops : l.loops[i] \in marks => marked[i]
  BY <1>2, <1>7 DEF AtLevel
<1> HIDE DEF marks
<1>11. PICK n \in Levels : n.scopes = l.scopes /\ n.loops = l.loops /\ n.emit = l.emit
                          /\ n.free = l.free /\ n.marks = marks
  BY <1>8, WithMarks
<1>12. Stays(n, m) /\ Uses(n, m, {})
  BY <1>2, <1>8, <1>11 DEF Stays, Uses
<1>13. Entry(unwind, n, n) /\ Pending(unwind) = {}
  <2>1. unwind.t = "unwind" /\ unwind.i = Len(n.scopes)
    BY <1>2, <1>11 DEF FromInnermost, UnwindTask, AtLevel
  <2>2. Len(n.scopes) \in 0..Len(n.scopes)
    BY LevelParts
  <2> HIDE DEF unwind
  <2> QED BY <1>4, <1>11, <2>1, <2>2, SameLevel DEF UnwindEntry, Entry, Pending
<1>14. jump.t = "code" /\ jump.c = g /\ g.op = "goto"
  BY DEF CodeTask, Goto, C
<1>15. \E k \in Range(n.loops) \cap n.marks : g = Goto(k, "continue")
  BY <1>5, <1>8, <1>11
<1> HIDE DEF x, unwind, jump, g
<1>16. Pending(jump) = {g}
  BY <1>14 DEF Pending
<1>17. Entry(jump, n, m)
  BY <1>12, <1>14, <1>15 DEF CodeEntry, Entry
<1>18. Fit(tasks \o Tail(todo), n)
  BY <1>2, <1>13, <1>17, TwoFit
<1>19. Sequence(tasks) /\ PendingIn(tasks) = {g}
  <2>1. PendingIn(tasks) = Pending(unwind) \cup Pending(jump) /\ Sequence(tasks)
    BY Two
  <2> QED BY <1>13, <1>16, <2>1
<1> HIDE DEF tasks
<1>20. Closed(Range(<<>>) \cup PendingIn(tasks), Code \cup Range(<<>>) \cup PendingIn(tasks))
  BY <1>14, <1>19, NoCode DEF Closed
<1>21. out' = out
  <2>1. out \in Seq(Instrs) /\ out' = out \o <<>>
    BY <1>1 DEF Emit, EmitInv, Written
  <2> QED BY <2>1
<1>22. JumpsFit(out', loop_id_stack_', loop_has_continue_')
  <2>1. JumpsFit(out, loop_id_stack_, loop_has_continue_)
    BY DEF EmitInv, Written
  <2>2. \A c : Resolved(c, out, loop_id_stack_, loop_has_continue_) => Resolved(c, out, loop_id_stack_, marked)
    BY <1>6, <1>7 DEF Resolved
  <2>3. JumpsFit(out, loop_id_stack_, marked)
    BY <2>1, <2>2 DEF JumpsFit
  <2> QED BY <1>1, <1>21, <2>3
<1>23. /\ errors' = FALSE /\ defer_stack_' = n.scopes /\ emitting' = n.emit /\ loop_id_stack_' = n.loops
       /\ loop_has_continue_' \in Seq(BOOLEAN) /\ Len(loop_has_continue_') = Len(n.loops)
       /\ \A i \in DOMAIN n.loops : n.loops[i] \in n.marks => loop_has_continue_'[i]
       /\ n.free \cap n.marks = {}
       /\ \A k \in n.free : Label(k, "start") \notin Range(out')
  BY <1>1, <1>2, <1>7, <1>9, <1>10, <1>11, <1>21 DEF EmitInv, AtLevel
<1>24. Pending(x) \subseteq Range(<<>>) \cup PendingIn(tasks)
  BY <1>3
<1> QED BY <1>1, <1>2, <1>3, <1>18, <1>19, <1>20, <1>22, <1>23, <1>24, NoCode, LoudStep DEF x

(* Labels stay unique if the new ones are. *)
UniqueLabels(q) == \A i, j \in DOMAIN q : q[i].op = "label" /\ q[i] = q[j] => i = j

LEMMA UniqueJoined ==
    ASSUME NEW p \in Seq(Instrs), NEW q \in Seq(Instrs), UniqueLabels(p), UniqueLabels(q),
           \A c \in Range(q) : c.op = "label" => c \notin Range(p)
    PROVE  UniqueLabels(p \o q)
<1> DEFINE r == p \o q
           n == Len(p)
<1>1. /\ n \in Nat /\ DOMAIN p = 1..n /\ \A i \in 1..n : r[i] = p[i]
      /\ Len(q) \in Nat /\ DOMAIN q = 1..Len(q) /\ DOMAIN r = 1..n + Len(q)
      /\ \A i \in 1..Len(q) : r[n + i] = q[i]
  OBVIOUS
<1> HIDE DEF r, n
<1>2. ASSUME NEW i \in DOMAIN r PROVE \/ i \in DOMAIN p /\ r[i] = p[i] /\ r[i] \in Range(p)
                                     \/ \E k \in DOMAIN q : i = n + k /\ r[i] = q[k] /\ r[i] \in Range(q)
  <2>1. CASE i <= n
    <3>1. i \in 1..n
      BY <1>1, <2>1
    <3> QED BY <1>1, <3>1 DEF Range
  <2>2. CASE ~(i <= n)
    <3>1. i - n \in 1..Len(q) /\ n + (i - n) = i
      BY <1>1, <2>2
    <3>2. r[i] = q[i - n]
      BY <1>1, <3>1
    <3> QED BY <1>1, <3>1, <3>2 DEF Range
  <2> QED BY <2>1, <2>2
<1>3. ASSUME NEW i \in DOMAIN r, NEW j \in DOMAIN r, r[i].op = "label", r[i] = r[j]
      PROVE  i = j
  BY <1>2, <1>3 DEF UniqueLabels
<1> QED BY <1>3 DEF UniqueLabels, r

LEMMA UniqueCalm ==
    ASSUME NEW p, Calm(p)
    PROVE  p \in Seq(Instrs) /\ UniqueLabels(p) /\ \A c \in Range(p) : c.op # "label"
BY DEF Calm, UniqueLabels, Range

LEMMA UniqueTwo ==
    ASSUME NEW c \in Instrs, NEW d \in Instrs, (c.op # "label" \/ d.op # "label")
    PROVE  <<c, d>> \in Seq(Instrs) /\ UniqueLabels(<<c, d>>) /\ Range(<<c, d>>) = {c, d}
<1> DEFINE q == <<c, d>>
<1>1. q \in Seq(Instrs) /\ Range(q) = {c, d}
  BY DEF Range
<1>2. DOMAIN q = 1..2 /\ q[1] = c /\ q[2] = d
  OBVIOUS
<1> HIDE DEF q
<1>3. \A i \in 1..2 : i = 1 \/ i = 2
  OBVIOUS
<1>4. UniqueLabels(q)
  BY <1>2, <1>3 DEF UniqueLabels
<1> QED BY <1>1, <1>4 DEF q

(* The level inside a loop. *)
LEMMA WithLoop ==
    ASSUME NEW l \in Levels, NEW id \in l.free, id \in Nat, id <= MaxLoopIds
    PROVE  \E n \in Levels : n.scopes = l.scopes /\ n.loops = Append(l.loops, id) /\ n.emit = l.emit
                              /\ n.free = l.free \ {id} /\ n.marks = l.marks
<1> DEFINE q == Append(l.loops, id)
           f == l.free \ {id}
           n == [scopes |-> l.scopes, loops |-> q, emit |-> l.emit, free |-> f, marks |-> l.marks]
<1>1. /\ l.scopes \in Seq(DeferScopes) /\ l.loops \in Seq(0..MaxLoopIds) /\ l.emit \in Seq(Nat)
      /\ f \in SUBSET LoopNumbers /\ l.marks \in SUBSET Nat /\ id \in Nat /\ id \notin Range(l.loops)
      /\ Distinct(l.loops) /\ Distinct(l.emit) /\ l.free \cap Range(l.loops) = {}
  BY LevelParts
<1>2. id \in 0..MaxLoopIds
  BY <1>1, DeferConstants
<1>3. /\ q \in Seq(0..MaxLoopIds) /\ DOMAIN q = 1..Len(l.loops) + 1 /\ DOMAIN l.loops = 1..Len(l.loops)
      /\ Len(l.loops) \in Nat /\ q[Len(l.loops) + 1] = id /\ \A i \in 1..Len(l.loops) : q[i] = l.loops[i]
  BY <1>1, <1>2
<1> HIDE DEF q
<1>4. \A i \in DOMAIN q : \/ i \in DOMAIN l.loops /\ q[i] = l.loops[i] /\ q[i] \in Range(l.loops)
                          \/ i = Len(l.loops) + 1 /\ q[i] = id
  BY <1>3 DEF Range
<1>5. Distinct(q)
  <2> SUFFICES ASSUME NEW i \in DOMAIN q, NEW j \in DOMAIN q, q[i] = q[j] PROVE i = j
    BY DEF Distinct
  <2>1. CASE i \in DOMAIN l.loops /\ q[i] = l.loops[i] /\ q[i] \in Range(l.loops)
    <3>1. j \in DOMAIN l.loops /\ q[j] = l.loops[j]
      BY <1>1, <1>4, <2>1
    <3>2. \A a, b \in DOMAIN l.loops : l.loops[a] = l.loops[b] => a = b
      BY <1>1 DEF Distinct
    <3> QED BY <2>1, <3>1, <3>2
  <2>2. CASE i = Len(l.loops) + 1 /\ q[i] = id
    BY <1>1, <1>4, <2>2
  <2> QED BY <1>4, <2>1, <2>2
<1>6. f \cap Range(q) = {}
  BY <1>1, <1>4 DEF Range
<1> HIDE DEF f
<1>7. n \in Levels
  BY <1>1, <1>3, <1>5, <1>6 DEF Levels
<1> QED BY <1>7 DEF q, f

LEMMA EventOnly ==
    ASSUME NEW n
    PROVE  \A c \in Range(Event(n)) : c.op = "event"
<1> DEFINE d == C("event", n, "")
<1>1. d.op = "event"
  BY DEF C
<1> HIDE DEF d
<1>2. Range(<<d>>) = {d}
  BY DEF Range
<1>3. Event(n) = <<>> \/ Event(n) = <<d>>
  BY DEF Event, d
<1> QED BY <1>1, <1>2, <1>3, NoCode

(* A loop is opened: its start label is new, its other labels come later. *)
LEMMA JumpsOpened ==
    ASSUME NEW q \in Seq(Instrs), NEW loops \in Seq(Nat), NEW cont \in Seq(BOOLEAN), Len(cont) = Len(loops),
           JumpsFit(q, loops, cont), NEW id \in Nat, Label(id, "start") \notin Range(q), NEW first \in Nat
    PROVE  LET code == Event(first) \o <<Label(id, "start"), C("unless", id, "end")>>
           IN  /\ code \in Seq(Instrs) /\ JumpsFit(q \o code, Append(loops, id), Append(cont, FALSE))
               /\ \A c \in Range(code) : c.op \in {"event", "label", "unless"}
               /\ \A n : n # id /\ Label(n, "start") \notin Range(q) => Label(n, "start") \notin Range(q \o code)
<1> DEFINE a == Label(id, "start")
           u == C("unless", id, "end")
           e == Event(first)
           p == <<a, u>>
           code == e \o p
           r == q \o code
           L == Append(loops, id)
           K == Append(cont, FALSE)
<1>1. /\ a \in Instrs /\ a.op = "label" /\ a.n = id /\ a.at = "start"
      /\ u \in Instrs /\ u.op = "unless" /\ u.n = id /\ u.at = "end"
  <2>1. u \in Instrs /\ u.op = "unless" /\ u.n = id /\ u.at = "end"
    BY DEF C, Instrs, Ops
  <2> QED BY <2>1, LabelCode
<1>2. Calm(e)
  BY CalmEvent
<1>3. /\ e \in Seq(Instrs) /\ UniqueLabels(e) /\ \A c \in Range(e) : c.op = "event" \/ c.op \notin {"label", "goto", "unless"}
  <2>1. \A c \in Range(e) : c.op \notin {"label", "goto", "unless"}
    BY <1>2 DEF Calm
  <2> QED BY <1>2, <2>1, UniqueCalm
<1>4. \A c \in Range(e) : c.op = "event"
  BY EventOnly
<1> HIDE DEF a, u, e
<1>5. p \in Seq(Instrs) /\ UniqueLabels(p) /\ Range(p) = {a, u}
  BY <1>1, UniqueTwo
<1> HIDE DEF p
<1>6. code \in Seq(Instrs) /\ Range(code) = Range(e) \cup {a, u}
  <2>1. Range(e \o p) = Range(e) \cup Range(p)
    BY <1>3, <1>5, RangeJoined
  <2> QED BY <1>3, <1>5, <2>1
<1>7. UniqueLabels(code)
  BY <1>1, <1>3, <1>4, <1>5, UniqueJoined
<1> HIDE DEF code
<1>8. \A c \in Range(code) : c.op = "label" => c = a
  BY <1>1, <1>4, <1>6
<1>9. a \notin Range(q)
  BY DEF a
<1>10. UniqueLabels(r)
  <2>1. UniqueLabels(q)
    BY DEF JumpsFit, UniqueLabels
  <2> QED BY <1>6, <1>7, <1>8, <1>9, <2>1, UniqueJoined
<1>11. Range(r) = Range(q) \cup Range(e) \cup {a, u} /\ r \in Seq(Instrs)
  BY <1>6, RangeJoined
<1> HIDE DEF r
<1>12. \A n, at : Label(n, at) \in Range(r) => Label(n, at) \in Range(q) \/ (n = id /\ at = "start")
  <2> SUFFICES ASSUME NEW n, NEW at, Label(n, at) \in Range(r), Label(n, at) \notin Range(q)
               PROVE  n = id /\ at = "start"
    OBVIOUS
  <2>1. Label(n, at).op = "label" /\ Label(n, at).n = n /\ Label(n, at).at = at
    BY DEF Label, C
  <2>2. Label(n, at) = a
    BY <1>1, <1>4, <1>11, <2>1
  <2> QED BY <1>1, <2>1, <2>2
<1>13. /\ DOMAIN L = 1..Len(loops) + 1 /\ DOMAIN loops = 1..Len(loops) /\ Len(loops) \in Nat
       /\ L[Len(loops) + 1] = id /\ \A i \in 1..Len(loops) : L[i] = loops[i]
  OBVIOUS
<1>14. \A i \in 1..Len(loops) : K[i] = cont[i]
  <2>1. FALSE \in BOOLEAN
    OBVIOUS
  <2>2. \A i \in 1..Len(cont) : Append(cont, FALSE)[i] = cont[i]
    BY <2>1, AppendKeeps, Zenon
  <2> QED BY <2>2
<1> HIDE DEF L, K
<1>15. Range(L) = Range(loops) \cup {id}
  <2>1. \A i \in DOMAIN L : (i \in DOMAIN loops /\ L[i] = loops[i]) \/ L[i] = id
    <3>1. \A i \in 1..Len(loops) + 1 : i \in 1..Len(loops) \/ i = Len(loops) + 1
      BY <1>13
    <3> QED BY <1>13, <3>1
  <2>2. \A i \in DOMAIN loops : i \in DOMAIN L /\ L[i] = loops[i]
    BY <1>13
  <2>3. Len(loops) + 1 \in DOMAIN L /\ L[Len(loops) + 1] = id
    BY <1>13
  <2> QED BY <2>1, <2>2, <2>3 DEF Range
<1>16. \A n, at : Label(n, at) \in Range(q) => Label(n, "start") \in Range(q)
  <2>1. \A n, at : Label(n, at).op = "label" /\ Label(n, at).n = n
    BY DEF Label, C
  <2> QED BY <2>1 DEF JumpsFit
<1>17. \A c \in Range(r) : c.op = "label" => Label(c.n, "start") \in Range(r)
  <2> SUFFICES ASSUME NEW c \in Range(r), c.op = "label" PROVE Label(c.n, "start") \in Range(r)
    OBVIOUS
  <2>1. CASE c \in Range(q)
    BY <1>11, <2>1 DEF JumpsFit
  <2>2. CASE c \notin Range(q)
    <3>1. c = a
      BY <1>1, <1>4, <1>11, <2>2
    <3> QED BY <1>1, <1>11, <3>1 DEF a
  <2> QED BY <2>1, <2>2
<1>18. \A n \in Range(L) :
         /\ Label(n, "start") \in Range(r)
         /\ Label(n, "end") \notin Range(r) /\ Label(n, "continue") \notin Range(r)
  <2> SUFFICES ASSUME NEW n \in Range(L)
               PROVE  /\ Label(n, "start") \in Range(r)
                      /\ Label(n, "end") \notin Range(r) /\ Label(n, "continue") \notin Range(r)
    OBVIOUS
  <2>1. Label(n, "end") \notin Range(q) /\ Label(n, "continue") \notin Range(q)
    BY <1>15, <1>16 DEF JumpsFit
  <2>2. Label(n, "start") \in Range(r)
    BY <1>11, <1>15 DEF JumpsFit, a
  <2> QED BY <1>12, <2>1, <2>2
<1>19. \A c \in Range(r) : c.op \in {"goto", "unless"} => Resolved(c, r, L, K)
  <2> SUFFICES ASSUME NEW c \in Range(r), c.op \in {"goto", "unless"} PROVE Resolved(c, r, L, K)
    OBVIOUS
  <2>1. CASE c \in Range(q)
    <3>1. Resolved(c, q, loops, cont)
      BY <2>1 DEF JumpsFit
    <3>2. CASE Label(c.n, c.at) \in Range(q)
      BY <1>11, <3>2 DEF Resolved
    <3>3. CASE c.at = "end" /\ c.n \in Range(loops)
      BY <1>15, <3>3 DEF Resolved
    <3>4. CASE c.at = "continue" /\ \E i \in DOMAIN loops : loops[i] = c.n /\ cont[i]
      <4>1. PICK i \in DOMAIN loops : loops[i] = c.n /\ cont[i]
        BY <3>4
      <4>2. i \in DOMAIN L /\ L[i] = c.n /\ K[i]
        BY <1>13, <1>14, <4>1
      <4> QED BY <3>4, <4>2 DEF Resolved
    <3> QED BY <3>1, <3>2, <3>3, <3>4 DEF Resolved
  <2>2. CASE c \notin Range(q)
    <3>1. c = u
      BY <1>1, <1>4, <1>11, <2>2
    <3> QED BY <1>1, <1>15, <3>1 DEF Resolved
  <2> QED BY <2>1, <2>2
<1>20. JumpsFit(r, L, K)
  BY <1>10, <1>17, <1>18, <1>19 DEF JumpsFit, UniqueLabels
<1>21. \A c \in Range(code) : c.op \in {"event", "label", "unless"}
  BY <1>1, <1>4, <1>6
<1>22. \A n : n # id /\ Label(n, "start") \notin Range(q) => Label(n, "start") \notin Range(r)
  BY <1>12
<1> QED BY <1>6, <1>20, <1>21, <1>22 DEF a, u, e, p, code, r, L, K

LEMMA OpenLoopFits ==
    ASSUME EmitInv, NEW k \in {"while", "for"}, EmittingStmt(k), NEW first \in Nat, NEW iter \in Nat,
           OpenLoop(Now.s.id, first, iter, Now.s.id, Now.s.body)
    PROVE  EmitInv'
<1> DEFINE x == Head(todo)
           s == x.s
           id == s.id
           b == s.body
           code == Event(first) \o <<Label(id, "start"), C("unless", id, "end")>>
           block == BlockTask(b, id)
           end == LoopEndTask(id, iter)
           tasks == <<block, end>>
<1>1. /\ id < MaxLoopIds /\ Emit(code, tasks)
      /\ loop_id_stack_' = Append(loop_id_stack_, id)
      /\ loop_has_continue_' = Append(loop_has_continue_, FALSE)
      /\ UNCHANGED <<defer_stack_, emitting, errors>>
  BY DEF OpenLoop, Now
<1>2. PICK l, m \in Levels :
                /\ AtLevel(l) /\ Fit(Tail(todo), m)
                /\ Fine(s, Open(l), l.free, l.emit) /\ Stays(l, m) /\ Uses(l, m, LoopIds(s))
  BY StmtStarts
<1>3. todo # <<>> /\ Pending(x) = {} /\ s.k \in {"while", "for"}
  BY StmtStarts
<1>4. Loop(s) /\ s \in Statements /\ b \in Blocks(s)
  BY <1>2, <1>3 DEF Loop, Fine, Blocks
<1>5. id \in Nat /\ id \in LoopIds(s) /\ id \in l.free
  BY <1>2, <1>4, SelfGathers, DeferConstants DEF StatementTypes, Fine
<1>6. l.emit = <<>>
  BY <1>2, <1>4, NotDeferred
<1>7. id <= MaxLoopIds
  BY <1>1, <1>5, DeferConstants
<1> HIDE DEF id
<1>8. PICK n \in Levels : n.scopes = l.scopes /\ n.loops = Append(l.loops, id) /\ n.emit = l.emit
                              /\ n.free = l.free \ {id} /\ n.marks = l.marks
  BY <1>5, <1>7, WithLoop
<1>9. /\ n.loops # <<>> /\ Front(n.loops) = l.loops /\ n.loops[Len(n.loops)] = id
      /\ Range(n.loops) = Range(l.loops) \cup {id} /\ DOMAIN n.loops = 1..Len(l.loops) + 1
      /\ Len(l.loops) \in Nat /\ Len(n.loops) = Len(l.loops) + 1
      /\ DOMAIN l.loops = 1..Len(l.loops) /\ \A i \in 1..Len(l.loops) : n.loops[i] = l.loops[i]
  <2>1. l.loops \in Seq(Nat)
    BY LevelParts, DeferConstants
  <2> DEFINE r == Append(l.loops, id)
  <2>2. /\ r # <<>> /\ Front(r) = l.loops /\ Len(r) = Len(l.loops) + 1 /\ r[Len(r)] = id
        /\ DOMAIN r = 1..Len(l.loops) + 1 /\ DOMAIN l.loops = 1..Len(l.loops) /\ Len(l.loops) \in Nat
        /\ \A i \in 1..Len(l.loops) : r[i] = l.loops[i]
    <3>1. r = Append(l.loops, id)
      OBVIOUS
    <3> HIDE DEF r, s, x, b
    <3>2. id \in Nat /\ r = Grown(l.loops, id)
      BY <1>5, <3>1 DEF Grown
    <3> DEFINE q == l.loops
    <3>3. q \in Seq(Nat) /\ r = Grown(q, id)
      BY <2>1, <3>2
    <3> HIDE DEF q
    <3>4. /\ r # <<>> /\ Front(r) = q /\ Len(r) = Len(q) + 1 /\ r[Len(r)] = id
          /\ DOMAIN r = 1..Len(q) + 1 /\ DOMAIN q = 1..Len(q) /\ Len(q) \in Nat
          /\ \A i \in 1..Len(q) : r[i] = q[i]
      BY <3>2, <3>3, GrownNumber
    <3> QED BY <3>4 DEF q
  <2> HIDE DEF r
  <2>3. Range(r) = Range(l.loops) \cup {id}
    BY <2>2 DEF Range
  <2> QED BY <1>8, <2>2, <2>3 DEF r
<1>10. Open(l) \subseteq Open(n) \cup {id}
  BY <1>8, <1>9 DEF Open
<1>11. /\ FineBlock(b, Open(n) \cup {id}, n.free, n.emit)
       /\ DeferCount(b) <= MaxDefers
       /\ Owned(b) \subseteq LoopIds(s)
  <2> DEFINE inner == Open(n) \cup {id}
  <2>1. Open(l) \subseteq inner /\ s.id \in inner
    BY <1>10 DEF id
  <2> HIDE DEF inner, b, s
  <2>2. /\ FineBlock(b, inner, l.free \ (IF Loop(s) THEN {s.id} ELSE {}), l.emit)
        /\ DeferCount(b) <= MaxDefers
        /\ Owned(b) \subseteq LoopIds(s)
    BY <1>2, <1>4, <2>1, BlockFine
  <2>3. l.free \ (IF Loop(s) THEN {s.id} ELSE {}) = n.free
    BY <1>4, <1>8 DEF id
  <2> QED BY <1>8, <2>2, <2>3 DEF inner
<1>12. PICK r \in Levels : Stays(n, r) /\ r.free = n.free \ Owned(b) /\ r.marks = n.marks
  BY WithoutLoops
<1> HIDE DEF x, b
<1>13. block.t = "block" /\ block.b = b /\ block.label = id
  BY DEF BlockTask
<1>14. end.t = "loopend" /\ end.id = id /\ end.iter = iter
  BY DEF LoopEndTask
<1> HIDE DEF block, end
<1>15. Entry(block, n, r) /\ Pending(block) = {}
  <2>1. Pending(block) = {}
    BY <1>13 DEF Pending
  <2>2. {id} \cap Range(n.loops) = {id}
    BY <1>9
  <2>3. Uses(n, r, Owned(b))
    BY <1>12 DEF Uses
  <2>4. BlockEntry(block, n, r)
    BY <1>9, <1>11, <1>12, <1>13, <2>2, <2>3 DEF BlockEntry
  <2> QED BY <2>1, <2>4 DEF Entry
<1>16. Entry(end, r, m) /\ Pending(end) = {}
  <2>1. Pending(end) = {}
    BY <1>14 DEF Pending
  <2>2. Uses(r, m, {})
    BY <1>2, <1>5, <1>8, <1>11, <1>12 DEF Uses
  <2>3. r.loops = n.loops /\ m.loops = l.loops /\ m.scopes = r.scopes /\ m.emit = r.emit
    BY <1>2, <1>8, <1>12 DEF Stays
  <2>4. LoopEndEntry(end, r, m)
    BY <1>9, <1>14, <2>2, <2>3 DEF LoopEndEntry
  <2> QED BY <2>1, <2>4 DEF Entry
<1>17. Fit(tasks \o Tail(todo), n)
  BY <1>2, <1>15, <1>16, TwoFit
<1>18. Sequence(tasks) /\ PendingIn(tasks) = {}
  BY <1>15, <1>16, TwoTasks
<1> HIDE DEF tasks
<1>19. /\ out \in Seq(Instrs) /\ JumpsFit(out, loop_id_stack_, loop_has_continue_) /\ out' = out \o code
       /\ loop_id_stack_ = l.loops /\ l.loops \in Seq(Nat)
       /\ loop_has_continue_ \in Seq(BOOLEAN) /\ Len(loop_has_continue_) = Len(l.loops)
       /\ Label(id, "start") \notin Range(out)
  <2>1. l.loops \in Seq(Nat)
    BY LevelParts, DeferConstants
  <2>2. out' = out \o code
    BY <1>1 DEF Emit
  <2> HIDE DEF code
  <2> QED BY <1>2, <1>5, <2>1, <2>2 DEF EmitInv, Written, AtLevel
<1>20. /\ code \in Seq(Instrs) /\ JumpsFit(out \o code, Append(l.loops, id), Append(loop_has_continue_, FALSE))
       /\ \A c \in Range(code) : c.op \in {"event", "label", "unless"}
       /\ \A i : i # id /\ Label(i, "start") \notin Range(out) => Label(i, "start") \notin Range(out \o code)
  BY <1>5, <1>19, JumpsOpened
<1> HIDE DEF code
<1>21. Closed(Range(code) \cup PendingIn(tasks), Code \cup Range(code) \cup PendingIn(tasks))
  BY <1>18, <1>20 DEF Closed
<1>22. JumpsFit(out', loop_id_stack_', loop_has_continue_')
  BY <1>1, <1>19, <1>20
<1>23. \A i \in n.free : Label(i, "start") \notin Range(out')
  BY <1>2, <1>8, <1>19, <1>20 DEF AtLevel
<1>24. /\ loop_has_continue_' \in Seq(BOOLEAN) /\ Len(loop_has_continue_') = Len(n.loops)
       /\ \A i \in DOMAIN n.loops : n.loops[i] \in n.marks => loop_has_continue_'[i]
  <2> DEFINE q == Append(loop_has_continue_, FALSE)
  <2>1. FALSE \in BOOLEAN
    OBVIOUS
  <2>2. /\ q \in Seq(BOOLEAN) /\ Len(q) = Len(l.loops) + 1
        /\ \A i \in 1..Len(l.loops) : q[i] = loop_has_continue_[i]
    <3>1. q = Append(loop_has_continue_, FALSE)
      OBVIOUS
    <3> HIDE DEF q
    <3>2. /\ q \in Seq(BOOLEAN) /\ Len(q) = Len(loop_has_continue_) + 1
          /\ \A i \in 1..Len(loop_has_continue_) : q[i] = loop_has_continue_[i]
      <4>1. loop_has_continue_ \in Seq(BOOLEAN) /\ q = Unmarked(loop_has_continue_)
        BY <1>19, <3>1 DEF Unmarked
      <4> QED BY <4>1, GrownTruth, Zenon
    <3> QED BY <1>19, <3>2
  <2> HIDE DEF q
  <2>3. id \notin n.marks
    BY <1>2, <1>5, <1>8 DEF AtLevel
  <2>4. ASSUME NEW i \in DOMAIN n.loops, n.loops[i] \in n.marks PROVE q[i]
    <3>1. i # Len(l.loops) + 1
      BY <1>9, <2>3, <2>4
    <3>2. i \in 1..Len(l.loops)
      BY <1>9, <3>1
    <3>3. l.loops[i] \in l.marks /\ i \in DOMAIN l.loops
      BY <1>8, <1>9, <2>4, <3>2
    <3> QED BY <1>2, <2>2, <3>2, <3>3 DEF AtLevel
  <2> QED BY <1>1, <1>9, <2>2, <2>4 DEF q
<1>25. errors' = FALSE /\ defer_stack_' = n.scopes /\ emitting' = n.emit /\ loop_id_stack_' = n.loops
       /\ n.free \cap n.marks = {}
  BY <1>1, <1>2, <1>8 DEF EmitInv, AtLevel
<1>26. Emit(code, tasks)
  BY <1>1
<1>27. Pending(Head(todo)) \subseteq Range(code) \cup PendingIn(tasks)
  BY <1>3 DEF x
<1> QED BY <1>2, <1>3, <1>17, <1>18, <1>20, <1>21, <1>22, <1>23, <1>24, <1>25, <1>26, <1>27, LoudStep

LEMMA LoopsFit ==
    ASSUME EmitInv, emitWhile \/ emitFor
    PROVE  EmitInv'
<1>1. CASE emitWhile
  <2>1. EmittingStmt("while") /\ OpenLoop(Now.s.id, 0, Now.s.iter, Now.s.id, Now.s.body)
    BY <1>1 DEF emitWhile
  <2>2. Now.s \in Statements /\ Now.s.k = "while"
    BY <2>1, StmtStarts DEF Now, Fine
  <2>3. Now.s.iter \in Nat
    BY <2>2, DeferConstants DEF StatementTypes
  <2> QED BY <2>1, <2>3, OpenLoopFits
<1>2. CASE emitFor
  <2>1. EmittingStmt("for") /\ OpenLoop(Now.s.id, Now.s.n, 0, Now.s.id, Now.s.body)
    BY <1>2 DEF emitFor
  <2>2. Now.s \in Statements /\ Now.s.k = "for"
    BY <2>1, StmtStarts DEF Now, Fine
  <2>3. Now.s.n \in Nat
    BY <2>2, DeferConstants DEF StatementTypes
  <2> QED BY <2>1, <2>3, OpenLoopFits
<1> QED BY <1>1, <1>2

LEMMA UniqueOne ==
    ASSUME NEW c \in Instrs
    PROVE  <<c>> \in Seq(Instrs) /\ UniqueLabels(<<c>>) /\ Range(<<c>>) = {c}
BY DEF UniqueLabels, Range

(* The stack without its last loop. *)
LEMMA FrontOf ==
    ASSUME NEW loops \in Seq(Nat), loops # <<>>, Distinct(loops)
    PROVE  /\ Front(loops) \in Seq(Nat) /\ Len(Front(loops)) = Len(loops) - 1
           /\ DOMAIN Front(loops) = 1..Len(loops) - 1 /\ DOMAIN loops = 1..Len(loops)
           /\ Len(loops) \in Nat \ {0} /\ Len(loops) \in DOMAIN loops
           /\ \A i \in 1..Len(loops) - 1 : Front(loops)[i] = loops[i]
           /\ loops[Len(loops)] \notin Range(Front(loops))
           /\ Range(loops) = Range(Front(loops)) \cup {loops[Len(loops)]}
<1> DEFINE n == Len(loops)
           f == Front(loops)
<1>1. n \in Nat /\ n > 0 /\ DOMAIN loops = 1..n
  OBVIOUS
<1>2. /\ f \in Seq(Nat) /\ Len(f) = n - 1 /\ DOMAIN f = 1..n - 1
      /\ \A i \in 1..n - 1 : f[i] = loops[i]
  BY <1>1 DEF Front
<1> HIDE DEF n, f
<1>3. loops[n] \notin Range(f)
  <2> SUFFICES ASSUME NEW i \in DOMAIN f, f[i] = loops[n] PROVE FALSE
    BY DEF Range
  <2>1. i \in 1..n /\ n \in 1..n /\ i # n
    BY <1>1, <1>2
  <2> QED BY <1>1, <1>2, <2>1 DEF Distinct
<1>4. Range(loops) = Range(f) \cup {loops[n]}
  <2>1. ASSUME NEW i \in 1..n PROVE loops[i] \in Range(f) \cup {loops[n]}
    <3>1. CASE i = n
      BY <3>1
    <3>2. CASE i # n
      <4>1. i \in 1..n - 1
        BY <1>1, <3>2
      <4> QED BY <1>2, <4>1 DEF Range
    <3> QED BY <3>1, <3>2
  <2>2. \A i \in 1..n - 1 : i \in 1..n
    BY <1>1
  <2>3. n \in 1..n
    BY <1>1
  <2> QED BY <1>1, <1>2, <2>1, <2>2, <2>3 DEF Range
<1> QED BY <1>1, <1>2, <1>3, <1>4 DEF n, f

LEMMA FrontOfAny ==
    ASSUME NEW S, NEW q \in Seq(S), q # <<>>
    PROVE  /\ Front(q) \in Seq(S) /\ Len(Front(q)) = Len(q) - 1
           /\ \A i \in 1..Len(q) - 1 : Front(q)[i] = q[i]
<1>1. Len(q) \in Nat /\ Len(q) > 0
  OBVIOUS
<1>2. Front(q) = [i \in 1..Len(q) - 1 |-> q[i]]
  BY <1>1 DEF Front
<1>3. \A i \in 1..Len(q) - 1 : q[i] \in S
  BY <1>1
<1> DEFINE n == Len(q) - 1
           f == [i \in 1..n |-> q[i]]
<1>4. n \in Nat /\ f \in [1..n -> S]
  BY <1>1, <1>3
<1>5. f \in Seq(S) /\ Len(f) = n /\ \A i \in 1..n : f[i] = q[i]
  BY <1>4
<1> QED BY <1>2, <1>5

LEMMA FrontOfTruths ==
    ASSUME NEW cont \in Seq(BOOLEAN), cont # <<>>
    PROVE  /\ Front(cont) \in Seq(BOOLEAN) /\ Len(Front(cont)) = Len(cont) - 1
           /\ \A i \in 1..Len(cont) - 1 : Front(cont)[i] = cont[i]
BY FrontOfAny, Zenon

LEMMA CodeJoined ==
    ASSUME NEW a \in Seq(Instrs), NEW b \in Seq(Instrs)
    PROVE  a \o b \in Seq(Instrs) /\ Range(a \o b) = Range(a) \cup Range(b)
BY RangeJoined

(* What the end of a loop writes. *)
Needed(cont, n, id) == IF cont[n] THEN <<Label(id, "continue")>> ELSE <<>>
LoopEndCode(kont, iter, id) == kont \o Event(iter) \o <<Goto(id, "start"), Label(id, "end")>>

(* A loop is closed: its other labels are written, the continue label if a *)
(* jump needs it.                                                          *)
Ending(q, loops, cont, id, iter, kont, F, G, new) ==
    /\ q \in Seq(Instrs) /\ loops \in Seq(Nat) /\ cont \in Seq(BOOLEAN) /\ Len(cont) = Len(loops)
    /\ JumpsFit(q, loops, cont) /\ Distinct(loops) /\ loops # <<>>
    /\ id = loops[Len(loops)] /\ iter \in Nat
    /\ kont = Needed(cont, Len(loops), id)
    /\ F = Front(loops) /\ \A i \in 1..Len(loops) - 1 : G[i] = cont[i]
    /\ new = LoopEndCode(kont, iter, id)

LEMMA JumpsClosed ==
    ASSUME NEW q, NEW loops, NEW cont, NEW id, NEW iter, NEW kont, NEW F, NEW G, NEW new,
           Ending(q, loops, cont, id, iter, kont, F, G, new)
    PROVE  /\ new \in Seq(Instrs) /\ JumpsFit(q \o new, F, G)
           /\ \A c \in Range(new) : c.op \in {"event", "label", "goto"}
           /\ \A n : Label(n, "start") \notin Range(q) => Label(n, "start") \notin Range(q \o new)
<1>a. /\ q \in Seq(Instrs) /\ loops \in Seq(Nat) /\ Len(cont) = Len(loops)
      /\ JumpsFit(q, loops, cont) /\ Distinct(loops) /\ loops # <<>>
      /\ id = loops[Len(loops)] /\ iter \in Nat
      /\ F = Front(loops)
  BY DEF Ending
<1>b. kont = Needed(cont, Len(loops), id)
  BY DEF Ending
<1>c. \A i \in 1..Len(loops) - 1 : G[i] = cont[i]
  BY DEF Ending
<1>d. new = LoopEndCode(kont, iter, id)
  BY DEF Ending
<1> DEFINE k == Label(id, "continue")
           d == Label(id, "end")
           g == Goto(id, "start")
           e == Event(iter)
           p == <<g, d>>
           ke == kont \o e
           code == ke \o p
           r == q \o code
           n == Len(loops)
<1>1. /\ n \in Nat \ {0} /\ n \in DOMAIN loops /\ DOMAIN loops = 1..n /\ DOMAIN F = 1..n - 1
      /\ \A i \in 1..n - 1 : F[i] = loops[i]
      /\ id \notin Range(F) /\ Range(loops) = Range(F) \cup {id} /\ id \in Nat
  <2>1. id \in Nat
    BY <1>a
  <2> QED BY <1>a, <2>1, FrontOf
<1>2. /\ k \in Instrs /\ k.op = "label" /\ k.n = id /\ k.at = "continue"
      /\ d \in Instrs /\ d.op = "label" /\ d.n = id /\ d.at = "end"
      /\ g \in Instrs /\ g.op = "goto" /\ g.n = id /\ g.at = "start"
  <2>1. id \in Nat
    BY <1>1
  <2> QED BY <2>1, LabelCode
<1>3. Label(id, "start") \in Range(q) /\ d \notin Range(q) /\ k \notin Range(q)
  BY <1>1, <1>a DEF JumpsFit
<1>4. \A i, at : Label(i, at).op = "label" /\ Label(i, at).n = i /\ Label(i, at).at = at
  BY DEF Label, C
<1>5. \A c \in Range(e) : c.op = "event"
  BY EventOnly
<1>6. e \in Seq(Instrs) /\ UniqueLabels(e)
  BY <1>a, CalmEvent, UniqueCalm
<1>7. /\ kont \in Seq(Instrs) /\ UniqueLabels(kont) /\ Range(kont) \subseteq {k}
      /\ cont[n] => k \in Range(kont)
  <2>1. <<>> \in Seq(Instrs) /\ UniqueLabels(<<>>) /\ Range(<<>>) = {}
    BY NoCode DEF UniqueLabels
  <2> HIDE DEF k
  <2>2. <<k>> \in Seq(Instrs) /\ UniqueLabels(<<k>>) /\ Range(<<k>>) = {k}
    BY <1>2, UniqueOne
  <2>3. kont = IF cont[n] THEN <<k>> ELSE <<>>
    BY <1>b DEF k, Needed
  <2> QED BY <2>1, <2>2, <2>3
<1> HIDE DEF k, d, g, e
<1>8. p \in Seq(Instrs) /\ UniqueLabels(p) /\ Range(p) = {g, d}
  BY <1>2, UniqueTwo
<1> HIDE DEF p
<1>9. ke \in Seq(Instrs) /\ UniqueLabels(ke) /\ Range(ke) = Range(kont) \cup Range(e)
  <2>1. UniqueLabels(ke)
    BY <1>5, <1>6, <1>7, UniqueJoined
  <2>2. kont \in Seq(Instrs) /\ e \in Seq(Instrs)
    BY <1>6, <1>7
  <2>3. kont \o e \in Seq(Instrs) /\ Range(kont \o e) = Range(kont) \cup Range(e)
    BY <2>2, CodeJoined, Zenon
  <2> QED BY <2>1, <2>3
<1> HIDE DEF ke
<1>10. code \in Seq(Instrs) /\ UniqueLabels(code) /\ Range(code) = Range(kont) \cup Range(e) \cup {g, d}
  <2>1. d \notin Range(ke)
    BY <1>2, <1>5, <1>7, <1>9
  <2>2. UniqueLabels(code)
    BY <1>2, <1>8, <1>9, <2>1, UniqueJoined
  <2>3. Range(code) = Range(ke) \cup Range(p)
    BY <1>8, <1>9, RangeJoined
  <2> QED BY <1>8, <1>9, <2>2, <2>3
<1> HIDE DEF code
<1>11. \A c \in Range(code) : c = k \/ c = d \/ c = g \/ c.op = "event"
  BY <1>5, <1>7, <1>10
<1>12. UniqueLabels(r)
  <2>1. UniqueLabels(q)
    BY <1>a DEF JumpsFit, UniqueLabels
  <2>2. \A c \in Range(code) : c.op = "label" => c \notin Range(q)
    BY <1>2, <1>3, <1>11
  <2> QED BY <1>10, <1>a, <2>1, <2>2, UniqueJoined
<1>13. Range(r) = Range(q) \cup Range(code) /\ r \in Seq(Instrs)
  BY <1>10, <1>a, RangeJoined
<1> HIDE DEF r
<1>14. d \in Range(r) /\ Range(q) \subseteq Range(r) /\ (cont[n] => k \in Range(r))
  BY <1>7, <1>10, <1>13
<1>15. \A i, at : Label(i, at) \in Range(r) => Label(i, at) \in Range(q) \/ (i = id /\ at # "start")
  <2> SUFFICES ASSUME NEW i, NEW at, Label(i, at) \in Range(code)
               PROVE  i = id /\ at # "start"
    BY <1>13
  <2>1. Label(i, at) = k \/ Label(i, at) = d
    <3>1. Label(i, at).op = "label"
      BY <1>4
    <3> QED BY <1>2, <1>11, <3>1
  <2> QED BY <1>2, <1>4, <2>1
<1>16. \A c \in Range(r) : c.op = "label" => Label(c.n, "start") \in Range(r)
  <2> SUFFICES ASSUME NEW c \in Range(r), c.op = "label" PROVE Label(c.n, "start") \in Range(r)
    OBVIOUS
  <2>1. CASE c \in Range(q)
    BY <1>14, <1>a, <2>1 DEF JumpsFit
  <2>2. CASE c \notin Range(q)
    <3>1. c = k \/ c = d
      BY <1>2, <1>11, <1>13, <2>2
    <3> QED BY <1>2, <1>3, <1>14, <3>1
  <2> QED BY <2>1, <2>2
<1>17. \A i \in Range(F) :
         /\ Label(i, "start") \in Range(r)
         /\ Label(i, "end") \notin Range(r) /\ Label(i, "continue") \notin Range(r)
  <2> SUFFICES ASSUME NEW i \in Range(F)
               PROVE  /\ Label(i, "start") \in Range(r)
                      /\ Label(i, "end") \notin Range(r) /\ Label(i, "continue") \notin Range(r)
    OBVIOUS
  <2>1. i \in Range(loops) /\ i # id
    BY <1>1
  <2>2. /\ Label(i, "start") \in Range(q)
        /\ Label(i, "end") \notin Range(q) /\ Label(i, "continue") \notin Range(q)
    BY <1>a, <2>1 DEF JumpsFit
  <2> QED BY <1>14, <1>15, <2>1, <2>2
<1>18. \A c \in Range(r) : c.op \in {"goto", "unless"} => Resolved(c, r, F, G)
  <2> SUFFICES ASSUME NEW c \in Range(r), c.op \in {"goto", "unless"} PROVE Resolved(c, r, F, G)
    OBVIOUS
  <2>1. CASE c \in Range(q)
    <3>1. Resolved(c, q, loops, cont)
      BY <1>a, <2>1 DEF JumpsFit
    <3>2. CASE Label(c.n, c.at) \in Range(q)
      BY <1>14, <3>2 DEF Resolved
    <3>3. CASE c.at = "end" /\ c.n \in Range(loops)
      <4>1. CASE c.n = id
        <5>1. Label(c.n, c.at) = d
          BY <3>3, <4>1 DEF d
        <5> QED BY <1>14, <5>1 DEF Resolved
      <4>2. CASE c.n \in Range(F)
        BY <3>3, <4>2 DEF Resolved
      <4> QED BY <1>1, <3>3, <4>1, <4>2
    <3>4. CASE c.at = "continue" /\ \E i \in DOMAIN loops : loops[i] = c.n /\ cont[i]
      <4>1. PICK i \in DOMAIN loops : loops[i] = c.n /\ cont[i]
        BY <3>4
      <4>2. CASE i = n
        <5>1. c.n = id /\ cont[n]
          BY <1>a, <4>1, <4>2
        <5>2. Label(c.n, c.at) = k
          BY <3>4, <5>1 DEF k
        <5> QED BY <1>14, <5>1, <5>2 DEF Resolved
      <4>3. CASE i # n
        <5>1. i \in 1..n - 1
          BY <1>1, <4>3
        <5>2. i \in DOMAIN F /\ F[i] = c.n /\ G[i]
          BY <1>1, <1>c, <4>1, <5>1
        <5> QED BY <3>4, <5>2 DEF Resolved
      <4> QED BY <4>2, <4>3
    <3> QED BY <3>1, <3>2, <3>3, <3>4 DEF Resolved
  <2>2. CASE c \notin Range(q)
    <3>1. c = g
      BY <1>2, <1>11, <1>13, <2>2
    <3>2. Label(c.n, c.at) \in Range(r)
      BY <1>2, <1>3, <1>14, <3>1
    <3> QED BY <3>2 DEF Resolved
  <2> QED BY <2>1, <2>2
<1>19. JumpsFit(r, F, G)
  BY <1>12, <1>16, <1>17, <1>18 DEF JumpsFit, UniqueLabels
<1>20. \A c \in Range(code) : c.op \in {"event", "label", "goto"}
  BY <1>2, <1>11
<1>21. \A i : Label(i, "start") \notin Range(q) => Label(i, "start") \notin Range(r)
  BY <1>15
<1>22. new = code
  BY <1>d DEF LoopEndCode, k, d, g, e, p, ke, code
<1> QED BY <1>10, <1>19, <1>20, <1>21, <1>22 DEF r

LEMMA CloseLoopFits ==
    ASSUME EmitInv, CloseLoop
    PROVE  EmitInv'
<1> DEFINE x == Head(todo)
           id == x.id
           iter == x.iter
           cont == loop_has_continue_
           kont == IF Last(cont) THEN <<Label(id, "continue")>> ELSE <<>>
           code == kont \o Event(iter) \o <<Goto(id, "start"), Label(id, "end")>>
           F == Front(loop_id_stack_)
           G == Front(loop_has_continue_)
<1>1. /\ todo # <<>> /\ x.t = "loopend" /\ Emit(code, <<>>) /\ loop_id_stack_' = F /\ loop_has_continue_' = G
      /\ UNCHANGED <<defer_stack_, emitting, errors>>
  BY DEF CloseLoop, Emitting, Now
<1> HIDE DEF x
<1>2. PICK l, m \in Levels : /\ AtLevel(l) /\ Fit(Tail(todo), m) /\ Entry(x, l, m)
             /\ Sequence(Tail(todo))
  BY <1>1, StepStarts DEF x
<1>3. LoopEndEntry(x, l, m)
  BY <1>1, <1>2, EntryKinds
<1>4. /\ loop_id_stack_ = l.loops /\ l.loops # <<>> /\ m.loops = F /\ id = l.loops[Len(l.loops)] /\ iter \in Nat
      /\ m.scopes = l.scopes /\ m.emit = l.emit /\ m.free \subseteq l.free /\ m.marks \subseteq l.marks
  BY <1>2, <1>3 DEF LoopEndEntry, AtLevel, Uses
<1>5. l.loops \in Seq(Nat) /\ Distinct(l.loops)
  BY LevelParts, DeferConstants
<1>6. /\ out \in Seq(Instrs) /\ JumpsFit(out, l.loops, cont) /\ cont \in Seq(BOOLEAN) /\ Len(cont) = Len(l.loops)
  BY <1>2, <1>4 DEF EmitInv, Written, AtLevel
<1>7. /\ DOMAIN F = 1..Len(l.loops) - 1 /\ Len(l.loops) \in Nat \ {0} /\ Len(F) = Len(l.loops) - 1
      /\ DOMAIN l.loops = 1..Len(l.loops) /\ \A i \in 1..Len(l.loops) - 1 : F[i] = l.loops[i]
  BY <1>4, <1>5, FrontOf
<1>8. cont # <<>>
  BY <1>6, <1>7
<1>9. /\ G \in Seq(BOOLEAN) /\ Len(G) = Len(l.loops) - 1 /\ \A i \in 1..Len(l.loops) - 1 : G[i] = cont[i]
  <2> HIDE DEF cont
  <2>1. Front(cont) \in Seq(BOOLEAN) /\ Len(Front(cont)) = Len(cont) - 1
        /\ \A i \in 1..Len(cont) - 1 : Front(cont)[i] = cont[i]
    BY <1>6, <1>8, FrontOfTruths, Zenon
  <2>2. G = Front(cont)
    BY DEF cont
  <2> HIDE DEF G
  <2> QED BY <1>6, <2>1, <2>2
<1>10. kont = IF cont[Len(l.loops)] THEN <<Label(id, "continue")>> ELSE <<>>
  BY <1>6 DEF Last
<1>11. F = Front(l.loops)
  BY <1>4
<1> HIDE DEF id, iter, cont, kont, F, G
<1>12. /\ code \in Seq(Instrs) /\ JumpsFit(out \o code, F, G)
       /\ \A c \in Range(code) : c.op \in {"event", "label", "goto"}
       /\ \A n : Label(n, "start") \notin Range(out) => Label(n, "start") \notin Range(out \o code)
  <2> DEFINE loops == l.loops
             new == code
  <2>1. /\ out \in Seq(Instrs) /\ loops \in Seq(Nat) /\ cont \in Seq(BOOLEAN) /\ Len(cont) = Len(loops)
        /\ JumpsFit(out, loops, cont) /\ Distinct(loops) /\ loops # <<>>
        /\ id = loops[Len(loops)] /\ iter \in Nat
    BY <1>4, <1>5, <1>6
  <2>2. kont = Needed(cont, Len(loops), id)
    BY <1>10 DEF Needed
  <2>3. F = Front(loops) /\ \A i \in 1..Len(loops) - 1 : G[i] = cont[i]
    BY <1>9, <1>11
  <2>4. new = LoopEndCode(kont, iter, id)
    BY DEF LoopEndCode
  <2> HIDE DEF loops, new
  <2>5. /\ new \in Seq(Instrs) /\ JumpsFit(out \o new, F, G)
        /\ \A c \in Range(new) : c.op \in {"event", "label", "goto"}
        /\ \A n : Label(n, "start") \notin Range(out) => Label(n, "start") \notin Range(out \o new)
    <3>1. Ending(out, loops, cont, id, iter, kont, F, G, new)
      BY <2>1, <2>2, <2>3, <2>4 DEF Ending
    <3> QED BY <3>1, JumpsClosed
  <2> QED BY <2>5 DEF new
<1> HIDE DEF code
<1>13. out' = out \o code
  BY <1>1 DEF Emit
<1>14. Range(code) \cup PendingIn(<<>>) = Range(code) /\ Sequence(<<>>)
  BY NoCode
<1>15. Closed(Range(code) \cup PendingIn(<<>>), Code \cup Range(code) \cup PendingIn(<<>>))
  BY <1>12, <1>14 DEF Closed
<1>16. Pending(x) \subseteq Range(code) \cup PendingIn(<<>>)
  BY <1>1 DEF Pending
<1>17. Fit(<<>> \o Tail(todo), m)
  BY <1>2, NothingAdded
<1>18. JumpsFit(out', loop_id_stack_', loop_has_continue_')
  BY <1>1, <1>12, <1>13
<1>19. \A k \in m.free : Label(k, "start") \notin Range(out')
  BY <1>2, <1>4, <1>12, <1>13 DEF AtLevel
<1>20. /\ loop_has_continue_' \in Seq(BOOLEAN) /\ Len(loop_has_continue_') = Len(m.loops)
       /\ \A i \in DOMAIN m.loops : m.loops[i] \in m.marks => loop_has_continue_'[i]
  <2>1. ASSUME NEW i \in DOMAIN m.loops, m.loops[i] \in m.marks PROVE G[i]
    <3>1. i \in 1..Len(l.loops) - 1 /\ i \in DOMAIN l.loops
      BY <1>4, <1>7
    <3>2. l.loops[i] \in l.marks
      BY <1>4, <1>7, <2>1, <3>1
    <3>3. cont[i]
      BY <1>2, <3>1, <3>2 DEF AtLevel, cont
    <3> QED BY <1>9, <3>1, <3>3
  <2> QED BY <1>1, <1>4, <1>7, <1>9, <2>1
<1>21. errors' = FALSE /\ defer_stack_' = m.scopes /\ emitting' = m.emit /\ loop_id_stack_' = m.loops
       /\ m.free \cap m.marks = {}
  BY <1>1, <1>2, <1>4 DEF EmitInv, AtLevel
<1> QED BY <1>1, <1>2, <1>12, <1>14, <1>15, <1>16, <1>17, <1>18, <1>19, <1>20, <1>21, LoudStep DEF x

-----------------------------------------------------------------------------
(* The emission as a whole. *)
LEMMA EmitterStays ==
    ASSUME EmitInv, UNCHANGED emitter
    PROVE  EmitInv'
<1>1. /\ todo' = todo /\ out' = out /\ defer_stack_' = defer_stack_ /\ loop_id_stack_' = loop_id_stack_
      /\ loop_has_continue_' = loop_has_continue_ /\ emitting' = emitting /\ errors' = errors
  BY DEF emitter
<1>2. PICK l \in Levels : AtLevel(l)
  BY DEF EmitInv
<1>3. AtLevel(l)'
  BY <1>1, <1>2 DEF AtLevel
<1>4. Code' = Code
  BY <1>1 DEF Code, PendingIn, Pending, Range
<1>5. Written'
  BY <1>1, <1>4 DEF EmitInv, Written
<1>6. errors' = FALSE
  BY <1>1 DEF EmitInv
<1> QED BY <1>3, <1>5, <1>6 DEF EmitInv

LEMMA EmitStepFits ==
    ASSUME EmitInv, EmitStep
    PROVE  /\ EmitInv' /\ phase = "emit" /\ phase' \in {"emit", "aborted"}
           /\ UNCHANGED <<body, program>>
<1>1. CASE emitBlock
  BY <1>1, emitBlockFits DEF emitBlock, Emitting
<1>2. CASE CollectDefer
  BY <1>2, CollectDeferFits DEF CollectDefer, Emitting
<1>3. CASE BlockStatement
  BY <1>3, BlockStatementFits DEF BlockStatement, Emitting
<1>4. CASE BlockFallsThrough
  BY <1>4, BlockFallsThroughFits DEF BlockFallsThrough, Emitting
<1>5. CASE CloseBlock
  BY <1>5, CloseBlockFits DEF CloseBlock, Emitting
<1>6. CASE EmitDeferred
  BY <1>6, EmitDeferredFits DEF EmitDeferred, Emitting
<1>7. CASE LeaveDeferred
  BY <1>7, LeaveDeferredFits DEF LeaveDeferred, Emitting
<1>8. CASE EmitCode
  BY <1>8, EmitCodeFits DEF EmitCode, Emitting
<1>9. CASE emitDefersForScopeExit
  BY <1>9, emitDefersForScopeExitFits DEF emitDefersForScopeExit, Unwound, Emitting
<1>10. CASE UnwindDone
  BY <1>10, UnwindDoneFits DEF UnwindDone, Emitting
<1>11. CASE EmitErrDefers
  BY <1>11, EmitErrDefersFits DEF EmitErrDefers, Emitting
<1>12. CASE EmitSimple
  BY <1>12, EmitSimpleFits DEF EmitSimple, EmittingStmt, Emitting
<1>13. CASE lowerTryExpr
  BY <1>13, lowerTryExprFits DEF lowerTryExpr, EmittingStmt, Emitting
<1>14. CASE emitIf
  BY <1>14, emitIfFits DEF emitIf, EmittingStmt, Emitting
<1>15. CASE emitSwitch
  BY <1>15, emitSwitchFits DEF emitSwitch, EmittingStmt, Emitting
<1>16. CASE emitProngs
  BY <1>16, emitProngsFits DEF emitProngs, Emitting
<1>17. CASE emitWhile
  BY <1>17, LoopsFit DEF emitWhile, OpenLoop, EmittingStmt, Emitting
<1>18. CASE emitFor
  BY <1>18, LoopsFit DEF emitFor, OpenLoop, EmittingStmt, Emitting
<1>19. CASE LoopAborts
  <2>1. UNCHANGED emitter /\ phase = "emit" /\ phase' = "aborted" /\ UNCHANGED <<body, program>>
    BY <1>19 DEF LoopAborts, EmittingStmt, Emitting
  <2> QED BY <2>1, EmitterStays
<1>20. CASE CloseLoop
  BY <1>20, CloseLoopFits DEF CloseLoop, Emitting
<1>21. CASE emitBreak
  BY <1>21, emitBreakFits DEF emitBreak, EmittingStmt, Emitting
<1>22. CASE emitContinue
  BY <1>22, emitContinueFits DEF emitContinue, MarkContinue, EmittingStmt, Emitting
<1>23. CASE emitReturn
  BY <1>23, emitReturnFits DEF emitReturn, EmittingStmt, Emitting
<1>24. CASE EmitDeferredAgain
  BY <1>24, NeverAgain
<1> QED BY <1>1, <1>2, <1>3, <1>4, <1>5, <1>6, <1>7, <1>8, <1>9, <1>10, <1>11, <1>12, <1>13,
           <1>14, <1>15, <1>16, <1>17, <1>18, <1>19, <1>20, <1>21, <1>22, <1>23, <1>24 DEF EmitStep

(* A body that the validator lets through can be emitted. *)
LEMMA PassedFine ==
    ASSUME NEW f \in Functions, ~OverLimit(f, MaxDefers), PlainDefers(f), NEW open
    PROVE  FineBlock(f, open, Owned(f), <<>>) /\ DeferCount(f) <= MaxDefers /\ Owned(f) \subseteq LoopNumbers
<1>1. f \in Seq(Statements) /\ Separate(f) /\ \A s \in Range(f) : Targets[s] = {}
  BY DeferConstants
<1>2. \A s \in Range(f) : s \in Statements
  BY <1>1 DEF Range
<1>3. DeferCount(f) \in Nat /\ ~(DeferCount(f) > MaxDefers)
  BY <1>1, CountType DEF OverLimit
<1>4. DeferCount(f) <= MaxDefers
  BY <1>3, DeferConstants
<1>5. \A s \in Range(f) : Within(s)
  BY DEF OverLimit, Within, PlainDefers, DefersIn
<1>6. \A s \in Range(f) : LoopIds(s) \subseteq Owned(f)
  BY DEF Owned
<1>7. Range(<<>>) = {}
  BY NoCode
<1>8. \A s \in Range(f) : Fine(s, open, Owned(f), <<>>)
  BY <1>1, <1>2, <1>5, <1>6, <1>7 DEF Fine
<1>9. Owned(f) \subseteq LoopNumbers
  BY <1>2 DEF Owned, LoopNumbers
<1> QED BY <1>1, <1>4, <1>8, <1>9 DEF FineBlock

LEMMA BodyFits ==
    ASSUME body \in Functions, Unemitted, ~OverLimit(body, MaxDefers), PlainDefers(body)
    PROVE  EmitInv
<1> DEFINE x == BlockTask(body, -1)
           F == Owned(body)
           l == [scopes |-> <<>>, loops |-> <<>>, emit |-> <<>>, free |-> F, marks |-> {}]
           m == [scopes |-> <<>>, loops |-> <<>>, emit |-> <<>>, free |-> {}, marks |-> {}]
<1>1. FineBlock(body, {}, F, <<>>) /\ DeferCount(body) <= MaxDefers /\ F \in SUBSET LoopNumbers
  BY PassedFine
<1>2. x.t = "block" /\ x.b = body /\ x.label = -1
  BY DEF BlockTask
<1>3. /\ <<>> \in Seq(DeferScopes) /\ <<>> \in Seq(0..MaxLoopIds) /\ <<>> \in Seq(Nat)
      /\ Distinct(<<>>) /\ Range(<<>>) = {}
  BY NoCode DEF Distinct
<1> HIDE DEF x, F
<1>4. l \in Levels /\ m \in Levels
  BY <1>1, <1>3 DEF Levels
<1>5. /\ l.scopes = <<>> /\ l.loops = <<>> /\ l.emit = <<>> /\ l.free = F /\ l.marks = {}
      /\ m.scopes = <<>> /\ m.loops = <<>> /\ m.emit = <<>> /\ m.free = {} /\ m.marks = {}
  OBVIOUS
<1> HIDE DEF l, m
<1>6. Entry(x, l, m)
  <2>1. Open(l) = {} /\ {-1} \cap Range(l.loops) = {}
    BY <1>3, <1>5 DEF Open
  <2>2. FineBlock(x.b, Open(l) \cup ({x.label} \cap Range(l.loops)), l.free, l.emit)
    BY <1>1, <1>2, <1>5, <2>1
  <2>3. Stays(l, m) /\ Uses(l, m, Owned(x.b))
    BY <1>2, <1>5 DEF Stays, Uses
  <2>4. BlockEntry(x, l, m)
    BY <1>1, <1>2, <2>2, <2>3 DEF BlockEntry
  <2> QED BY <2>4 DEF Entry
<1>7. Fit(<<x>> \o <<>>, l)
  BY <1>4, <1>5, <1>6, FitNil, FitPush DEF Ground
<1>8. Fit(todo, l)
  <2>1. <<x>> \o <<>> = <<x>>
    OBVIOUS
  <2>2. todo = <<x>>
    BY DEF Unemitted, x
  <2> QED BY <1>7, <2>1, <2>2
<1>9. AtLevel(l)
  <2>1. loop_has_continue_ = <<>> /\ <<>> \in Seq(BOOLEAN) /\ Len(<<>>) = 0 /\ DOMAIN <<>> = {}
    BY DEF Unemitted
  <2>2. out = <<>> /\ defer_stack_ = <<>> /\ loop_id_stack_ = <<>> /\ emitting = <<>>
    BY DEF Unemitted
  <2>3. loop_has_continue_ \in Seq(BOOLEAN) /\ Len(loop_has_continue_) = Len(l.loops)
    BY <1>5, <2>1
  <2>4. \A i \in DOMAIN l.loops : l.loops[i] \in l.marks => loop_has_continue_[i]
    BY <1>5
  <2> QED BY <1>3, <1>4, <1>5, <1>8, <2>2, <2>3, <2>4 DEF AtLevel
<1>10. Code = {}
  <2>1. Pending(x) = {}
    BY <1>2 DEF Pending
  <2>2. PendingIn(todo) = {}
    BY <2>1, One DEF Unemitted, x
  <2> QED BY <1>3, <2>2 DEF Code, Unemitted
<1>11. JumpsFit(<<>>, <<>>, <<>>)
  BY <1>3 DEF JumpsFit
<1>12. Written
  BY <1>10, <1>11, NoCode DEF Written, Unemitted
<1> QED BY <1>4, <1>9, <1>12 DEF EmitInv, Unemitted

(* The code once everything is emitted. *)
Finished ==
    /\ out \in Seq(Instrs)
    /\ Closed(Range(out), Range(out))
    /\ \A i, j \in DOMAIN out : out[i].op = "label" /\ out[i] = out[j] => i = j
    /\ \A c \in Range(out) : c.op \in {"goto", "unless"} => Label(c.n, c.at) \in Range(out)

LEMMA AllEmitted ==
    ASSUME EmitInv, todo = <<>>
    PROVE  Finished
<1>1. PICK l \in Levels : AtLevel(l)
  BY DEF EmitInv
<1>2. loop_id_stack_ = <<>>
  BY <1>1, FitNil DEF AtLevel, Ground
<1>3. JumpsFit(out, <<>>, loop_has_continue_) /\ out \in Seq(Instrs) /\ Closed(Code, Code)
  BY <1>2 DEF EmitInv, Written
<1>4. Code = Range(out)
  BY NoCode DEF Code
<1>5. \A i, j \in DOMAIN out : out[i].op = "label" /\ out[i] = out[j] => i = j
  BY <1>3 DEF JumpsFit
<1>6. Range(<<>>) = {} /\ DOMAIN <<>> = {}
  BY NoCode
<1>7. \A c \in Range(out) : c.op \in {"goto", "unless"} => Label(c.n, c.at) \in Range(out)
  BY <1>3, <1>6 DEF JumpsFit, Resolved
<1> QED BY <1>3, <1>4, <1>5, <1>7 DEF Finished

LEMMA LabelsGood ==
    ASSUME Finished
    PROVE  GoodLabels
<1>1. ASSUME NEW i \in DOMAIN out, out[i].op = "goto" PROVE At(Label(out[i].n, out[i].at)) # {}
  <2>1. out[i] \in Range(out)
    BY DEF Range
  <2>2. Label(out[i].n, out[i].at) \in Range(out)
    BY <1>1, <2>1 DEF Finished
  <2> QED BY <2>2 DEF At, Range
<1> QED BY <1>1 DEF GoodLabels, Finished

-----------------------------------------------------------------------------
(* The C program: every jump stays in the code. *)
LEMMA PosIn ==
    ASSUME Finished, NEW c \in Range(out)
    PROVE  Pos(c) \in 1..Len(out) + 1 /\ Pos(c) + 1 \in 1..Len(out) + 1
<1>1. At(c) # {} /\ At(c) \subseteq DOMAIN out
  BY DEF At, Range
<1>2. Pos(c) \in At(c)
  BY <1>1 DEF Pos
<1>3. Len(out) \in Nat /\ DOMAIN out = 1..Len(out)
  BY DEF Finished
<1> HIDE DEF Pos
<1> QED BY <1>1, <1>2, <1>3

LEMMA RunningAt ==
    ASSUME Finished, NEW ops, Running(ops)
    PROVE  /\ Instr \in Instrs /\ Instr \in Range(out) /\ Instr.op \in ops
           /\ pc + 1 \in 1..Len(out) + 1
<1>1. pc \in DOMAIN out /\ Instr.op \in ops
  BY DEF Running
<1>2. Len(out) \in Nat /\ DOMAIN out = 1..Len(out) /\ out \in Seq(Instrs)
  BY DEF Finished
<1>3. out[pc] \in Instrs /\ out[pc] \in Range(out)
  BY <1>1, <1>2 DEF Range
<1> QED BY <1>1, <1>2, <1>3 DEF Instr

(* What an instruction that jumps needs is in the code. *)
LEMMA TargetsThere ==
    ASSUME Finished, NEW c \in Range(out)
    PROVE  /\ c.op \in {"goto", "unless"} => Label(c.n, c.at) \in Range(out)
           /\ c.op \in {"if", "iferr", "else"} => C("endif", c.n, "") \in Range(out)
           /\ c.op \in {"switch", "break"} => C("endswitch", c.n, "") \in Range(out)
           /\ c.op = "switch" /\ c.j = 1 => Prongs("case", c.n, 1) \in Range(out)
BY DEF Finished, Closed

Runs ==
    /\ pc' \in 1..Len(out) + 1
    /\ trace' \in Seq(Nat) /\ choices' \in Seq(Nat)
    /\ return_val' \in {"ok", "err"} /\ err_occurred' \in BOOLEAN
    /\ UNCHANGED <<body, emitter>>
    /\ phase = "run" /\ phase' \in {"run", "returned", "panicked"}

(* A step that goes to a place of the code and changes little else. *)
LEMMA JumpRuns ==
    ASSUME ProgramInv, phase = "run", NEW to \in 1..Len(out) + 1, Jump(to), choices' \in Seq(Nat)
    PROVE  Runs
BY DEF ProgramInv, Jump, Runs

LEMMA ChosenNumber ==
    ASSUME ProgramInv, NEW n \in Nat, choices' = Append(choices, n)
    PROVE  choices' \in Seq(Nat)
BY DEF ProgramInv

LEMMA StraightRuns ==
    ASSUME Finished, ProgramInv, RunStraight
    PROVE  Runs
<1>1. pc + 1 \in 1..Len(out) + 1
  BY RunningAt DEF RunStraight
<1>2. Jump(pc + 1) /\ choices' \in Seq(Nat) /\ phase = "run"
  BY DEF RunStraight, ProgramInv, Running
<1> QED BY <1>1, <1>2, JumpRuns

LEMMA EventRuns ==
    ASSUME Finished, ProgramInv, RunEvent
    PROVE  Runs
<1>1. pc + 1 \in 1..Len(out) + 1 /\ Instr \in Instrs
  BY RunningAt DEF RunEvent
<1>2. Instr.n \in Nat
  BY <1>1 DEF Instrs
<1>3. trace' \in Seq(Nat)
  BY <1>2 DEF RunEvent, ProgramInv
<1> QED BY <1>1, <1>3 DEF RunEvent, ProgramInv, Running, Runs

LEMMA JumpingRuns ==
    ASSUME Finished, ProgramInv, RunJump
    PROVE  Runs
<1>1. choices' \in Seq(Nat)
  BY DEF RunJump, ProgramInv
<1>2. CASE Running({"goto"}) /\ Jump(Pos(Label(Instr.n, Instr.at)))
  <2> DEFINE c == Label(Instr.n, Instr.at)
  <2>1. c \in Range(out)
    BY <1>2, RunningAt, TargetsThere
  <2>2. phase = "run" /\ Jump(Pos(c))
    BY <1>2 DEF Running
  <2> HIDE DEF c
  <2>3. Pos(c) \in 1..Len(out) + 1
    BY <2>1, PosIn
  <2> QED BY <1>1, <2>2, <2>3, JumpRuns
<1>3. CASE Running({"else"}) /\ Jump(Pos(C("endif", Instr.n, "")))
  <2> DEFINE c == C("endif", Instr.n, "")
  <2>1. c \in Range(out)
    BY <1>3, RunningAt, TargetsThere
  <2>2. phase = "run" /\ Jump(Pos(c))
    BY <1>3 DEF Running
  <2> HIDE DEF c
  <2>3. Pos(c) \in 1..Len(out) + 1
    BY <2>1, PosIn
  <2> QED BY <1>1, <2>2, <2>3, JumpRuns
<1>4. CASE Running({"break"}) /\ Jump(Pos(C("endswitch", Instr.n, "")))
  <2> DEFINE c == C("endswitch", Instr.n, "")
  <2>1. c \in Range(out)
    BY <1>4, RunningAt, TargetsThere
  <2>2. phase = "run" /\ Jump(Pos(c))
    BY <1>4 DEF Running
  <2> HIDE DEF c
  <2>3. Pos(c) \in 1..Len(out) + 1
    BY <2>1, PosIn
  <2> QED BY <1>1, <2>2, <2>3, JumpRuns
<1> QED BY <1>2, <1>3, <1>4 DEF RunJump

LEMMA IfRuns ==
    ASSUME Finished, ProgramInv, RunIf
    PROVE  Runs
<1> DEFINE else == C("else", Instr.n, "")
           endif == C("endif", Instr.n, "")
           end == Label(Instr.n, "end")
<1>1. /\ Instr \in Instrs /\ Instr \in Range(out) /\ Instr.op \in {"if", "unless"}
      /\ pc + 1 \in 1..Len(out) + 1 /\ phase = "run"
  BY RunningAt DEF RunIf, Running
<1>2. Instr.op = "unless" => end \in Range(out)
  <2>1. Instr.op = "unless" => Instr.at = "end"
    BY <1>1 DEF Instrs
  <2> QED BY <1>1, <2>1, TargetsThere
<1>3. Instr.op = "if" => endif \in Range(out)
  BY <1>1, TargetsThere
<1>4. At(else) # {} => else \in Range(out)
  BY DEF At, Range
<1>5. \/ Choose(1) /\ Jump(pc + 1)
      \/ Choose(0) /\ Jump(IF Instr.op = "unless" THEN Pos(end)
                           ELSE IF At(else) # {} THEN Pos(else) + 1 ELSE Pos(endif))
  BY DEF RunIf
<1>6. \A n \in Nat : Choose(n) => choices' \in Seq(Nat)
  BY ChosenNumber DEF Choose
<1> HIDE DEF else, endif, end
<1>7. CASE Choose(1) /\ Jump(pc + 1)
  BY <1>1, <1>6, <1>7, JumpRuns
<1>8. CASE Choose(0) /\ Jump(IF Instr.op = "unless" THEN Pos(end)
                             ELSE IF At(else) # {} THEN Pos(else) + 1 ELSE Pos(endif))
  <2>1. choices' \in Seq(Nat)
    BY <1>6, <1>8
  <2>2. CASE Instr.op = "unless"
    <3>1. Jump(Pos(end)) /\ Pos(end) \in 1..Len(out) + 1
      BY <1>2, <1>8, <2>2, PosIn
    <3> QED BY <1>1, <2>1, <3>1, JumpRuns
  <2>3. CASE Instr.op # "unless" /\ At(else) # {}
    <3>1. Jump(Pos(else) + 1) /\ Pos(else) + 1 \in 1..Len(out) + 1
      BY <1>4, <1>8, <2>3, PosIn
    <3> QED BY <1>1, <2>1, <3>1, JumpRuns
  <2>4. CASE Instr.op # "unless" /\ At(else) = {}
    <3>1. Jump(Pos(endif)) /\ Pos(endif) \in 1..Len(out) + 1
      BY <1>1, <1>3, <1>8, <2>4, PosIn
    <3> QED BY <1>1, <2>1, <3>1, JumpRuns
  <2> QED BY <2>2, <2>3, <2>4
<1> QED BY <1>5, <1>7, <1>8

LEMMA IfErrRuns ==
    ASSUME Finished, ProgramInv, RunIfErr
    PROVE  Runs
<1> DEFINE endif == C("endif", Instr.n, "")
<1>1. /\ Instr \in Range(out) /\ Instr.op = "iferr"
      /\ pc + 1 \in 1..Len(out) + 1 /\ phase = "run" /\ choices' \in Seq(Nat)
  BY RunningAt DEF RunIfErr, Running, ProgramInv
<1>2. endif \in Range(out)
  BY <1>1, TargetsThere
<1>3. Jump(IF err_occurred THEN pc + 1 ELSE Pos(endif))
  BY DEF RunIfErr
<1> HIDE DEF endif
<1>4. Pos(endif) \in 1..Len(out) + 1
  BY <1>2, PosIn
<1>5. CASE err_occurred
  <2>1. Jump(pc + 1)
    BY <1>3, <1>5
  <2> QED BY <1>1, <2>1, JumpRuns
<1>6. CASE ~err_occurred
  <2>1. Jump(Pos(endif))
    BY <1>3, <1>6
  <2> QED BY <1>1, <1>4, <2>1, JumpRuns
<1> QED BY <1>5, <1>6

LEMMA SwitchRuns ==
    ASSUME Finished, ProgramInv, RunSwitch
    PROVE  Runs
<1> DEFINE here == {k \in DOMAIN out : out[k].op = "case" /\ out[k].n = Instr.n}
           cases == {out[i].j : i \in here}
           end == C("endswitch", Instr.n, "")
           case(i) == Prongs("case", Instr.n, i)
<1>1. /\ Instr \in Instrs /\ Instr \in Range(out) /\ Instr.op = "switch" /\ phase = "run"
  BY RunningAt DEF RunSwitch, Running
<1>2. end \in Range(out) /\ (Instr.j = 1 => case(1) \in Range(out)) /\ Instr.j \in {0, 1}
  <2>1. Instr.j \in {0, 1}
    BY <1>1 DEF Instrs
  <2> QED BY <1>1, <2>1, TargetsThere
<1>3. PICK i \in cases \cup {Instr.j} :
             /\ choices' = Append(choices, i)
             /\ Jump(IF i = 0 THEN Pos(end) ELSE Pos(case(i)) + 1)
  BY DEF RunSwitch
<1>4. i \in Nat /\ (i # 0 => case(i) \in Range(out))
  <2>1. CASE i \in cases
    <3>1. PICK k \in DOMAIN out : out[k].op = "case" /\ out[k].n = Instr.n /\ i = out[k].j
      BY <2>1
    <3>2. out[k] \in Instrs /\ out[k] \in Range(out)
      BY DEF Finished, Range
    <3>3. out[k].at = "" /\ out[k].j \in Nat
      BY <3>1, <3>2 DEF Instrs
    <3>4. out[k] = case(i)
      BY <3>1, <3>2, <3>3 DEF Instrs, Prongs
    <3> QED BY <3>1, <3>2, <3>3, <3>4
  <2>2. CASE i = Instr.j
    <3> HIDE DEF case, cases, here, end
    <3>1. i \in {0, 1} /\ i \in Nat
      BY <1>2, <2>2
    <3>2. ASSUME i # 0 PROVE case(i) \in Range(out)
      <4>1. i = 1 /\ Instr.j = 1
        BY <2>2, <3>1, <3>2
      <4>2. case(1) \in Range(out)
        BY <1>2, <4>1
      <4> QED BY <4>1, <4>2
    <3> QED BY <3>1, <3>2
  <2> QED BY <2>1, <2>2
<1> HIDE DEF cases, here, end, case
<1>5. choices' \in Seq(Nat)
  BY <1>3, <1>4, ChosenNumber
<1>6. CASE i = 0
  <2>1. Jump(Pos(end)) /\ Pos(end) \in 1..Len(out) + 1
    BY <1>2, <1>3, <1>6, PosIn
  <2> QED BY <1>1, <1>5, <2>1, JumpRuns
<1>7. CASE i # 0
  <2>1. Jump(Pos(case(i)) + 1) /\ Pos(case(i)) + 1 \in 1..Len(out) + 1
    BY <1>3, <1>4, <1>7, PosIn
  <2> QED BY <1>1, <1>5, <2>1, JumpRuns
<1> QED BY <1>6, <1>7

LEMMA ReturnValueRuns ==
    ASSUME Finished, ProgramInv, RunReturnValue
    PROVE  Runs
<1>1. Instr \in Instrs /\ Instr.op = "value" /\ pc + 1 \in 1..Len(out) + 1 /\ phase = "run"
  BY RunningAt DEF RunReturnValue, Running
<1>2. Instr.at \in {"ok", "err", "any"}
  BY <1>1 DEF Instrs
<1>3. return_val' \in {"ok", "err"}
  BY <1>2 DEF RunReturnValue
<1>4. choices' \in Seq(Nat)
  <2>1. UNCHANGED choices \/ Choose(0) \/ Choose(1)
    BY DEF RunReturnValue
  <2>2. \A n \in Nat : Choose(n) => choices' \in Seq(Nat)
    BY ChosenNumber DEF Choose
  <2> QED BY <2>1, <2>2 DEF ProgramInv
<1> QED BY <1>1, <1>3, <1>4 DEF RunReturnValue, ProgramInv, Runs

LEMMA FlagRuns ==
    ASSUME Finished, ProgramInv, RunFlag
    PROVE  Runs
<1>1. pc + 1 \in 1..Len(out) + 1 /\ phase = "run"
  BY RunningAt DEF RunFlag, Running
<1> QED BY <1>1 DEF RunFlag, ProgramInv, Runs

LEMMA EndRuns ==
    ASSUME Finished, ProgramInv, RunEnd
    PROVE  Runs
BY DEF RunEnd, ProgramInv, Runs, program, emitter

LEMMA ProgramRuns ==
    ASSUME Finished, ProgramInv, RunStep
    PROVE  Runs
BY StraightRuns, EventRuns, JumpingRuns, IfRuns, IfErrRuns, SwitchRuns, ReturnValueRuns,
   FlagRuns, EndRuns DEF RunStep


-----------------------------------------------------------------------------
(* The invariant is inductive. *)
LEMMA InvStarts ==
    ASSUME Init
    PROVE  Inv
<1>1. <<>> \in Seq(Nat) /\ Len(<<>>) = 0
  OBVIOUS
<1>2. pc \in 1..Len(out) + 1
  BY DEF Init
<1> QED BY <1>1, <1>2 DEF Init, Inv, ProgramInv, Unemitted

LEMMA InvStays ==
    ASSUME Inv, UNCHANGED vars
    PROVE  Inv'
<1>1. UNCHANGED emitter /\ UNCHANGED <<body, phase, pc, trace, choices, return_val, err_occurred>>
  BY DEF vars, program
<1>2. /\ todo' = todo /\ out' = out /\ defer_stack_' = defer_stack_ /\ loop_id_stack_' = loop_id_stack_
      /\ loop_has_continue_' = loop_has_continue_ /\ emitting' = emitting /\ errors' = errors
  BY <1>1 DEF emitter
<1>3. ProgramInv'
  BY <1>1, <1>2 DEF Inv, ProgramInv
<1>4. CASE phase \in {"validate", "rejected"}
  <2>1. Unemitted'
    BY <1>1, <1>2, <1>4 DEF Inv, Unemitted
  <2> QED BY <1>1, <1>2, <1>3, <1>4, <2>1 DEF Inv
<1>5. CASE phase \notin {"validate", "rejected"}
  <2>1. EmitInv'
    BY <1>1, <1>5, EmitterStays DEF Inv
  <2> QED BY <1>1, <1>2, <1>3, <1>5, <2>1 DEF Inv
<1> QED BY <1>4, <1>5

LEMMA ValidateKeeps ==
    ASSUME Inv, PlainDefers(body), Validate
    PROVE  Inv'
<1>1. /\ phase = "validate" /\ UNCHANGED emitter
      /\ UNCHANGED <<body, pc, trace, choices, return_val, err_occurred>>
      /\ phase' = IF OverLimit(body, MaxDefers) THEN "rejected" ELSE "emit"
  BY DEF Validate, program
<1>2. /\ todo' = todo /\ out' = out /\ defer_stack_' = defer_stack_ /\ loop_id_stack_' = loop_id_stack_
      /\ loop_has_continue_' = loop_has_continue_ /\ emitting' = emitting /\ errors' = errors
  BY <1>1 DEF emitter
<1>3. body \in Functions /\ Unemitted /\ ProgramInv /\ pc = 1
  BY <1>1 DEF Inv
<1>4. ProgramInv'
  BY <1>1, <1>2, <1>3 DEF ProgramInv
<1>5. CASE OverLimit(body, MaxDefers)
  <2>1. Unemitted'
    BY <1>1, <1>2, <1>3 DEF Unemitted
  <2>2. phase' = "rejected"
    BY <1>1, <1>5
  <2> QED BY <1>1, <1>3, <1>4, <2>1, <2>2 DEF Inv
<1>6. CASE ~OverLimit(body, MaxDefers)
  <2>1. EmitInv'
    BY <1>1, <1>3, <1>6, BodyFits, EmitterStays
  <2>2. phase' = "emit"
    BY <1>1, <1>6
  <2> QED BY <1>1, <1>3, <1>4, <2>1, <2>2 DEF Inv
<1> QED BY <1>5, <1>6

LEMMA EmitStepKeeps ==
    ASSUME Inv, EmitStep
    PROVE  Inv'
<1>1. phase = "emit"
  BY DEF EmitStep, emitBlock, CollectDefer, BlockStatement, BlockFallsThrough, CloseBlock, EmitDeferred,
         EmitDeferredAgain, LeaveDeferred, EmitCode, emitDefersForScopeExit, UnwindDone, EmitErrDefers, EmitSimple,
         lowerTryExpr, emitIf, emitSwitch, emitProngs, emitWhile, emitFor, LoopAborts, CloseLoop,
         emitBreak, emitContinue, MarkContinue, emitReturn, EmittingStmt, Emitting
<1>2. EmitInv
  BY <1>1 DEF Inv
<1>3. /\ EmitInv' /\ phase' \in {"emit", "aborted"}
      /\ UNCHANGED <<body, pc, trace, choices, return_val, err_occurred>>
  BY <1>2, EmitStepFits DEF program
<1>4. pc = 1 /\ body \in Functions /\ ProgramInv
  BY <1>1 DEF Inv
<1>5. pc' \in 1..Len(out') + 1
  <2>1. out' \in Seq(Instrs)
    BY <1>3 DEF EmitInv, Written
  <2>2. Len(out') \in Nat
    BY <2>1
  <2> QED BY <1>3, <1>4, <2>2
<1>6. ProgramInv'
  BY <1>3, <1>4, <1>5 DEF ProgramInv
<1> QED BY <1>3, <1>4, <1>6 DEF Inv

LEMMA CompileKeeps ==
    ASSUME Inv, Compile
    PROVE  Inv'
<1>1. /\ phase = "emit" /\ todo = <<>> /\ UNCHANGED emitter
      /\ UNCHANGED <<body, pc, trace, choices, return_val, err_occurred>>
      /\ phase' = IF errors THEN "rejected" ELSE IF GoodLabels THEN "run" ELSE "c_error"
  BY DEF Compile, program
<1>2. EmitInv /\ ProgramInv /\ body \in Functions
  BY <1>1 DEF Inv
<1>3. phase' = "run"
  BY <1>1, <1>2, AllEmitted, LabelsGood DEF EmitInv
<1>4. EmitInv'
  BY <1>1, <1>2, EmitterStays
<1>5. todo' = <<>> /\ out' = out
  BY <1>1 DEF emitter
<1>6. ProgramInv'
  BY <1>1, <1>2, <1>5 DEF ProgramInv
<1> QED BY <1>1, <1>2, <1>3, <1>4, <1>5, <1>6 DEF Inv

LEMMA RunStepKeeps ==
    ASSUME Inv, RunStep
    PROVE  Inv'
<1>1. phase = "run"
  BY DEF RunStep, RunStraight, RunEvent, RunJump, RunIf, RunIfErr, RunSwitch, RunReturnValue, RunFlag,
         RunEnd, Running
<1>2. EmitInv /\ ProgramInv /\ body \in Functions /\ todo = <<>>
  BY <1>1 DEF Inv
<1>3. Runs
  BY <1>2, AllEmitted, ProgramRuns
<1>4. EmitInv' /\ todo' = <<>> /\ out' = out /\ body' = body
  BY <1>2, <1>3, EmitterStays DEF Runs, emitter
<1>5. ProgramInv'
  BY <1>3, <1>4 DEF Runs, ProgramInv
<1>6. phase' \in {"run", "returned", "panicked"}
  BY <1>3 DEF Runs
<1> QED BY <1>2, <1>4, <1>5, <1>6 DEF Inv

LEMMA InvInductive ==
    PlainDefers(body) /\ Inv /\ [Next]_vars => Inv'
<1> SUFFICES ASSUME PlainDefers(body), Inv, [Next]_vars PROVE Inv'
  OBVIOUS
<1>1. CASE Validate
  BY <1>1, ValidateKeeps
<1>2. CASE EmitStep
  BY <1>2, EmitStepKeeps
<1>3. CASE Compile
  BY <1>3, CompileKeeps
<1>4. CASE RunStep
  BY <1>4, RunStepKeeps
<1>5. CASE Stop \/ UNCHANGED vars
  BY <1>5, InvStays DEF Stop
<1> QED BY <1>1, <1>2, <1>3, <1>4, <1>5 DEF Next

(* The body never changes, and with it what its deferred statements hold. *)
LEMMA BodyStays ==
    ASSUME [Next]_vars
    PROVE  body' = body
<1>1. CASE Validate \/ Compile \/ Stop \/ UNCHANGED vars
  BY <1>1 DEF Validate, Compile, Stop, vars
<1>2. CASE EmitStep
  <2>1. CASE \/ emitBlock \/ CollectDefer \/ BlockStatement \/ BlockFallsThrough
             \/ CloseBlock \/ EmitDeferred \/ EmitDeferredAgain \/ LeaveDeferred \/ EmitCode
    BY <2>1 DEF emitBlock, CollectDefer, BlockStatement, BlockFallsThrough, CloseBlock, EmitDeferred,
                EmitDeferredAgain, LeaveDeferred, EmitCode
  <2>2. CASE \/ emitDefersForScopeExit \/ UnwindDone \/ EmitErrDefers
             \/ EmitSimple \/ lowerTryExpr \/ emitIf \/ emitSwitch \/ emitProngs
    BY <2>2 DEF emitDefersForScopeExit, Unwound, UnwindDone, EmitErrDefers, EmitSimple, lowerTryExpr,
                emitIf, emitSwitch, emitProngs
  <2>3. CASE \/ emitWhile \/ emitFor \/ LoopAborts \/ CloseLoop
             \/ emitBreak \/ emitContinue \/ emitReturn
    BY <2>3 DEF emitWhile, emitFor, OpenLoop, LoopAborts, CloseLoop, emitBreak, emitContinue,
                MarkContinue, emitReturn
  <2> QED BY <1>2, <2>1, <2>2, <2>3 DEF EmitStep
<1>3. CASE RunStep
  BY <1>3 DEF RunStep, RunStraight, RunEvent, RunJump, RunIf, RunIfErr, RunSwitch, RunReturnValue,
              RunFlag, RunEnd, Jump
<1> QED BY <1>1, <1>2, <1>3 DEF Next

-----------------------------------------------------------------------------
(* What the invariant says of the stacks. *)
LEMMA InvCodeWellFormed ==
    ASSUME Inv
    PROVE  CodeWellFormed
<1>1. \/ Unemitted
      \/ EmitInv
  BY DEF Inv
<1>2. /\ \A i \in DOMAIN defer_stack_ : defer_stack_[i].label_id \in -1..MaxLoopIds
      /\ loop_id_stack_ \in Seq(0..MaxLoopIds)
      /\ Len(loop_has_continue_) = Len(loop_id_stack_)
  <2>1. CASE Unemitted
    <3>1. defer_stack_ = <<>> /\ loop_id_stack_ = <<>> /\ loop_has_continue_ = <<>>
      BY <2>1 DEF Unemitted
    <3>2. <<>> \in Seq(0..MaxLoopIds) /\ DOMAIN <<>> = {}
      OBVIOUS
    <3> QED BY <3>1, <3>2
  <2>2. CASE EmitInv
    <3>1. PICK l \in Levels : AtLevel(l)
      BY <2>2 DEF EmitInv
    <3>2. defer_stack_ \in Seq(DeferScopes) /\ loop_id_stack_ \in Seq(0..MaxLoopIds)
      BY <3>1, LevelParts DEF AtLevel
    <3>3. \A i \in DOMAIN defer_stack_ : defer_stack_[i] \in DeferScopes
      BY <3>2
    <3>4. \A i \in DOMAIN defer_stack_ : defer_stack_[i].label_id \in -1..MaxLoopIds
      BY <3>3 DEF DeferScopes
    <3>5. Len(loop_has_continue_) = Len(loop_id_stack_)
      BY <3>1 DEF AtLevel
    <3> QED BY <3>2, <3>4, <3>5
  <2> QED BY <1>1, <2>1, <2>2
<1>3. TypeOK
  BY <1>2 DEF Inv, ProgramInv, TypeOK
<1>4. LabelsResolve
  BY DEF Inv, LabelsResolve
<1>5. JumpsStayInside
  <2> SUFFICES ASSUME phase = "emit", todo # <<>>, Now.t = "stmt", Now.s.k \in {"break", "continue"}
               PROVE  /\ \E i \in DOMAIN defer_stack_ : defer_stack_[i].label_id = Now.s.to
                      /\ \E i \in DOMAIN loop_id_stack_ : loop_id_stack_[i] = Now.s.to
    BY DEF JumpsStayInside
  <2> DEFINE s == Now.s
             k == s.k
  <2>1. EmitInv
    BY DEF Inv
  <2>2. EmittingStmt(k)
    BY DEF EmittingStmt, Emitting, Now
  <2>3. PICK l \in Levels : AtLevel(l) /\ Fine(s, Open(l), l.free, l.emit)
    BY <2>1, <2>2, StmtStarts DEF Now
  <2>4. s.to \in Targets[s]
    BY <2>3, JumpTargets DEF Fine
  <2>5. s.to \in Open(l)
    BY <2>3, <2>4 DEF Fine
  <2>6. defer_stack_ = l.scopes /\ loop_id_stack_ = l.loops
    BY <2>3 DEF AtLevel
  <2> QED BY <2>5, <2>6 DEF Open, Range
<1> QED BY <1>3, <1>4, <1>5 DEF CodeWellFormed

LEMMA InvEmissionCompletes ==
    ASSUME Inv
    PROVE  EmissionCompletes
<1>1. errors = FALSE /\ phase # "diverged"
  BY DEF Inv, Unemitted, EmitInv
<1> QED BY <1>1 DEF EmissionCompletes, EmitterLimitUnreached

(* The invariant of the bodies with plain deferred statements. *)
PlainInv == PlainDefers(body) => Inv

LEMMA Invariance ==
    Spec => []PlainInv
<1>1. Init => PlainInv
  BY InvStarts DEF PlainInv
<1>2. PlainInv /\ [Next]_vars => PlainInv'
  <2> SUFFICES ASSUME PlainInv, [Next]_vars, PlainDefers(body)' PROVE Inv'
    BY DEF PlainInv
  <2>1. body' = body
    BY BodyStays
  <2>2. PlainDefers(body)
    BY <2>1 DEF PlainDefers, DefersIn, LoopsIn, TriesIn
  <2> QED BY <2>2, InvInductive DEF PlainInv
<1> QED BY <1>1, <1>2, PTL DEF Spec

(* However loops, defers, errdefers and early exits are nested in a        *)
(* function, as long as its deferred statements hold no loop and no try:   *)
(* the C code has each label once and a label for  *)
(* every goto (emitWhile, emitFor, emitBreak, emitContinue), a break or    *)
(* continue finds its loop among the open scopes and loops                 *)
(* (emitDefersForScopeExit stops there), and every jump of the C program,  *)
(* those of its ifs and switches included, stays in the code.              *)
THEOREM JumpsResolved ==
    Spec => []CodeWellFormed
<1>1. PlainInv => CodeWellFormed
  BY InvCodeWellFormed DEF PlainInv, CodeWellFormed
<1> QED BY <1>1, Invariance, PTL

(* The emission of a function that visitBlockStmt of the feature validator *)
(* let through, if its deferred statements hold no loop and no try, meets  *)
(* no scope with too many defers (emitBlock's own check of the limit never *)
(* fires) and never comes to a deferred statement while it emits it        *)
(* (emitDefersForScopeExit), which is where its recursion has no end.      *)
THEOREM EmissionSafe ==
    Spec => []EmissionCompletes
<1>1. PlainInv => EmissionCompletes
  BY InvEmissionCompletes DEF PlainInv, EmissionCompletes
<1> QED BY <1>1, Invariance, PTL
=============================================================================
