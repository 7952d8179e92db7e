------------------------ MODULE TypeResolutionProofs ------------------------
(***************************************************************************)
(* Proofs about the resolution of named types, for every set of programs.  *)
(*                                                                         *)
(* Only the kinds matter here (done or still a placeholder), not the       *)
(* layouts.  A type completes only when everything it holds by value or in *)
(* an array is complete, so the completed types are always well founded:   *)
(* every set of them has a member that holds none of the others (Founded). *)
(* A type that contained itself would, with all the types that contain it, *)
(* make a set with no such member.                                         *)
(*                                                                         *)
(* For the absence of internal errors the invariant follows a declaration  *)
(* through the passes: as long as nothing was reported it is complete, or  *)
(* resolved to an unnamed type, or waiting in one of the two lists, and    *)
(* when the forced visit reports nothing, the last pass completes it.      *)
(***************************************************************************)
EXTENDS TypeResolution, SequenceTheorems, FiniteSetTheorems, TLAPS

(* The completed declarations, and those with all fields complete. *)
Done == {d \in Decls : named[d].done}
Ready(d) == \A f \in DOMAIN Fields(d) : isTypeComplete(Fields(d)[f])
Waiting(d, seq) == \E k \in DOMAIN seq : seq[k] = d

(* Completed types hold only completed ones by value, and no circle. *)
Sound ==
    /\ \A d \in Decls : named[d].done \/ anon[d].done => ByValue(d) \subseteq Done
    /\ \A S \in SUBSET Done : S # {} => \E e \in S : ByValue(e) \cap S = {}

(* What each pass has seen to, as long as no error is reported. *)
Accounted ==
    \A d \in Decls :
        /\ phase = "named" /\ d >= pos => ~named[d].done
        /\ phase = "pass1" /\ d < pos =>
               named[d].done \/ Waiting(d, deferred) \/ errors # "none"
        /\ phase \in {"retry", "forced"} =>
               \/ named[d].done \/ anon[d].done \/ errors # "none"
               \/ Waiting(d, deferred) \/ Waiting(d, to_retry)
        /\ phase = "pass2" /\ d < pos => named[d].done \/ errors # "none"
        /\ phase = "pass2" /\ d >= pos =>
               named[d].done \/ anon[d].done \/ Ready(d) \/ errors # "none"
        /\ phase = "accepted" => named[d].done

Shape ==
    /\ prog \in Programs
    /\ DOMAIN named = Decls /\ DOMAIN anon = Decls
    /\ \A d \in Decls : named[d].done \in BOOLEAN /\ anon[d].done \in BOOLEAN
    /\ deferred \in Seq(Decls) /\ to_retry \in Seq(Decls) /\ pos \in Nat \ {0}
    /\ errors \in {"none", "type"}
    /\ phase \in {"named", "pass1", "retry", "forced", "pass2", "accepted", "rejected"}
    /\ phase = "forced" => to_retry = <<>>

IInv == Shape /\ Sound /\ Accounted

-----------------------------------------------------------------------------
(* The types of what a program declares. *)
LEMMA ProgramTypes ==
    ASSUME prog \in Programs
    PROVE  /\ Len(prog) \in Nat /\ Decls = 1..Len(prog)
           /\ \A d \in Decls :
                  /\ Fields(d) \in Seq(FieldTypes)
                  /\ DOMAIN Fields(d) \in SUBSET (Nat \ {0})
                  /\ \A f \in DOMAIN Fields(d) :
                        ~IsPrim(Fields(d)[f]) => Fields(d)[f].of \in Decls
<1>1. prog \in Seq([kind : {"struct", "union"}, fields : Seq(FieldTypes)])
  BY TypeResolutionConstants
<1>2. \A d \in Decls : Fields(d) \in Seq(FieldTypes)
  <2> DEFINE D == [kind : {"struct", "union"}, fields : Seq(FieldTypes)]
  <2>1. \A d \in Decls : prog[d] \in D
    <3>1. prog \in Seq(D)
      BY <1>1
    <3> HIDE DEF D
    <3> QED BY <3>1 DEF Decls
  <2>2. \A r \in D : r.fields \in Seq(FieldTypes)
    OBVIOUS
  <2> HIDE DEF D
  <2> QED BY <2>1, <2>2 DEF Fields
<1>3. \A d \in Decls : \A f \in DOMAIN Fields(d) :
         Fields(d)[f].kind \notin {"u8", "i32"} => Fields(d)[f].of \in Decls
  BY TypeResolutionConstants DEF Decls, Fields
<1> QED BY <1>1, <1>2, <1>3 DEF IsPrim, Decls

(* A set of numbers that is not empty has a least one. *)
LEMMA LeastExists ==
    ASSUME NEW bad \in SUBSET Nat, bad # {}
    PROVE  \E f \in bad : \A g \in bad : f <= g
<1> DEFINE less == OpToRel(<, Nat)
<1>1. PICK x \in bad : \A y \in bad : ~(<<y, x>> \in less)
  <2> HIDE DEF less
  <2> QED BY NatLessThanWellFounded, WFMin DEF less
<1>2. \A y \in bad : <<y, x>> \in less <=> y < x
  BY DEF OpToRel
<1>3. \A y \in bad : ~(y < x) /\ y \in Nat /\ x \in Nat
  BY <1>1, <1>2
<1> QED BY <1>3

(* The visitor stops nowhere exactly when all fields are complete. *)
LEMMA StopsUnlessReady ==
    ASSUME prog \in Programs, NEW d \in Decls
    PROVE  Stop(d) = 0 <=> Ready(d)
<1> DEFINE bad == {f \in DOMAIN Fields(d) : ~isTypeComplete(Fields(d)[f])}
<1>1. bad \in SUBSET (Nat \ {0})
  BY ProgramTypes
<1>2. Ready(d) <=> bad = {}
  BY DEF Ready
<1>3. Stop(d) = IF bad = {} THEN 0 ELSE CHOOSE f \in bad : \A g \in bad : f <= g
  BY DEF Stop
<1>4. bad # {} => \E f \in bad : \A g \in bad : f <= g
  <2> HIDE DEF bad
  <2> QED BY <1>1, LeastExists
<1> HIDE DEF bad
<1>5. bad # {} => Stop(d) \in bad
  BY <1>3, <1>4
<1> QED BY <1>1, <1>2, <1>3, <1>5

(* What a type holds by value is declared. *)
LEMMA ByValueDeclared ==
    ASSUME prog \in Programs, NEW d \in Decls
    PROVE  ByValue(d) \subseteq Decls
BY ProgramTypes DEF ByValue, IsPrim

(* A type with all fields complete holds only completed ones by value. *)
LEMMA ReadyHoldsDone ==
    ASSUME prog \in Programs, NEW d \in Decls, Ready(d)
    PROVE  ByValue(d) \subseteq Done
<1>1. \A f \in DOMAIN Fields(d) :
        Fields(d)[f].kind \in {"val", "arr"} => named[Fields(d)[f].of].done
  BY DEF Ready, isTypeComplete, IsPrim
<1> QED BY <1>1, ByValueDeclared DEF ByValue, Done

(* The aggregate a visit builds is complete. *)
LEMMA NewLayoutDone ==
    ASSUME NEW d, NEW v
    PROVE  NewLayout(d, v).done = TRUE
BY DEF NewLayout, AggregateLayout, calculateStructLayout

-----------------------------------------------------------------------------
(* Completing d, whose fields are complete, keeps the kinds sound; every   *)
(* action changes the kinds in one of these ways.                          *)
Completes(d) ==
    /\ DOMAIN named' = Decls
    /\ named'[d].done = TRUE
    /\ \A e \in Decls \ {d} : named'[e].done = named[e].done

KindsKept == DOMAIN named' = Decls /\ \A e \in Decls : named'[e].done = named[e].done

(* Types once complete stay complete. *)
LEMMA DoneGrows ==
    ASSUME Shape, UNCHANGED prog,
           KindsKept \/ \E d \in Decls : Completes(d)
    PROVE  /\ Decls' = Decls
           /\ \A e \in Decls :
                  /\ named[e].done => named'[e].done
                  /\ named'[e].done \in BOOLEAN
                  /\ ByValue(e)' = ByValue(e)
                  /\ Ready(e) => Ready(e)'
           /\ Done \subseteq Done'
<1>1. Decls' = Decls /\ \A e \in Decls : Fields(e)' = Fields(e)
  BY DEF Decls, Fields
<1>2. \A e \in Decls :
         (named[e].done => named'[e].done) /\ named'[e].done \in BOOLEAN
  BY DEF Shape, KindsKept, Completes
<1>3. \A e \in Decls : ByValue(e)' = ByValue(e)
  BY <1>1 DEF ByValue
<1>4. Done \subseteq Done'
  BY <1>1, <1>2 DEF Done
<1>5. ASSUME NEW e \in Decls, Ready(e) PROVE Ready(e)'
  <2>1. \A f \in DOMAIN Fields(e) : ~IsPrim(Fields(e)[f]) => Fields(e)[f].of \in Decls
    BY ProgramTypes DEF Shape
  <2>2. \A f \in DOMAIN Fields(e) : isTypeComplete(Fields(e)[f])
    BY <1>5 DEF Ready
  <2>3. \A f \in DOMAIN Fields(e) : isTypeComplete(Fields(e)[f])'
    BY <2>1, <2>2, <1>1, <1>2 DEF isTypeComplete, IsPrim
  <2> QED BY <2>3, <1>1 DEF Ready
<1> QED BY <1>1, <1>2, <1>3, <1>4, <1>5

(* Where no type is completed, Sound is kept. *)
LEMMA SoundKept ==
    ASSUME Shape, Sound, UNCHANGED prog, KindsKept, UNCHANGED anon
    PROVE  Sound'
<1>1. Decls' = Decls /\ Done' = Done /\ \A e \in Decls : ByValue(e)' = ByValue(e)
  <2>1. Decls' = Decls /\ \A e \in Decls : ByValue(e)' = ByValue(e)
    BY DoneGrows
  <2> QED BY <2>1 DEF Done, KindsKept
<1>2. \A d \in Decls : (named[d].done \/ anon[d].done)' => ByValue(d)' \subseteq Done'
  BY <1>1 DEF Sound, KindsKept
<1>3. ASSUME NEW S \in SUBSET Done', S # {} PROVE \E e \in S : ByValue(e)' \cap S = {}
  <2>1. PICK e \in S : ByValue(e) \cap S = {}
    BY <1>1, <1>3 DEF Sound
  <2> QED BY <2>1, <1>1 DEF Done
<1> QED BY <1>1, <1>2, <1>3 DEF Sound

(* The step that matters: what completes was not complete, and so is in    *)
(* nothing completed before it.                                            *)
LEMMA SoundExtended ==
    ASSUME Shape, Sound, UNCHANGED prog, UNCHANGED anon,
           NEW d \in Decls, ~named[d].done, ByValue(d) \subseteq Done, Completes(d)
    PROVE  Sound'
<1>1. /\ Decls' = Decls /\ Done \subseteq Done'
      /\ \A e \in Decls : ByValue(e)' = ByValue(e)
  BY DoneGrows
<1>2. Done' = Done \cup {d} /\ d \notin Done /\ Done \subseteq Decls
  BY <1>1 DEF Done, Completes
<1>3. \A e \in Decls : (named[e].done \/ anon[e].done)' => ByValue(e)' \subseteq Done'
  BY <1>1, <1>2 DEF Sound, Completes
<1>4. ASSUME NEW S \in SUBSET Done', S # {} PROVE \E e \in S : ByValue(e) \cap S = {}
  <2>1. CASE S \cap Done = {}
    <3>1. S = {d}
      BY <1>2, <1>4, <2>1
    <3> QED BY <3>1, <1>2
  <2>2. CASE S \cap Done # {}
    <3>1. PICK e \in S \cap Done : ByValue(e) \cap (S \cap Done) = {}
      BY <2>2 DEF Sound
    <3>2. ByValue(e) \subseteq Done
      BY DEF Sound, Done
    <3> QED BY <3>1, <3>2
  <2> QED BY <2>1, <2>2
<1>5. \A S \in SUBSET Done' : S # {} => \E e \in S : ByValue(e)' \cap S = {}
  BY <1>1, <1>2, <1>4
<1> QED BY <1>1, <1>3, <1>5 DEF Sound
-----------------------------------------------------------------------------
(* What the actions do to the kinds, the lists and the errors. *)
LEMMA FinalizeKinds ==
    ASSUME NEW d, NEW st, Finalize(d, st)
    PROVE  DOMAIN named' = Decls /\ \A e \in Decls : named'[e].done = st.nm[e].done
<1>1. PICK new : named' = [e \in Decls |-> [done |-> st.nm[e].done,
                             size |-> new.nm[e].size, align |-> new.nm[e].align]]
  BY DEF Finalize
<1> QED BY <1>1

(* A report is a type error. *)
LEMMA ReportKinds ==
    ASSUME Shape, Report
    PROVE  errors' = "type"
BY DEF Shape, Report

(* The three ways of visiting a placeholder. *)
LEMMA VisitKinds ==
    ASSUME Shape, NEW d \in Decls, VisitPlaceholder(d)
    PROVE  \/ Ready(d) /\ Completes(d) /\ UNCHANGED <<deferred, errors>>
           \/ ~Ready(d) /\ KindsKept /\ errors' = "type" /\ UNCHANGED deferred
           \/ ~Ready(d) /\ KindsKept /\ deferred' = Append(deferred, d) /\ UNCHANGED errors
<1>1. PICK v : IF Stop(d) = 0
           THEN /\ named' = [named EXCEPT ![d] = NewLayout(d, v)]
                /\ UNCHANGED <<deferred, errors>>
           ELSE /\ UNCHANGED named
                /\ IF prog[d].kind = "union"
                     THEN Report /\ UNCHANGED deferred
                     ELSE deferred' = Append(deferred, d) /\ UNCHANGED errors
  BY DEF VisitPlaceholder
<1>2. Stop(d) = 0 <=> Ready(d)
  BY StopsUnlessReady DEF Shape
<1>3. DOMAIN named = Decls
  BY DEF Shape
<1>4. CASE Ready(d)
  <2>1. named' = [named EXCEPT ![d] = NewLayout(d, v)] /\ UNCHANGED <<deferred, errors>>
    BY <1>1, <1>2, <1>4
  <2>2. Completes(d)
    BY <2>1, <1>3, NewLayoutDone DEF Completes
  <2> QED BY <2>1, <2>2, <1>4
<1>5. CASE ~Ready(d)
  <2>1. UNCHANGED named /\ \/ Report /\ UNCHANGED deferred
                           \/ deferred' = Append(deferred, d) /\ UNCHANGED errors
    BY <1>1, <1>2, <1>5
  <2>2. KindsKept
    BY <2>1, <1>3 DEF KindsKept
  <2> QED BY <2>1, <2>2, <1>5, ReportKinds
<1> QED BY <1>4, <1>5

(* The ways of resolving a named type. *)
LEMMA ResolveKinds ==
    ASSUME Shape, ResolveNamed
    PROVE  /\ pos \in Decls
           /\ \/ Ready(pos) /\ Completes(pos) /\ UNCHANGED errors
              \/ KindsKept /\ errors' \in {errors, "type"}
<1> DEFINE St(v) == [nm |-> [named EXCEPT ![pos] = NewLayout(pos, v)],
                     nd |-> v.nd, cp |-> v.cp, ds |-> v.ds[pos]]
<1>1. PICK v : IF Stop(pos) = 0
                 THEN Finalize(pos, St(v)) /\ UNCHANGED errors
                 ELSE /\ IF SelfByValue(pos) \/ prog[pos].kind = "union"
                           THEN Report ELSE UNCHANGED errors
                      /\ UNCHANGED named
  BY DEF ResolveNamed
<1>2. pos \in Decls /\ DOMAIN named = Decls
  BY ProgramTypes DEF Shape, ResolveNamed
<1>3. Stop(pos) = 0 <=> Ready(pos)
  BY <1>2, StopsUnlessReady DEF Shape
<1>4. CASE Ready(pos)
  <2>1. Finalize(pos, St(v)) /\ UNCHANGED errors
    BY <1>1, <1>3, <1>4
  <2>2. DOMAIN named' = Decls /\ \A e \in Decls : named'[e].done = St(v).nm[e].done
    <3> HIDE DEF St
    <3> QED BY <2>1, FinalizeKinds
  <2>3. St(v).nm = [named EXCEPT ![pos] = NewLayout(pos, v)]
    OBVIOUS
  <2> HIDE DEF St
  <2>4. \A e \in Decls : named'[e].done = [named EXCEPT ![pos] = NewLayout(pos, v)][e].done
    BY <2>2, <2>3
  <2>5. NewLayout(pos, v).done = TRUE
    BY NewLayoutDone
  <2>6. Completes(pos)
    BY <2>2, <2>4, <2>5, <1>2 DEF Completes
  <2> QED BY <2>1, <2>6, <1>2, <1>4
<1>5. CASE ~Ready(pos)
  BY <1>1, <1>2, <1>3, <1>5, ReportKinds DEF KindsKept
<1> QED BY <1>4, <1>5
-----------------------------------------------------------------------------
(* IInv holds of the declared placeholders. *)
LEMMA Initially == Init => IInv
<1> SUFFICES ASSUME Init PROVE IInv
  OBVIOUS
<1>1. \A d \in Decls : named[d].done = FALSE /\ anon[d].done = FALSE
  BY DEF Init, Placeholder
<1>2. Shape
  <2>1. <<>> \in Seq(Decls) /\ 1 \in Nat \ {0}
    OBVIOUS
  <2>2. DOMAIN named = Decls /\ DOMAIN anon = Decls
    BY DEF Init
  <2>3. /\ prog \in Programs /\ deferred = <<>> /\ to_retry = <<>>
        /\ pos = 1 /\ phase = "named" /\ errors = "none"
    BY DEF Init
  <2> QED BY <1>1, <2>1, <2>2, <2>3 DEF Shape
<1>3. Done = {}
  BY <1>1 DEF Done
<1>4. Sound
  BY <1>1, <1>3 DEF Sound
<1>5. Accounted
  BY <1>1 DEF Accounted, Init
<1> QED BY <1>2, <1>4, <1>5 DEF IInv

(* Phase 0.5. *)
LEMMA ResolveNamedStep ==
    ASSUME IInv, ResolveNamed
    PROVE  IInv'
<1>1. /\ Shape /\ Sound /\ Accounted /\ UNCHANGED <<prog, anon>>
      /\ phase = "named" /\ phase' = "named" /\ pos' = pos + 1
      /\ UNCHANGED <<deferred, to_retry>>
  BY DEF IInv, ResolveNamed
<1>2. /\ pos \in Decls
      /\ \/ Ready(pos) /\ Completes(pos) /\ UNCHANGED errors
         \/ KindsKept /\ errors' \in {errors, "type"}
  BY <1>1, ResolveKinds
<1>3. Decls' = Decls /\ \A e \in Decls : named'[e].done \in BOOLEAN
  BY <1>1, <1>2, DoneGrows
<1>4. Shape'
  BY <1>1, <1>2, <1>3 DEF Shape, Completes, KindsKept
<1>5. Sound'
  <2>1. CASE Ready(pos) /\ Completes(pos)
    <3>1. ~named[pos].done
      BY <1>1, <1>2 DEF Accounted, Shape
    <3>2. ByValue(pos) \subseteq Done
      BY <1>1, <1>2, <2>1, ReadyHoldsDone DEF Shape
    <3> QED BY <1>1, <1>2, <2>1, <3>1, <3>2, SoundExtended
  <2>2. CASE KindsKept
    BY <1>1, <2>2, SoundKept
  <2> QED BY <1>2, <2>1, <2>2
<1>6. Accounted'
  <2>1. \A d \in Decls : d >= pos + 1 => ~named'[d].done
    <3>1. \A d \in Decls : d \in Nat
      BY <1>1, ProgramTypes DEF Shape
    <3>2. \A d \in Decls : d >= pos + 1 => d # pos /\ d >= pos
      BY <1>1, <3>1 DEF Shape
    <3>3. \A d \in Decls : d >= pos => ~named[d].done
      BY <1>1 DEF Accounted
    <3> QED BY <1>2, <3>2, <3>3 DEF Completes, KindsKept
  <2> QED BY <1>1, <1>3, <2>1 DEF Accounted
<1> QED BY <1>4, <1>5, <1>6 DEF IInv

(* Named types are resolved: on to the first pass. *)
LEMMA NamedDoneStep ==
    ASSUME IInv, NamedDone
    PROVE  IInv'
<1>1. /\ Shape /\ Sound /\ Accounted /\ UNCHANGED <<prog, anon, named, deferred, to_retry, errors>>
      /\ phase' = "pass1" /\ pos' = 1
  BY DEF IInv, NamedDone, types
<1>2. Decls' = Decls /\ KindsKept
  BY <1>1 DEF Decls, KindsKept, Shape
<1>3. Shape'
  BY <1>1, <1>2 DEF Shape
<1>4. Sound'
  BY <1>1, <1>2, SoundKept
<1>5. \A d \in Decls : ~(d < 1)
  BY <1>1, ProgramTypes DEF Shape
<1>6. Accounted'
  BY <1>1, <1>2, <1>5 DEF Accounted
<1> QED BY <1>3, <1>4, <1>6 DEF IInv
-----------------------------------------------------------------------------
(* Waiting in the lists. *)
LEMMA WaitingAppended ==
    ASSUME NEW seq \in Seq(Decls), NEW d \in Decls
    PROVE  /\ Append(seq, d) \in Seq(Decls)
           /\ Waiting(d, Append(seq, d))
           /\ \A e : Waiting(e, seq) => Waiting(e, Append(seq, d))
<1>1. /\ Append(seq, d) \in Seq(Decls) /\ Len(seq) \in Nat
      /\ DOMAIN seq = 1..Len(seq) /\ DOMAIN Append(seq, d) = 1..(Len(seq) + 1)
      /\ Append(seq, d)[Len(seq) + 1] = d
      /\ \A k \in 1..Len(seq) : Append(seq, d)[k] = seq[k]
  BY AppendProperties
<1>2. Len(seq) + 1 \in 1..(Len(seq) + 1) /\ 1..Len(seq) \subseteq 1..(Len(seq) + 1)
  BY <1>1
<1> QED BY <1>1, <1>2 DEF Waiting

(* Taking the first of the deferred leaves the others waiting. *)
LEMMA WaitingTaken ==
    ASSUME NEW seq \in Seq(Decls), seq # <<>>
    PROVE  /\ Head(seq) \in Decls /\ Tail(seq) \in Seq(Decls)
           /\ \A e : Waiting(e, seq) => e = Head(seq) \/ Waiting(e, Tail(seq))
<1>1. /\ Head(seq) \in Decls /\ Tail(seq) \in Seq(Decls)
      /\ Len(seq) \in Nat \ {0} /\ Len(Tail(seq)) = Len(seq) - 1
      /\ \A i \in 1..Len(Tail(seq)) : Tail(seq)[i] = seq[i + 1]
      /\ Head(seq) = seq[1] /\ DOMAIN seq = 1..Len(seq)
  BY HeadTailProperties, EmptySeq DEF Head
<1>2. \A k \in 1..Len(seq) : k = 1 \/ (k - 1 \in 1..Len(Tail(seq)) /\ (k - 1) + 1 = k)
  BY <1>1
<1>3. \A k \in 1..Len(seq) : k = 1 \/ (k - 1 \in DOMAIN Tail(seq) /\ Tail(seq)[k - 1] = seq[k])
  BY <1>1, <1>2
<1> QED BY <1>1, <1>3 DEF Waiting

(* check(), pass 1. *)
LEMMA Pass1Step ==
    ASSUME IInv, Pass1
    PROVE  IInv'
<1>1. /\ Shape /\ Sound /\ Accounted /\ UNCHANGED <<prog, anon, to_retry>>
      /\ phase = "pass1" /\ phase' = "pass1" /\ pos' = pos + 1
  BY DEF IInv, Pass1
<1>2. pos \in Decls /\ DOMAIN named = Decls /\ \A d \in Decls : d \in Nat
  BY <1>1, ProgramTypes DEF Shape, Pass1
<1>3. \/ named[pos].done /\ KindsKept /\ UNCHANGED <<deferred, errors>>
      \/ ~named[pos].done /\ Ready(pos) /\ Completes(pos) /\ UNCHANGED <<deferred, errors>>
      \/ KindsKept /\ errors' = "type" /\ UNCHANGED deferred
      \/ KindsKept /\ deferred' = Append(deferred, pos) /\ UNCHANGED errors
  <2>1. CASE named[pos].done
    BY <1>2, <2>1 DEF Pass1, KindsKept
  <2>2. CASE ~named[pos].done
    BY <1>1, <1>2, <2>2, VisitKinds DEF Pass1
  <2> QED BY <2>1, <2>2
<1>4. /\ Decls' = Decls
      /\ \A e \in Decls : named[e].done => named'[e].done
      /\ \A e \in Decls : named'[e].done \in BOOLEAN
  BY <1>1, <1>2, <1>3, DoneGrows
<1>5. deferred \in Seq(Decls)
  BY <1>1 DEF Shape
<1>6. deferred' \in Seq(Decls)
  BY <1>2, <1>3, <1>5, WaitingAppended
<1>7. Shape'
  BY <1>1, <1>3, <1>4, <1>6 DEF Shape, KindsKept, Completes
<1>8. Sound'
  <2>1. CASE KindsKept
    BY <1>1, <2>1, SoundKept
  <2>2. CASE ~named[pos].done /\ Ready(pos) /\ Completes(pos)
    <3>1. ByValue(pos) \subseteq Done
      BY <1>1, <1>2, <2>2, ReadyHoldsDone DEF Shape
    <3> QED BY <1>1, <1>2, <2>2, <3>1, SoundExtended
  <2> QED BY <1>3, <2>1, <2>2
<1>9. Accounted'
  <2>1. ASSUME NEW d \in Decls, d < pos + 1
        PROVE  named'[d].done \/ Waiting(d, deferred') \/ errors' # "none"
    <3>1. d = pos \/ d < pos
      BY <1>1, <1>2, <2>1 DEF Shape
    <3>2. CASE d = pos
      BY <1>2, <1>3, <1>4, <1>5, <3>2, WaitingAppended DEF Completes
    <3>3. CASE d < pos
      <4>1. named[d].done \/ Waiting(d, deferred) \/ errors # "none"
        BY <1>1, <3>3 DEF Accounted
      <4>2. Waiting(d, deferred) => Waiting(d, deferred')
        BY <1>2, <1>3, <1>5, WaitingAppended
      <4>3. errors # "none" => errors' # "none"
        BY <1>3
      <4> QED BY <4>1, <4>2, <4>3, <1>4
    <3> QED BY <3>1, <3>2, <3>3
  <2>2. \A d \in Decls : Waiting(d, deferred)' <=> Waiting(d, deferred')
    BY DEF Waiting
  <2> QED BY <1>1, <1>4, <2>1, <2>2 DEF Accounted
<1> QED BY <1>7, <1>8, <1>9 DEF IInv
(* The first pass is over: on to the retries. *)
LEMMA Pass1DoneStep ==
    ASSUME IInv, Pass1Done
    PROVE  IInv'
<1>1. /\ Shape /\ Sound /\ Accounted
      /\ UNCHANGED <<prog, anon, named, deferred, to_retry, errors, pos>>
      /\ phase = "pass1" /\ phase' = "retry" /\ pos > Len(prog)
  BY DEF IInv, Pass1Done, types
<1>2. Decls' = Decls /\ KindsKept
  BY <1>1 DEF Decls, KindsKept, Shape
<1>3. Shape'
  BY <1>1, <1>2 DEF Shape
<1>4. Sound'
  BY <1>1, <1>2, SoundKept
<1>5. \A d \in Decls : d < pos
  BY <1>1, ProgramTypes DEF Shape
<1>6. \A d \in Decls : named[d].done \/ Waiting(d, deferred) \/ errors # "none"
  BY <1>1, <1>5 DEF Accounted
<1>7. \A d \in Decls : Waiting(d, deferred)' <=> Waiting(d, deferred)
  BY <1>1 DEF Waiting
<1>8. Accounted'
  BY <1>1, <1>2, <1>6, <1>7 DEF Accounted
<1> QED BY <1>3, <1>4, <1>8 DEF IInv

(* The retry loop. *)
LEMMA RetryPassStep ==
    ASSUME IInv, RetryPass
    PROVE  IInv'
<1>1. /\ Shape /\ Sound /\ Accounted
      /\ UNCHANGED <<prog, anon, named, errors, pos>>
      /\ phase = "retry" /\ phase' = "retry"
      /\ to_retry = <<>> /\ to_retry' = deferred /\ deferred' = <<>>
  BY DEF IInv, RetryPass, types
<1>2. Decls' = Decls /\ KindsKept
  BY <1>1 DEF Decls, KindsKept, Shape
<1>3. Shape'
  BY <1>1, <1>2 DEF Shape
<1>4. Sound'
  BY <1>1, <1>2, SoundKept
<1>5. \A d \in Decls : ~Waiting(d, to_retry)
  BY <1>1 DEF Waiting
<1>6. \A d \in Decls : \/ named[d].done \/ anon[d].done \/ errors # "none"
                       \/ Waiting(d, deferred)
  BY <1>1, <1>5 DEF Accounted
<1>7. \A d \in Decls : Waiting(d, to_retry)' <=> Waiting(d, deferred)
  BY <1>1 DEF Waiting
<1>8. Accounted'
  BY <1>1, <1>2, <1>6, <1>7 DEF Accounted
<1> QED BY <1>3, <1>4, <1>8 DEF IInv

(* A retried placeholder is completed or deferred again. *)
LEMMA RetryStep ==
    ASSUME IInv, Retry
    PROVE  IInv'
<1> DEFINE h == Head(to_retry)
<1>1. /\ Shape /\ Sound /\ Accounted
      /\ UNCHANGED <<prog, named, errors, pos>>
      /\ phase = "retry" /\ phase' = "retry"
      /\ to_retry # <<>> /\ to_retry' = Tail(to_retry)
  BY DEF IInv, Retry
<1>2. /\ h \in Decls /\ Tail(to_retry) \in Seq(Decls)
      /\ \A e : Waiting(e, to_retry) => e = h \/ Waiting(e, Tail(to_retry))
  BY <1>1, WaitingTaken DEF Shape
<1>3. /\ DOMAIN anon = Decls /\ deferred \in Seq(Decls)
      /\ \A e \in Decls : anon[e].done \in BOOLEAN
  BY <1>1 DEF Shape
<1>4. PICK d \in Decls : d = h
  BY <1>2
<1> HIDE DEF h
<1>5. \/ anon[d].done /\ UNCHANGED <<anon, deferred>>
      \/ /\ Ready(d) /\ UNCHANGED deferred
         /\ \E v : anon' = [anon EXCEPT ![d] = NewLayout(d, v)]
      \/ deferred' = Append(deferred, d) /\ UNCHANGED anon
  <2>1. Stop(d) = 0 <=> Ready(d)
    BY <1>1, StopsUnlessReady DEF Shape
  <2>2. IF anon[d].done
          THEN UNCHANGED <<anon, deferred>>
          ELSE \E v : IF Stop(d) = 0
                        THEN anon' = [anon EXCEPT ![d] = NewLayout(d, v)] /\ UNCHANGED deferred
                        ELSE deferred' = Append(deferred, d) /\ UNCHANGED anon
    BY <1>4 DEF Retry, h
  <2> QED BY <2>1, <2>2
<1>6. /\ DOMAIN anon' = Decls
      /\ \A e \in Decls \ {d} : anon'[e].done = anon[e].done
      /\ anon'[d].done \in BOOLEAN
      /\ anon'[d].done => anon[d].done \/ Ready(d)
      /\ anon[d].done => anon'[d].done
      /\ anon'[d].done \/ deferred' = Append(deferred, d)
  <2>1. CASE UNCHANGED anon /\ (anon[d].done \/ deferred' = Append(deferred, d))
    BY <1>3, <1>4, <2>1
  <2>2. CASE Ready(d) /\ \E v : anon' = [anon EXCEPT ![d] = NewLayout(d, v)]
    <3>1. PICK v : anon' = [anon EXCEPT ![d] = NewLayout(d, v)]
      BY <2>2
    <3>2. NewLayout(d, v).done = TRUE
      BY NewLayoutDone
    <3>3. anon'[d].done = TRUE /\ DOMAIN anon' = Decls
      BY <1>3, <3>1, <3>2
    <3>4. \A e \in Decls \ {d} : anon'[e].done = anon[e].done
      BY <1>3, <3>1
    <3> QED BY <2>2, <3>3, <3>4
  <2> QED BY <1>5, <2>1, <2>2
<1>7. deferred' \in Seq(Decls)
  BY <1>3, <1>4, <1>5, WaitingAppended
<1>8. Decls' = Decls /\ KindsKept
  BY <1>1 DEF Decls, KindsKept, Shape
<1>9. \A e \in Decls : anon'[e].done \in BOOLEAN /\ (anon[e].done => anon'[e].done)
  BY <1>3, <1>6
<1>10. Shape'
  BY <1>1, <1>2, <1>6, <1>7, <1>8, <1>9 DEF Shape, KindsKept
<1>11. Sound'
  <2>1. Done' = Done /\ \A e \in Decls : ByValue(e)' = ByValue(e)
    <3>1. \A e \in Decls : ByValue(e)' = ByValue(e)
      BY <1>1, <1>8, DoneGrows
    <3> QED BY <1>1, <1>8, <3>1 DEF Done
  <2>2. \A e \in Decls : anon'[e].done => ByValue(e) \subseteq Done
    BY <1>1, <1>4, <1>6, ReadyHoldsDone DEF Sound, Shape
  <2>3. \A e \in Decls : named'[e].done \/ anon'[e].done => ByValue(e)' \subseteq Done'
    BY <1>1, <2>1, <2>2 DEF Sound
  <2>4. \A S \in SUBSET Done' : S # {} => \E e \in S : ByValue(e)' \cap S = {}
    BY <1>1, <2>1 DEF Sound, Done
  <2> QED BY <1>8, <2>3, <2>4 DEF Sound
<1>12. Accounted'
  <2>1. ASSUME NEW e \in Decls
        PROVE  \/ named'[e].done \/ anon'[e].done \/ errors' # "none"
               \/ Waiting(e, deferred') \/ Waiting(e, to_retry')
    <3>1. \/ named[e].done \/ anon[e].done \/ errors # "none"
          \/ Waiting(e, deferred) \/ Waiting(e, to_retry)
      BY <1>1 DEF Accounted
    <3>2. Waiting(e, deferred) => Waiting(e, deferred')
      BY <1>3, <1>4, <1>5, WaitingAppended
    <3>3. CASE Waiting(e, to_retry)
      <4>1. e = d \/ Waiting(e, to_retry')
        BY <1>1, <1>2, <1>4, <3>3
      <4>2. e = d => anon'[e].done \/ Waiting(e, deferred')
        BY <1>3, <1>6, WaitingAppended
      <4> QED BY <4>1, <4>2
    <3>4. CASE named[e].done \/ anon[e].done \/ errors # "none"
      BY <1>1, <1>9, <3>4
    <3> QED BY <3>1, <3>2, <3>3, <3>4
  <2>2. \A e \in Decls : /\ Waiting(e, deferred)' <=> Waiting(e, deferred')
                         /\ Waiting(e, to_retry)' <=> Waiting(e, to_retry')
    BY DEF Waiting
  <2> QED BY <1>1, <1>8, <2>1, <2>2 DEF Accounted
<1> QED BY <1>10, <1>11, <1>12 DEF IInv
(* No retry is left: on to the forced ones. *)
LEMMA RetryDoneStep ==
    ASSUME IInv, RetryDone
    PROVE  IInv'
<1>1. /\ Shape /\ Sound /\ Accounted
      /\ UNCHANGED <<prog, anon, named, deferred, to_retry, errors, pos>>
      /\ phase = "retry" /\ phase' = "forced" /\ to_retry = <<>>
  BY DEF IInv, RetryDone, types
<1>2. Decls' = Decls /\ KindsKept
  BY <1>1 DEF Decls, KindsKept, Shape
<1>3. Shape'
  BY <1>1, <1>2 DEF Shape
<1>4. Sound'
  BY <1>1, <1>2, SoundKept
<1>5. \A d \in Decls : Waiting(d, deferred)' <=> Waiting(d, deferred)
  BY <1>1 DEF Waiting
<1>6. \A d \in Decls : Waiting(d, to_retry)' <=> Waiting(d, to_retry)
  BY <1>1 DEF Waiting
<1>7. Accounted'
  BY <1>1, <1>2, <1>5, <1>6 DEF Accounted
<1> QED BY <1>3, <1>4, <1>7 DEF IInv

(* The forced visit: with nothing reported, all that is left can complete. *)
LEMMA ForcedStep ==
    ASSUME IInv, Forced
    PROVE  IInv'
<1>1. /\ Shape /\ Sound /\ Accounted
      /\ UNCHANGED <<prog, anon, named, deferred, to_retry>>
      /\ phase = "forced" /\ phase' = "pass2" /\ pos' = 1 /\ to_retry = <<>>
  BY DEF IInv, Forced, types, Shape
<1>2. Decls' = Decls /\ KindsKept
  BY <1>1 DEF Decls, KindsKept, Shape
<1>3. \/ errors' = "type"
      \/ errors' = errors /\ \A k \in DOMAIN deferred : Stop(deferred[k]) = 0
  BY <1>1, ReportKinds DEF Forced
<1>4. Shape'
  BY <1>1, <1>2, <1>3 DEF Shape
<1>5. Sound'
  BY <1>1, <1>2, SoundKept
<1>6. \A d \in Decls : ~(d < 1)
  BY <1>1, ProgramTypes DEF Shape
<1>7. ASSUME NEW d \in Decls
      PROVE  named'[d].done \/ anon'[d].done \/ Ready(d)' \/ errors' # "none"
  <2>1. \/ named[d].done \/ anon[d].done \/ errors # "none"
        \/ Waiting(d, deferred)
    BY <1>1 DEF Accounted, Waiting
  <2>2. CASE Waiting(d, deferred)
    <3>1. PICK k \in DOMAIN deferred : deferred[k] = d
      BY <2>2 DEF Waiting
    <3>2. errors' = "type" \/ Stop(d) = 0
      BY <1>3, <3>1
    <3>3. Stop(d) = 0 => Ready(d)
      BY <1>1, StopsUnlessReady DEF Shape
    <3>4. Ready(d) => Ready(d)'
      BY <1>1, <1>2, DoneGrows
    <3> QED BY <3>2, <3>3, <3>4
  <2>3. CASE named[d].done \/ anon[d].done \/ errors # "none"
    BY <1>1, <1>3, <2>3
  <2> QED BY <2>1, <2>2, <2>3
<1>8. Accounted'
  BY <1>1, <1>2, <1>6, <1>7 DEF Accounted
<1> QED BY <1>4, <1>5, <1>8 DEF IInv

(* check(), pass 2. *)
LEMMA Pass2Kinds ==
    ASSUME Shape, Pass2, pos \in Decls
    PROVE  \/ named[pos].done /\ KindsKept /\ UNCHANGED <<deferred, errors>>
           \/ /\ ~named[pos].done /\ (Ready(pos) \/ anon[pos].done) /\ Completes(pos)
              /\ UNCHANGED <<deferred, errors>>
           \/ KindsKept /\ errors' = "type" /\ UNCHANGED deferred
           \/ /\ ~named[pos].done /\ ~anon[pos].done /\ ~Ready(pos) /\ KindsKept
              /\ deferred' = Append(deferred, pos) /\ UNCHANGED errors
<1>1. DOMAIN named = Decls
  BY DEF Shape
<1>2. CASE named[pos].done
  BY <1>1, <1>2 DEF Pass2, KindsKept
<1>3. CASE ~named[pos].done /\ anon[pos].done
  <2> DEFINE st == [nm |-> [named EXCEPT ![pos] = anon[pos]],
                    nd |-> node, cp |-> comp, ds |-> deps[pos]]
  <2>1. Finalize(pos, st) /\ UNCHANGED <<deferred, errors>>
    BY <1>3 DEF Pass2
  <2>2. st.nm = [named EXCEPT ![pos] = anon[pos]]
    OBVIOUS
  <2> HIDE DEF st
  <2>3. DOMAIN named' = Decls /\ \A e \in Decls : named'[e].done = st.nm[e].done
    BY <2>1, FinalizeKinds
  <2>4. anon[pos].done = TRUE
    BY <1>3 DEF Shape
  <2>5. Completes(pos)
    BY <1>1, <2>2, <2>3, <2>4 DEF Completes
  <2> QED BY <1>3, <2>1, <2>5
<1>4. CASE ~named[pos].done /\ ~anon[pos].done
  <2>1. VisitPlaceholder(pos)
    BY <1>4 DEF Pass2
  <2> QED BY <1>4, <2>1, VisitKinds
<1> QED BY <1>2, <1>3, <1>4

(* The second pass checks one declaration. *)
LEMMA Pass2Step ==
    ASSUME IInv, Pass2
    PROVE  IInv'
<1>1. /\ Shape /\ Sound /\ Accounted /\ UNCHANGED <<prog, anon, to_retry>>
      /\ phase = "pass2" /\ phase' = "pass2" /\ pos' = pos + 1
  BY DEF IInv, Pass2
<1>2. pos \in Decls /\ \A d \in Decls : d \in Nat
  BY <1>1, ProgramTypes DEF Shape, Pass2
<1>3. \/ named[pos].done /\ KindsKept /\ UNCHANGED <<deferred, errors>>
      \/ /\ ~named[pos].done /\ (Ready(pos) \/ anon[pos].done) /\ Completes(pos)
         /\ UNCHANGED <<deferred, errors>>
      \/ KindsKept /\ errors' = "type" /\ UNCHANGED deferred
      \/ /\ ~named[pos].done /\ ~anon[pos].done /\ ~Ready(pos) /\ KindsKept
         /\ deferred' = Append(deferred, pos) /\ UNCHANGED errors
  BY <1>1, <1>2, Pass2Kinds
<1>4. /\ Decls' = Decls
      /\ \A e \in Decls : named[e].done => named'[e].done
      /\ \A e \in Decls : named'[e].done \in BOOLEAN
      /\ \A e \in Decls : Ready(e) => Ready(e)'
  BY <1>1, <1>2, <1>3, DoneGrows
<1>5. deferred' \in Seq(Decls)
  BY <1>1, <1>2, <1>3, WaitingAppended DEF Shape
<1>6. Shape'
  BY <1>1, <1>3, <1>4, <1>5 DEF Shape, KindsKept, Completes
<1>7. Sound'
  <2>1. CASE KindsKept
    BY <1>1, <2>1, SoundKept
  <2>2. CASE ~named[pos].done /\ (Ready(pos) \/ anon[pos].done) /\ Completes(pos)
    <3>1. ByValue(pos) \subseteq Done
      BY <1>1, <1>2, <2>2, ReadyHoldsDone DEF Shape, Sound
    <3> QED BY <1>1, <1>2, <2>2, <3>1, SoundExtended
  <2> QED BY <1>3, <2>1, <2>2
<1>8. errors # "none" => errors' # "none"
  BY <1>3
<1>9. Accounted'
  <2>1. ASSUME NEW d \in Decls, d < pos + 1 PROVE named'[d].done \/ errors' # "none"
    <3>1. d = pos \/ d < pos
      BY <1>1, <1>2, <2>1 DEF Shape
    <3>2. CASE d = pos
      <4>1. named[pos].done \/ anon[pos].done \/ Ready(pos) \/ errors # "none"
        BY <1>1, <1>2 DEF Accounted, Shape
      <4> QED BY <1>2, <1>3, <1>4, <1>8, <3>2, <4>1 DEF Completes
    <3>3. CASE d < pos
      BY <1>1, <1>4, <1>8, <3>3 DEF Accounted
    <3> QED BY <3>1, <3>2, <3>3
  <2>2. ASSUME NEW d \in Decls, d >= pos + 1
        PROVE  named'[d].done \/ anon'[d].done \/ Ready(d)' \/ errors' # "none"
    <3>1. d >= pos
      BY <1>1, <1>2, <2>2 DEF Shape
    <3>2. named[d].done \/ anon[d].done \/ Ready(d) \/ errors # "none"
      BY <1>1, <3>1 DEF Accounted
    <3> QED BY <1>1, <1>4, <1>8, <3>2
  <2> QED BY <1>1, <1>4, <2>1, <2>2 DEF Accounted
<1> QED BY <1>6, <1>7, <1>9 DEF IInv
(* hasErrors and verifyNoPlaceholders. *)
LEMMA VerifyStep ==
    ASSUME IInv, Verify
    PROVE  IInv'
<1>1. /\ Shape /\ Sound /\ Accounted
      /\ UNCHANGED <<prog, anon, named, deferred, to_retry, pos>>
      /\ phase = "pass2" /\ pos > Len(prog)
  BY DEF IInv, Verify, types
<1>2. Decls' = Decls /\ KindsKept
  BY <1>1 DEF Decls, KindsKept, Shape
<1>3. \A d \in Decls : d < pos
  BY <1>1, ProgramTypes DEF Shape
<1>4. \A d \in Decls : named[d].done \/ errors # "none"
  BY <1>1, <1>3 DEF Accounted
<1>5. errors' = errors /\ phase' = IF errors = "none" THEN "accepted" ELSE "rejected"
  BY <1>4 DEF Verify
<1>6. Shape'
  BY <1>1, <1>2, <1>5 DEF Shape
<1>7. Sound'
  BY <1>1, <1>2, SoundKept
<1>8. Accounted'
  BY <1>1, <1>2, <1>4, <1>5 DEF Accounted
<1> QED BY <1>6, <1>7, <1>8 DEF IInv

(* A stuttering step keeps IInv. *)
LEMMA StutteringStep ==
    ASSUME IInv, UNCHANGED vars
    PROVE  IInv'
<1>1. /\ Shape /\ Sound /\ Accounted
      /\ UNCHANGED <<prog, anon, named, deferred, to_retry, pos, errors, phase>>
  BY DEF IInv, vars
<1>2. Decls' = Decls /\ KindsKept
  BY <1>1 DEF Decls, KindsKept, Shape
<1>3. Shape'
  BY <1>1, <1>2 DEF Shape
<1>4. Sound'
  BY <1>1, <1>2, SoundKept
<1>5. \A d \in Decls : Waiting(d, deferred)' <=> Waiting(d, deferred)
  BY <1>1 DEF Waiting
<1>6. \A d \in Decls : Waiting(d, to_retry)' <=> Waiting(d, to_retry)
  BY <1>1 DEF Waiting
<1>7. \A d \in Decls : Ready(d) => Ready(d)'
  BY <1>1, <1>2, DoneGrows
<1>8. Accounted'
  BY <1>1, <1>2, <1>5, <1>6, <1>7 DEF Accounted
<1> QED BY <1>3, <1>4, <1>8 DEF IInv

(* Every step keeps IInv. *)
LEMMA Inductive == IInv /\ [Next]_vars => IInv'
<1> SUFFICES ASSUME IInv, [Next]_vars PROVE IInv'
  OBVIOUS
<1>1. CASE ResolveNamed
  BY <1>1, ResolveNamedStep
<1>2. CASE NamedDone
  BY <1>2, NamedDoneStep
<1>3. CASE Pass1
  BY <1>3, Pass1Step
<1>4. CASE Pass1Done
  BY <1>4, Pass1DoneStep
<1>5. CASE RetryPass
  BY <1>5, RetryPassStep
<1>6. CASE Retry
  BY <1>6, RetryStep
<1>7. CASE RetryDone
  BY <1>7, RetryDoneStep
<1>8. CASE Forced
  BY <1>8, ForcedStep
<1>9. CASE Pass2
  BY <1>9, Pass2Step
<1>10. CASE Verify
  BY <1>10, VerifyStep
<1>11. CASE Finished \/ UNCHANGED vars
  BY <1>11, StutteringStep DEF Finished
<1> QED BY <1>1, <1>2, <1>3, <1>4, <1>5, <1>6, <1>7, <1>8, <1>9, <1>10, <1>11 DEF Next, Step

(* IInv is an invariant of the resolution. *)
LEMMA Always == Spec => []IInv
BY Initially, Inductive, PTL DEF Spec

-----------------------------------------------------------------------------
(* What contains t contains it directly, or holds something that does. *)
LEMMA ContainedThrough ==
    ASSUME prog \in Programs, NEW d \in Decls, NEW t \in Closure(ByValue, d)
    PROVE  t \in ByValue(d) \/ \E e \in ByValue(d) : t \in Closure(ByValue, e)
<1> DEFINE T == ByValue(d) \cup {x \in Decls : \E e \in ByValue(d) : x \in Closure(ByValue, e)}
<1>1. T \in SUBSET Decls /\ ByValue(d) \subseteq T
  BY ByValueDeclared
<1>2. ASSUME NEW x \in T PROVE ByValue(x) \subseteq T
  <2>1. PICK e \in ByValue(d) : x = e \/ x \in Closure(ByValue, e)
    OBVIOUS
  <2>2. e \in Decls /\ x \in Decls
    BY <2>1, <1>1, ByValueDeclared
  <2>3. ByValue(x) \subseteq Decls
    BY <2>2, ByValueDeclared
  <2>4. \A S \in SUBSET Decls :
           ByValue(e) \subseteq S /\ Closed(ByValue, S) => ByValue(x) \subseteq S
    <3>1. CASE x = e
      BY <3>1
    <3>2. CASE x \in Closure(ByValue, e)
      BY <3>2 DEF Closure, Closed
    <3> QED BY <2>1, <3>1, <3>2
  <2>5. ByValue(x) \subseteq Closure(ByValue, e)
    BY <2>3, <2>4 DEF Closure
  <2> QED BY <2>3, <2>5
<1>3. Closed(ByValue, T)
  BY <1>2 DEF Closed
<1>4. t \in T
  <2> HIDE DEF T
  <2> QED BY <1>1, <1>3 DEF Closure
<1> QED BY <1>4

(* With every type complete, none contains itself: among those containing  *)
(* t, one would hold none that does.                                       *)
LEMMA NoneContainsItself ==
    ASSUME prog \in Programs, Sound, Done = Decls, NEW t \in Decls
    PROVE  t \notin Closure(ByValue, t)
<1> DEFINE S == {e \in Decls : t \in Closure(ByValue, e)}
<1> SUFFICES ASSUME t \in Closure(ByValue, t) PROVE FALSE
  OBVIOUS
<1>1. S \in SUBSET Done /\ t \in S
  OBVIOUS
<1>2. PICK e \in S : ByValue(e) \cap S = {}
  <2> HIDE DEF S
  <2> QED BY <1>1 DEF Sound
<1>3. t \in ByValue(e) \/ \E x \in ByValue(e) : t \in Closure(ByValue, x)
  BY ContainedThrough
<1>4. ByValue(e) \subseteq Decls
  BY ByValueDeclared
<1> QED BY <1>1, <1>2, <1>3, <1>4

(* TypeChecker::check and verifyNoPlaceholders together accept no module   *)
(* in which a type contains itself, through any number of declarations in  *)
(* any order, by value or in arrays.                                       *)
THEOREM CyclesRejected == Spec => []ValueCyclesRejected
<1>1. IInv => ValueCyclesRejected
  <2> SUFFICES ASSUME IInv, phase = "accepted", NEW d \in Decls
               PROVE  d \notin Closure(ByValue, d)
    BY DEF ValueCyclesRejected
  <2>1. Done = Decls
    BY DEF IInv, Accounted, Done
  <2> QED BY <2>1, NoneContainsItself DEF IInv, Shape
<1> QED BY <1>1, Always, PTL

(* verifyNoPlaceholders never reports: a declaration that the passes could *)
(* not complete has been reported by one of them.                          *)
THEOREM PlaceholdersReported == Spec => []NoInternalError
<1>1. IInv => NoInternalError
  BY DEF IInv, Shape, NoInternalError
<1> QED BY <1>1, Always, PTL
=============================================================================
