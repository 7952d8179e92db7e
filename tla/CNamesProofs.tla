---------------------------- MODULE CNamesProofs ----------------------------
(***************************************************************************)
(* For every set of locals, every alphabet and every length limit: the     *)
(* names CVariableAllocator gives within a function are distinct, and C    *)
(* accepts them.  The inductive invariants add to LocalsDistinct and       *)
(* LocalsLegal only that assigned_names is a sequence; the work is in the  *)
(* two ways a name is made.  A name that was searched for is new, whatever *)
(* its length was cut to, since the search compares what is left after the *)
(* cut; a name that was only cut still starts with the prefix that marks   *)
(* it as the compiler's own.  What makes a name acceptable is in its first *)
(* two characters, which cutting and numbering keep (Plain), or, for a     *)
(* keyword, in being short and without an underscore.                      *)
(*                                                                         *)
(* For every set of globals whose names can be told apart                  *)
(* (GlobalsWellNamed): all files use one C name per global, CName, and it  *)
(* is its own unless it had to be cut.  The parts of a mangled name can be *)
(* read back from their places (MangledParts).                             *)
(***************************************************************************)
EXTENDS CNames, SequenceTheorems, TLAPS

IsSequence == \E T : assigned_names \in Seq(T)
NamesInv == IsSequence /\ LocalsDistinct

(* Replacing characters keeps a name a sequence of characters.             *)
Chars == STRING \union {"_", "z"}

(* A legalised name is spelled in the characters of C names. *)
LEMMA LegalizedType ==
  ASSUME NEW s \in Seq(STRING) PROVE legalized(s) \in Seq(Chars)
<1>1. Len(s) \in Nat /\ s \in [1 .. Len(s) -> STRING]
  OBVIOUS
<1>2. \A i \in 1 .. Len(s) : (IF s[i] \in Legal THEN s[i] ELSE "_") \in Chars
  BY <1>1, Zenon DEF Chars
<1>3. legalized(s) = [i \in 1 .. Len(s) |-> IF s[i] \in Legal THEN s[i] ELSE "_"]
  BY <1>1 DEF legalized
<1>4. legalized(s) \in [1 .. Len(s) -> Chars]
  BY <1>2, <1>3, Zenon
<1> QED BY <1>1, <1>4, SeqDef

(* Cutting a name keeps the prefix that marks it.                          *)
LEMMA CutKeepsPrefix ==
  ASSUME NEW s \in Seq(Chars), isInternalCompilerIdentifier(s)
  PROVE  isInternalCompilerIdentifier(cut(s, MaxLen))
<1>0. CASE s \in InternalNames
  BY <1>0, NamesAssumption DEF isInternalCompilerIdentifier, cut
<1> SUFFICES ASSUME s \notin InternalNames PROVE isInternalCompilerIdentifier(cut(s, MaxLen))
  BY <1>0
<1>1. PICK p \in InternalPrefixes : StartsWith(s, p)
  BY DEF isInternalCompilerIdentifier
<1>2. p \in Seq(STRING) /\ Len(p) <= MaxLen /\ MaxLen \in Nat
  BY NamesAssumption
<1>3. CASE Len(s) <= MaxLen
  BY <1>1, <1>2, <1>3 DEF isInternalCompilerIdentifier, cut
<1>4. CASE Len(s) > MaxLen
  <2>1. cut(s, MaxLen) = SubSeq(s, 1, MaxLen) /\ Len(SubSeq(s, 1, MaxLen)) = MaxLen
    BY <1>2, <1>4 DEF cut
  <2>2. SubSeq(SubSeq(s, 1, MaxLen), 1, Len(p)) = SubSeq(s, 1, Len(p))
    BY <1>1, <1>2, <1>4 DEF StartsWith
  <2> QED BY <1>1, <1>2, <2>1, <2>2 DEF StartsWith, isInternalCompilerIdentifier
<1> QED BY <1>2, <1>3, <1>4

(* A name makeUnique returns is new or the compiler's own.                 *)
LEMMA NewOrInternal ==
  ASSUME NEW s \in Seq(STRING), NEW c, makeUnique(s, c)
  PROVE  c \notin assigned \/ isInternalCompilerIdentifier(c)
<1>1. CASE isInternalCompilerIdentifier(legalized(s))
  BY <1>1, LegalizedType, CutKeepsPrefix DEF makeUnique
<1>2. CASE ~isInternalCompilerIdentifier(legalized(s))
  BY <1>2 DEF makeUnique, firstFree
<1> QED BY <1>1, <1>2

(* Appending such a name keeps the names distinct.                         *)
LEMMA GiveKeepsDistinct ==
  ASSUME NamesInv, NEW who, NEW c, c \notin assigned \/ isInternalCompilerIdentifier(c), Give(who, c)
  PROVE  NamesInv'
<1> DEFINE e == [who |-> who, c |-> c]
<1>1. PICK T : assigned_names \in Seq(T)
  BY DEF NamesInv, IsSequence
<1>2. assigned_names \in Seq(T \union {e}) /\ e \in T \union {e}
  BY <1>1
<1> DEFINE U == T \union {e}
<1>3. /\ assigned_names' = Append(assigned_names, e)
      /\ assigned_names' \in Seq(U)
      /\ DOMAIN assigned_names' = 1 .. Len(assigned_names) + 1
      /\ \A i \in 1 .. Len(assigned_names) : assigned_names'[i] = assigned_names[i]
      /\ assigned_names'[Len(assigned_names) + 1] = e
      /\ Len(assigned_names) \in Nat /\ DOMAIN assigned_names = 1 .. Len(assigned_names)
  BY <1>2 DEF Give
<1>4. e.c = c
  OBVIOUS
<1> HIDE DEF e, U
<1>5. LocalsDistinct'
  <2> SUFFICES ASSUME NEW i \in DOMAIN assigned_names', NEW j \in DOMAIN assigned_names',
                      i # j, assigned_names'[i].c = assigned_names'[j].c
               PROVE  isInternalCompilerIdentifier(assigned_names'[i].c)
    BY DEF LocalsDistinct
  <2>1. CASE i \in 1 .. Len(assigned_names) /\ j \in 1 .. Len(assigned_names)
    BY <1>3, <2>1 DEF NamesInv, LocalsDistinct
  <2>2. CASE i = Len(assigned_names) + 1 /\ j \in 1 .. Len(assigned_names)
    BY <1>3, <1>4, <2>2 DEF assigned
  <2>3. CASE j = Len(assigned_names) + 1 /\ i \in 1 .. Len(assigned_names)
    BY <1>3, <1>4, <2>3 DEF assigned
  <2> QED BY <1>3, <2>1, <2>2, <2>3
<1> QED BY <1>3, <1>5 DEF NamesInv, IsSequence

(* Every step keeps the names of a function distinct. *)
LEMMA NamesInductive == NamesInv /\ [Next]_vars => NamesInv'
<1> SUFFICES ASSUME NamesInv, [Next]_vars PROVE NamesInv'
  OBVIOUS
<1>1. CASE PrecomputeMangledNames
  BY <1>1 DEF PrecomputeMangledNames, NamesInv, IsSequence, LocalsDistinct
<1>2. CASE BeginFunction \/ NextFile
  <2>1. assigned_names' = << >>
    BY <1>2 DEF BeginFunction, NextFile
  <2>2. assigned_names' \in Seq(STRING) /\ DOMAIN assigned_names' = {}
    BY <2>1
  <2> QED BY <2>2 DEF NamesInv, IsSequence, LocalsDistinct
<1>3. CASE \E g \in Globals : MentionGlobal(g) \/ MentionMember(g)
  BY <1>3 DEF MentionGlobal, MentionMember, NamesInv, IsSequence, LocalsDistinct
<1>4. CASE \E s \in Locals : Allocate(s)
  <2>1. PICK s \in Locals : \E c : makeUnique(s.name, c) /\ Give(s.id, c)
    BY <1>4 DEF Allocate
  <2>2. PICK c : makeUnique(s.name, c) /\ Give(s.id, c)
    BY <2>1
  <2>3. s.name \in Seq(STRING)
    BY NamesAssumption
  <2> QED BY <2>2, <2>3, NewOrInternal, GiveKeepsDistinct
<1>5. CASE \E b \in Bases : Generate(b)
  <2>1. PICK b \in Bases : \E c : makeUnique(b, c) /\ Give(0, c)
    BY <1>5 DEF Generate
  <2>2. PICK c : makeUnique(b, c) /\ Give(0, c)
    BY <2>1
  <2>3. b \in Seq(STRING)
    BY NamesAssumption
  <2> QED BY <2>2, <2>3, NewOrInternal, GiveKeepsDistinct
<1>6. CASE UNCHANGED vars
  BY <1>6 DEF vars, NamesInv, IsSequence, LocalsDistinct
<1> QED BY <1>1, <1>2, <1>3, <1>4, <1>5, <1>6 DEF Next

(* CVariableAllocator::makeUnique: two names that a function's variables   *)
(* and temporaries are given differ unless the compiler made them up.      *)
THEOREM NamesDistinct == Spec => []LocalsDistinct
<1>1. Init => NamesInv
  <2> SUFFICES ASSUME Init PROVE NamesInv
    OBVIOUS
  <2>1. assigned_names \in Seq(STRING) /\ DOMAIN assigned_names = {}
    BY DEF Init
  <2> QED BY <2>1 DEF NamesInv, IsSequence, LocalsDistinct
<1>2. NamesInv => LocalsDistinct
  BY DEF NamesInv
<1> QED BY <1>1, <1>2, NamesInductive, PTL DEF Spec
-----------------------------------------------------------------------------
(* A name C accepts as far as its first two characters go, and that stays  *)
(* so when something is appended.                                          *)
DigitSet == {Digits[i] : i \in DOMAIN Digits}
Plain(s) ==
  /\ Len(s) > 0 => s[1] \notin DigitSet
  /\ ~isCReservedName(s) /\ ~isDiscard(s)

(* When a name needs the prefix, in terms of its characters. *)
LEMMA NeedsPrefixWhen ==
  ASSUME NEW s \in Seq(Chars)
  PROVE  needsPrefix(s) <=>
           (Len(s) > 0 /\ s[1] \in DigitSet) \/ s \in Keywords \/ isCReservedName(s)
<1>1. s # << >> <=> Len(s) > 0
  OBVIOUS
<1> QED BY <1>1 DEF needsPrefix, DigitSet

(* The parts of a name of one, two or three characters. *)
LEMMA ShortNames ==
  ASSUME NEW a \in Chars, NEW b \in Chars, NEW c \in Chars
  PROVE  /\ << a >> \in Seq(Chars) /\ Len(<< a >>) = 1 /\ << a >>[1] = a
         /\ << a, b >> \in Seq(Chars) /\ Len(<< a, b >>) = 2
         /\ << a, b >>[1] = a /\ << a, b >>[2] = b
         /\ << a, b, c >> \in Seq(Chars) /\ Len(<< a, b, c >>) = 3
         /\ << a, b, c >>[1] = a /\ << a, b, c >>[2] = b
<1> HIDE DEF Chars
<1>1. << a >> \in Seq(Chars) /\ Len(<< a >>) = 1 /\ << a >>[1] = a
  OBVIOUS
<1>2. << a, b >> \in Seq(Chars) /\ Len(<< a, b >>) = 2 /\ << a, b >>[1] = a /\ << a, b >>[2] = b
  OBVIOUS
<1>3. << a, b, c >> \in Seq(Chars) /\ Len(<< a, b, c >>) = 3
  OBVIOUS
<1>4. << a, b, c >>[1] = a /\ << a, b, c >>[2] = b
  OBVIOUS
<1> QED BY <1>1, <1>2, <1>3, <1>4

(* The two prefixes are names. *)
LEMMA PrefixType ==
  /\ << "z" >> \in Seq(Chars) /\ Len(<< "z" >>) = 1 /\ << "z" >>[1] = "z"
  /\ << "z", "_" >> \in Seq(Chars) /\ Len(<< "z", "_" >>) = 2
  /\ << "z", "_" >>[1] = "z" /\ << "z", "_" >>[2] = "_"
<1>1. "z" \in Chars /\ "_" \in Chars
  BY Zenon DEF Chars
<1> QED BY <1>1, ShortNames, Zenon

(* The characters of a concatenation.                                      *)
LEMMA ConcatChars ==
  ASSUME NEW s \in Seq(Chars), NEW t \in Seq(Chars)
  PROVE  /\ s \o t \in Seq(Chars) /\ Len(s \o t) = Len(s) + Len(t)
         /\ \A i \in 1 .. Len(s) : (s \o t)[i] = s[i]
         /\ \A i \in 1 .. Len(t) : (s \o t)[Len(s) + i] = t[i]
<1> HIDE DEF Chars
<1> QED OBVIOUS

(* A prefixed name is a name. *)
LEMMA PrefixedType ==
  ASSUME NEW s \in Seq(Chars)
  PROVE  prefixed(s) \in Seq(Chars)
<1>1. << "z" >> \o s \in Seq(Chars) /\ << "z", "_" >> \o s \in Seq(Chars)
  BY PrefixType, ConcatChars
<1> QED BY <1>1, Zenon DEF prefixed

(* No keyword has an underscore in it. *)
LEMMA UnderscoreNoKeyword ==
  ASSUME NEW t \in Seq(Chars), NEW i \in 1 .. Len(t), t[i] = "_"
  PROVE  t \notin Keywords
BY AlphabetAssumption

(* A name of two characters has a first and a second one. *)
LEMMA TwoInDomain ==
  ASSUME NEW t \in Seq(Chars), Len(t) >= 2 PROVE 1 \in 1 .. Len(t) /\ 2 \in 1 .. Len(t)
OBVIOUS

(* What starts with z_ is neither reserved nor a keyword. *)
LEMMA StartPlain ==
  ASSUME NEW t \in Seq(Chars), Len(t) >= 2, t[1] = "z", t[2] = "_"
  PROVE  Plain(t) /\ t \notin Keywords
<1>1. ~isDiscard(t) /\ ~isCReservedName(t)
  BY DEF isCReservedName, isDiscard
<1>2. "z" \notin DigitSet
  BY AlphabetAssumption DEF DigitSet
<1>3. 2 \in 1 .. Len(t)
  BY TwoInDomain
<1>4. t \notin Keywords
  BY <1>3, UnderscoreNoKeyword
<1> QED BY <1>1, <1>2, <1>4 DEF Plain
(* The prefix makes every name acceptable.                                 *)
LEMMA PrefixedPlain ==
  ASSUME NEW s \in Seq(Chars), ~isDiscard(s)
  PROVE  Plain(prefixed(s)) /\ prefixed(s) \notin Keywords
<1>1. CASE ~needsPrefix(s)
  <2>1. prefixed(s) = s
    BY <1>1 DEF prefixed
  <2> QED BY <1>1, <2>1, NeedsPrefixWhen DEF Plain
<1>2. CASE needsPrefix(s) /\ s[1] = "_"
  <2>1. prefixed(s) = << "z" >> \o s
    BY <1>2 DEF prefixed
  <2>2. Len(s) \in Nat /\ Len(s) >= 1
    <3>1. Len(s) \in Nat
      OBVIOUS
    <3>2. (Len(s) > 0) \/ s \in Keywords \/ isCReservedName(s)
      BY <1>2, NeedsPrefixWhen
    <3>3. s \in Keywords => Len(s) >= 1
      <4>1. s \in Keywords => Len(s) \in 1 .. MaxLen - 1
        BY AlphabetAssumption, Zenon
      <4> QED BY <4>1, NamesAssumption
    <3>4. isCReservedName(s) => Len(s) > 1
      BY DEF isCReservedName
    <3> QED BY <3>1, <3>2, <3>3, <3>4
  <2>3. PICK p \in Seq(Chars) : p = << "z" >> /\ Len(p) = 1 /\ p[1] = "z"
    BY PrefixType
  <2>4. /\ p \o s \in Seq(Chars) /\ Len(p \o s) = Len(p) + Len(s)
        /\ \A i \in 1 .. Len(p) : (p \o s)[i] = p[i]
        /\ \A i \in 1 .. Len(s) : (p \o s)[Len(p) + i] = s[i]
    BY ConcatChars
  <2>5. PICK t : t = p \o s
    OBVIOUS
  <2>6. t \in Seq(Chars) /\ Len(t) >= 2 /\ t[1] = "z" /\ t[2] = s[1]
    <3>1. 1 \in 1 .. Len(p) /\ 1 \in 1 .. Len(s) /\ Len(p) + 1 = 2 /\ Len(p) + Len(s) >= 2
      BY <2>2, <2>3
    <3> QED BY <2>3, <2>4, <2>5, <3>1
  <2>7. Plain(t) /\ t \notin Keywords
    BY <1>2, <2>6, StartPlain
  <2> QED BY <2>1, <2>3, <2>5, <2>7
<1>3. CASE needsPrefix(s) /\ s[1] # "_"
  <2>1. prefixed(s) = << "z", "_" >> \o s
    BY <1>3 DEF prefixed
  <2>2. PICK p \in Seq(Chars) : p = << "z", "_" >> /\ Len(p) = 2 /\ p[1] = "z" /\ p[2] = "_"
    BY PrefixType
  <2>3. /\ p \o s \in Seq(Chars) /\ Len(p \o s) = Len(p) + Len(s)
        /\ \A i \in 1 .. Len(p) : (p \o s)[i] = p[i]
    BY ConcatChars
  <2>4. PICK t : t = p \o s
    OBVIOUS
  <2>5. t \in Seq(Chars) /\ Len(t) >= 2 /\ t[1] = "z" /\ t[2] = "_"
    <3>1. Len(s) \in Nat
      OBVIOUS
    <3>2. 1 \in 1 .. 2 /\ 2 \in 1 .. 2 /\ 2 + Len(s) >= 2
      BY <3>1
    <3> QED BY <2>2, <2>3, <2>4, <3>2, Zenon
  <2>6. Plain(t) /\ t \notin Keywords
    BY <2>5, StartPlain
  <2> QED BY <2>1, <2>2, <2>4, <2>6
<1> QED BY <1>1, <1>2, <1>3

(* Cutting keeps two characters, and so what they say.                     *)
LEMMA CutPlain ==
  ASSUME NEW s \in Seq(Chars), Plain(s), NEW n \in Nat, n >= 2
  PROVE  /\ cut(s, n) \in Seq(Chars) /\ Plain(cut(s, n)) /\ Len(cut(s, n)) <= n
         /\ cut(s, n) = s \/ Len(cut(s, n)) = n
<1>0. Len(s) \in Nat
  OBVIOUS
<1>1. CASE Len(s) <= n
  <2>1. cut(s, n) = s
    BY <1>0, <1>1 DEF cut
  <2> QED BY <1>1, <2>1
<1>2. CASE Len(s) > n
  <2>1. PICK t : t = SubSeq(s, 1, n)
    OBVIOUS
  <2>2. cut(s, n) = t
    BY <1>2, <2>1 DEF cut
  <2>3. t \in Seq(Chars) /\ Len(t) = n /\ t[1] = s[1] /\ t[2] = s[2]
    BY <1>0, <1>2, <2>1
  <2>4. Len(t) # 1 /\ Len(s) > 0 /\ Len(s) > 1
    BY <1>0, <1>2, <2>3
  <2>5. Plain(t)
    BY <2>3, <2>4, Zenon DEF Plain, isCReservedName, isDiscard
  <2> QED BY <2>2, <2>3, <2>5
<1> QED BY <1>0, <1>1, <1>2

(* What suffix(n) is.                                                      *)
IsSuffix(x) ==
  x \in Seq(Chars) /\ Len(x) \in 2 .. 3 /\ x[1] = "_" /\ x[2] \in DigitSet

(* The numbers of second and later names of one spelling. *)
LEMMA SuffixType ==
  ASSUME NEW n \in 1 .. 99
  PROVE  IsSuffix(suffix(n))
<1>1. Digits \in Seq(STRING) /\ Len(Digits) = 10
  BY NamesAssumption, AlphabetAssumption, Zenon
<1>2. DOMAIN Digits = 1 .. 10 /\ \A i \in 1 .. 10 : Digits[i] \in STRING
  BY <1>1
<1>3. "_" \in Chars /\ \A i \in 1 .. 10 : Digits[i] \in Chars /\ Digits[i] \in DigitSet
  BY <1>2, Zenon DEF Chars, DigitSet
<1>4. 2 \in 2 .. 3 /\ 3 \in 2 .. 3
  OBVIOUS
<1>5. CASE n < 10
  <2>1. n + 1 \in 1 .. 10
    BY <1>5
  <2>2. PICK i \in 1 .. 10 : i = n + 1
    BY <2>1
  <2>3. suffix(n) = << "_", Digits[i] >>
    BY <1>5, <2>2, Zenon DEF suffix
  <2>4. PICK a \in Chars, b \in Chars : a = "_" /\ b = Digits[i]
    BY <1>3, Zenon
  <2>5. << a, b >> \in Seq(Chars) /\ Len(<< a, b >>) = 2 /\ << a, b >>[1] = a /\ << a, b >>[2] = b
    BY ShortNames, Zenon
  <2> QED BY <1>3, <1>4, <2>3, <2>4, <2>5, Zenon DEF IsSuffix
<1>6. CASE ~(n < 10)
  <2>1. (n \div 10) + 1 \in 1 .. 10 /\ (n % 10) + 1 \in 1 .. 10
    BY <1>6
  <2>2. PICK i \in 1 .. 10, j \in 1 .. 10 : i = (n \div 10) + 1 /\ j = (n % 10) + 1
    BY <2>1
  <2>3. suffix(n) = << "_", Digits[i], Digits[j] >>
    BY <1>6, <2>2, Zenon DEF suffix
  <2>4. PICK a \in Chars, b \in Chars, c \in Chars : a = "_" /\ b = Digits[i] /\ c = Digits[j]
    BY <1>3, Zenon
  <2>5. /\ << a, b, c >> \in Seq(Chars) /\ Len(<< a, b, c >>) = 3
        /\ << a, b, c >>[1] = a /\ << a, b, c >>[2] = b
    BY ShortNames, Zenon
  <2> QED BY <1>3, <1>4, <2>3, <2>4, <2>5, Zenon DEF IsSuffix
<1> QED BY <1>5, <1>6

(* A number behind a plain name makes no keyword and no reserved name.     *)
LEMMA NumberedPlain ==
  ASSUME NEW s \in Seq(Chars), Plain(s), NEW x, IsSuffix(x)
  PROVE  ~needsPrefix(s \o x)
<1>0. x \in Seq(Chars) /\ Len(x) \in 2 .. 3
  BY Zenon DEF IsSuffix
<1>1. PICK c : c = s \o x
  OBVIOUS
<1>2. \A d \in DigitSet : d \notin Uppercase /\ d # "_"
  BY AlphabetAssumption, Zenon DEF DigitSet
<1>3. /\ c \in Seq(Chars) /\ Len(c) = Len(s) + Len(x)
      /\ \A i \in 1 .. Len(s) : c[i] = s[i]
      /\ \A i \in 1 .. Len(x) : c[Len(s) + i] = x[i]
  BY <1>0, <1>1, ConcatChars
<1>4. Len(s) \in Nat
  OBVIOUS
<1>5. 1 \in 1 .. Len(x) /\ 2 \in 1 .. Len(x)
  <2>1. \A m \in 2 .. 3 : 1 \in 1 .. m /\ 2 \in 1 .. m
    OBVIOUS
  <2> QED BY <1>0, <2>1, Zenon
<1>6. c[Len(s) + 1] = x[1] /\ c[Len(s) + 2] = x[2]
  BY <1>3, <1>5, Zenon
<1>7. x[1] = "_" /\ x[2] \in DigitSet
  BY Zenon DEF IsSuffix
<1>8. Len(s) + 1 \in 1 .. Len(s) + Len(x)
  BY <1>0, <1>4
<1>9. c \notin Keywords
  BY <1>3, <1>6, <1>7, <1>8, UnderscoreNoKeyword, Zenon
<1>10. c[1] \notin DigitSet /\ ~isCReservedName(c)
  <2>1. CASE Len(s) = 0
    <3>1. 0 + 1 = 1 /\ 0 + 2 = 2
      OBVIOUS
    <3>2. c[1] = "_" /\ c[2] \in DigitSet
      BY <1>6, <1>7, <2>1, <3>1, Zenon
    <3> QED BY <1>2, <3>2, Zenon DEF isCReservedName
  <2>2. CASE Len(s) = 1
    <3>1. 1 \in 1 .. Len(s) /\ Len(s) > 0
      BY <2>2
    <3>2. c[1] = s[1] /\ s[1] # "_" /\ s[1] \notin DigitSet
      BY <1>3, <2>2, <3>1, Zenon DEF Plain, isDiscard
    <3> QED BY <3>2, Zenon DEF isCReservedName
  <2>3. CASE Len(s) >= 2
    <3>1. 1 \in 1 .. Len(s) /\ 2 \in 1 .. Len(s) /\ Len(s) > 0 /\ Len(s) > 1
      BY <1>4, <2>3
    <3>2. c[1] = s[1] /\ c[2] = s[2]
      BY <1>3, <3>1, Zenon
    <3> QED BY <3>1, <3>2, Zenon DEF Plain, isCReservedName
  <2>4. \A m \in Nat : m = 0 \/ m = 1 \/ m >= 2
    OBVIOUS
  <2> QED BY <1>4, <2>1, <2>2, <2>3, <2>4, Zenon
<1> QED BY <1>1, <1>3, <1>9, <1>10, NeedsPrefixWhen, Zenon
(* What the search tries is short enough and acceptable.                   *)
LEMMA CandidateLegal ==
  ASSUME NEW s \in Seq(Chars), Plain(s), s \notin Keywords, NEW n \in 0 .. 99
  PROVE  /\ Len(candidate(cut(s, MaxLen), n)) <= MaxLen
         /\ ~needsPrefix(candidate(cut(s, MaxLen), n))
<1>1. MaxLen \in Nat /\ MaxLen >= 5
  BY NamesAssumption, AlphabetAssumption, Zenon
<1>2. PICK t : t = cut(s, MaxLen)
  OBVIOUS
<1>3. /\ t \in Seq(Chars) /\ Plain(t) /\ Len(t) <= MaxLen
      /\ t = s \/ Len(t) = MaxLen
  BY <1>1, <1>2, CutPlain
<1>4. t \notin Keywords
  <2>1. t \in Keywords => Len(t) \in 1 .. MaxLen - 1
    BY AlphabetAssumption, Zenon
  <2>2. Len(t) = MaxLen => Len(t) \notin 1 .. MaxLen - 1
    BY <1>1
  <2> QED BY <1>3, <2>1, <2>2, Zenon
<1>5. CASE n = 0
  <2>1. candidate(t, n) = t
    BY <1>5 DEF candidate
  <2>2. ~needsPrefix(t)
    BY <1>3, <1>4, NeedsPrefixWhen DEF Plain
  <2> QED BY <1>2, <1>3, <2>1, <2>2, Zenon
<1>6. CASE n # 0
  <2>1. n \in 1 .. 99
    BY <1>6
  <2>2. PICK x : x = suffix(n)
    OBVIOUS
  <2>3. IsSuffix(x)
    BY <2>1, <2>2, SuffixType
  <2>4. x \in Seq(Chars) /\ Len(x) \in 2 .. 3
    BY <2>3, Zenon DEF IsSuffix
  <2>5. PICK k \in Nat : k = MaxLen - Len(x) /\ k >= 2 /\ k + Len(x) = MaxLen
    <3>1. \A l \in 2 .. 3 : MaxLen - l \in Nat /\ MaxLen - l >= 2 /\ (MaxLen - l) + l = MaxLen
      BY <1>1
    <3> QED BY <2>4, <3>1, Zenon
  <2>6. PICK u : u = cut(t, k)
    OBVIOUS
  <2>7. u \in Seq(Chars) /\ Plain(u) /\ Len(u) <= k
    BY <1>3, <2>5, <2>6, CutPlain
  <2>8. candidate(t, n) = u \o x
    BY <1>6, <2>2, <2>5, <2>6, Zenon DEF candidate
  <2>9. Len(u \o x) = Len(u) + Len(x)
    BY <2>4, <2>7, ConcatChars
  <2>10. Len(u) + Len(x) <= MaxLen
    <3>1. Len(u) \in Nat
      BY <2>7
    <3>2. \A l \in 2 .. 3 : k + l = MaxLen => Len(u) + l <= MaxLen
      BY <1>1, <2>7, <3>1
    <3> QED BY <2>4, <2>5, <3>2, Zenon
  <2>11. ~needsPrefix(u \o x)
    BY <2>3, <2>7, NumberedPlain
  <2> QED BY <1>2, <2>8, <2>9, <2>10, <2>11, Zenon
<1> QED BY <1>5, <1>6, Zenon

(* makeUnique answers with a legal name or the compiler's own. *)
LEMMA LegalOrInternal ==
  ASSUME NEW s \in Seq(STRING), ~isDiscard(legalized(s)), NEW c, makeUnique(s, c)
  PROVE  Len(c) <= MaxLen /\ (isInternalCompilerIdentifier(c) \/ ~needsPrefix(c))
<1>1. legalized(s) \in Seq(Chars)
  BY LegalizedType
<1>2. CASE isInternalCompilerIdentifier(legalized(s))
  <2>1. c = cut(legalized(s), MaxLen)
    BY <1>2, Zenon DEF makeUnique
  <2>2. isInternalCompilerIdentifier(c)
    BY <1>1, <1>2, <2>1, CutKeepsPrefix, Zenon
  <2>3. PICK l \in Seq(Chars) : l = legalized(s)
    BY <1>1, Zenon
  <2>4. Len(cut(l, MaxLen)) <= MaxLen
    BY NamesAssumption DEF cut
  <2> QED BY <2>1, <2>2, <2>3, <2>4, Zenon
<1>3. CASE ~isInternalCompilerIdentifier(legalized(s))
  <2>1. PICK p : p = prefixed(legalized(s))
    OBVIOUS
  <2>2. p \in Seq(Chars) /\ Plain(p) /\ p \notin Keywords
    BY <1>1, <2>1, PrefixedType, PrefixedPlain, Zenon
  <2>3. PICK n \in 0 .. MaxSuffix : c = candidate(cut(p, MaxLen), n)
    BY <1>3, <2>1, Zenon DEF makeUnique, firstFree
  <2>4. n \in 0 .. 99
    BY NamesAssumption
  <2> QED BY <2>2, <2>3, <2>4, CandidateLegal, Zenon
<1> QED BY <1>2, <1>3, Zenon

-----------------------------------------------------------------------------
LegalInv == IsSequence /\ LocalsLegal

(* Recording a legal name keeps all names legal. *)
LEMMA GiveKeepsLegal ==
  ASSUME LegalInv, NEW who, NEW c, Give(who, c),
         Len(c) <= MaxLen /\ (isInternalCompilerIdentifier(c) \/ ~needsPrefix(c))
  PROVE  LegalInv'
<1> DEFINE e == [who |-> who, c |-> c]
           OK(n) == Len(n) <= MaxLen /\ (isInternalCompilerIdentifier(n) \/ ~needsPrefix(n))
<1>1. PICK T : assigned_names \in Seq(T)
  BY DEF LegalInv, IsSequence
<1>2. assigned_names \in Seq(T \union {e}) /\ e \in T \union {e}
  BY <1>1
<1> DEFINE U == T \union {e}
<1>3. e.c = c /\ OK(c)
  OBVIOUS
<1>4. \A i \in DOMAIN assigned_names : OK(assigned_names[i].c)
  BY DEF LegalInv, LocalsLegal
<1>5. assigned_names' = Append(assigned_names, e)
  BY DEF Give
<1> HIDE DEF e, U, OK
<1>6. /\ assigned_names' \in Seq(U)
      /\ DOMAIN assigned_names' = 1 .. Len(assigned_names) + 1
      /\ \A i \in 1 .. Len(assigned_names) : assigned_names'[i] = assigned_names[i]
      /\ assigned_names'[Len(assigned_names) + 1] = e
      /\ Len(assigned_names) \in Nat /\ DOMAIN assigned_names = 1 .. Len(assigned_names)
  BY <1>2, <1>5 DEF U
<1>7. \A i \in DOMAIN assigned_names' :
        i \in DOMAIN assigned_names \/ i = Len(assigned_names) + 1
  BY <1>6
<1>8. \A i \in DOMAIN assigned_names' : OK(assigned_names'[i].c)
  BY <1>3, <1>4, <1>6, <1>7, Zenon
<1>9. LocalsLegal'
  BY <1>8 DEF LocalsLegal, OK
<1> QED BY <1>6, <1>9 DEF LegalInv, IsSequence

(* Every step keeps the names of a function legal. *)
LEMMA LegalInductive == NoDiscards /\ LegalInv /\ [Next]_vars => LegalInv'
<1> SUFFICES ASSUME NoDiscards, LegalInv, [Next]_vars PROVE LegalInv'
  OBVIOUS
<1>1. CASE UNCHANGED assigned_names
  BY <1>1 DEF LegalInv, IsSequence, LocalsLegal
<1>2. CASE BeginFunction \/ NextFile
  <2>1. assigned_names' = << >>
    BY <1>2 DEF BeginFunction, NextFile
  <2>2. assigned_names' \in Seq(STRING) /\ DOMAIN assigned_names' = {}
    BY <2>1
  <2> QED BY <2>2 DEF LegalInv, IsSequence, LocalsLegal
<1>3. CASE \E s \in Locals : Allocate(s)
  <2>1. PICK s \in Locals : \E c : makeUnique(s.name, c) /\ Give(s.id, c)
    BY <1>3 DEF Allocate
  <2>2. PICK c : makeUnique(s.name, c) /\ Give(s.id, c)
    BY <2>1
  <2>3. s.name \in Seq(STRING) /\ ~isDiscard(legalized(s.name))
    BY NamesAssumption DEF NoDiscards
  <2> QED BY <2>2, <2>3, LegalOrInternal, GiveKeepsLegal
<1>4. CASE \E b \in Bases : Generate(b)
  <2>1. PICK b \in Bases : \E c : makeUnique(b, c) /\ Give(0, c)
    BY <1>4 DEF Generate
  <2>2. PICK c : makeUnique(b, c) /\ Give(0, c)
    BY <2>1
  <2>3. b \in Seq(STRING) /\ ~isDiscard(legalized(b))
    BY NamesAssumption DEF NoDiscards
  <2> QED BY <2>2, <2>3, LegalOrInternal, GiveKeepsLegal
<1>5. CASE PrecomputeMangledNames \/ \E g \in Globals : MentionGlobal(g) \/ MentionMember(g)
  BY <1>1, <1>5 DEF PrecomputeMangledNames, MentionGlobal, MentionMember
<1>6. CASE UNCHANGED vars
  BY <1>1, <1>6 DEF vars
<1> QED BY <1>2, <1>3, <1>4, <1>5, <1>6 DEF Next

(* CVariableAllocator::makeUnique: unless a lone underscore is among them, *)
(* the names a function's variables and temporaries are given are no       *)
(* keywords, not reserved and short enough, also after they were prefixed, *)
(* cut and numbered.                                                       *)
THEOREM NamesLegal == NoDiscards => (Spec => []LocalsLegal)
<1> SUFFICES ASSUME NoDiscards PROVE Spec => []LocalsLegal
  OBVIOUS
<1>1. Init => LegalInv
  <2> SUFFICES ASSUME Init PROVE LegalInv
    OBVIOUS
  <2>1. assigned_names \in Seq(STRING) /\ DOMAIN assigned_names = {}
    BY DEF Init
  <2> QED BY <2>1 DEF LegalInv, IsSequence, LocalsLegal
<1>2. LegalInv /\ [Next]_vars => LegalInv'
  BY LegalInductive
<1>3. LegalInv => LocalsLegal
  BY DEF LegalInv
<1> QED BY <1>1, <1>2, <1>3, PTL DEF Spec
-----------------------------------------------------------------------------
(* The names of globals.  The C name of g in every file: *)
CName(g) ==
  IF isInternalCompilerIdentifier(g.name) THEN cut(g.name, MaxLen)
  ELSE IF g.kind \in Mangled THEN precomputed(g) ELSE mangle("V", g)

(* What the mangler keeps of a name. *)
Kept(g) == IF Len(g.name) > Room(g)
           THEN SubSeq(g.name, Len(g.name) - Room(g) + 1, Len(g.name)) ELSE g.name

(* The end of a long name fills the room, and a short name is kept whole. *)
LEMMA KeptType ==
  ASSUME GlobalsWellNamed, NEW g \in Globals
  PROVE  /\ Kept(g) \in Seq(Legal) /\ Len(Kept(g)) \in Nat
         /\ Len(g.name) \in Nat /\ Room(g) \in Nat
         /\ Room(g) = MaxLen - 4 - Len(Hash[g.module]) /\ Len(Hash[g.module]) \in Nat
         /\ Len(g.name) <= Room(g) => Kept(g) = g.name
         /\ Len(g.name) > Room(g) => Len(Kept(g)) = Room(g)
<1>1. PICK s \in Seq(Legal), h \in Seq(Legal) : s = g.name /\ h = Hash[g.module]
  BY GlobalsAssumption
<1>2. Len(s) \in Nat /\ Len(h) \in Nat /\ MaxLen \in Nat /\ Len(h) + 4 <= MaxLen
  BY <1>1, NamesAssumption DEF GlobalsWellNamed
<1>3. PICK r \in Nat : r = Room(g) /\ r = MaxLen - 4 - Len(h)
  <2>1. \A m, n \in Nat : n + 4 <= m => m - 4 - n \in Nat
    OBVIOUS
  <2> QED BY <1>1, <1>2, <2>1, Zenon DEF Room
<1>k. /\ Len(g.name) \in Nat /\ Room(g) \in Nat
      /\ Room(g) = MaxLen - 4 - Len(Hash[g.module]) /\ Len(Hash[g.module]) \in Nat
  BY <1>1, <1>2, <1>3
<1>4. CASE Len(s) > r
  <2>1. PICK t : t = SubSeq(s, Len(s) - r + 1, Len(s))
    OBVIOUS
  <2>2. Kept(g) = t
    BY <1>1, <1>3, <1>4, <2>1 DEF Kept
  <2>3. t \in Seq(Legal) /\ Len(t) = r
    BY <1>2, <1>3, <1>4, <2>1
  <2>4. Len(g.name) > Room(g) /\ Len(Kept(g)) = Room(g) /\ Kept(g) \in Seq(Legal)
    BY <1>1, <1>3, <1>4, <2>2, <2>3
  <2>5. ~(Len(g.name) <= Room(g))
    BY <1>k, <2>4
  <2> HIDE DEF Kept, Room
  <2> QED BY <1>k, <2>4, <2>5
<1>5. CASE ~(Len(s) > r)
  <2>1. Kept(g) = s
    BY <1>1, <1>3, <1>5 DEF Kept
  <2>2. ~(Len(g.name) > Room(g)) /\ Kept(g) = g.name /\ g.name \in Seq(Legal)
    BY <1>1, <1>3, <1>5, <2>1
  <2> QED BY <1>k, <2>2
<1> QED BY <1>4, <1>5

(* Legal characters are left alone. *)
LEMMA LegalizedSame ==
  ASSUME NEW t \in Seq(Legal)
  PROVE  legalized(t) = t
<1>1. t \in [1 .. Len(t) -> Legal] /\ DOMAIN t = 1 .. Len(t)
  OBVIOUS
<1>2. t = [i \in DOMAIN t |-> t[i]]
  BY <1>1
<1>3. \A i \in DOMAIN t : t[i] \in Legal
  BY <1>1
<1>4. [i \in DOMAIN t |-> IF t[i] \in Legal THEN t[i] ELSE "_"] = [i \in DOMAIN t |-> t[i]]
  BY <1>3, Zenon
<1> QED BY <1>2, <1>4, Zenon DEF legalized

(* A name of four characters has a third. *)
LEMMA ThirdPosition ==
  ASSUME NEW t \in Seq(Legal), Len(t) >= 4
  PROVE  3 \in 1 .. Len(t)
OBVIOUS

(* A name that starts like a mangled one is sanitized already. *)
LEMMA SanitizedSame ==
  ASSUME NEW t \in Seq(Legal), Len(t) >= 4, t[1] = "z", t[3] = "_"
  PROVE  sanitizeForC89(t) = t
<1>1. legalized(t) = t
  BY LegalizedSame
<1>2. 3 \in 1 .. Len(t)
  BY ThirdPosition, Zenon
<1>3. t \notin Keywords
  BY <1>2, AlphabetAssumption
<1>4. t[1] \notin {Digits[i] : i \in DOMAIN Digits}
  BY AlphabetAssumption
<1>5. ~isCReservedName(t)
  BY DEF isCReservedName
<1>6. ~needsPrefix(t)
  BY <1>3, <1>4, <1>5 DEF needsPrefix
<1> QED BY <1>1, <1>6, Zenon DEF sanitizeForC89, prefixed

(* The parts of a concatenation. *)
LEMMA ConcatParts ==
  ASSUME NEW s \in Seq(Legal), NEW t \in Seq(Legal)
  PROVE  /\ s \o t \in Seq(Legal) /\ Len(s \o t) = Len(s) + Len(t)
         /\ Len(s) \in Nat /\ Len(t) \in Nat
         /\ \A i \in 1 .. Len(s) : (s \o t)[i] = s[i]
         /\ \A i \in 1 .. Len(t) : (s \o t)[Len(s) + i] = t[i]
OBVIOUS

(* What can be told of a name that starts with p, three characters, and    *)
(* goes on with h, one more character, and k.                              *)
MadeOf(t, p, h, k) ==
  /\ t \in Seq(Legal) /\ Len(t) = 4 + Len(h) + Len(k) /\ Len(t) >= 4
  /\ t[1] = p[1] /\ t[3] = p[3]
  /\ \A i \in 1 .. Len(h) : t[3 + i] = h[i]
  /\ \A i \in 1 .. Len(k) : t[4 + Len(h) + i] = k[i]

(* The characters of a concatenation of four parts. *)
LEMMA FourParts ==
  ASSUME NEW p \in Seq(Legal), Len(p) = 3, NEW q \in Seq(Legal), Len(q) = 1,
         NEW h \in Seq(Legal), NEW k \in Seq(Legal)
  PROVE  MadeOf(p \o h \o q \o k, p, h, k)
<1>t. PICK t : t = p \o h \o q \o k
  OBVIOUS
<1> SUFFICES MadeOf(t, p, h, k)
  BY <1>t, Zenon
<1> DEFINE u == p \o h
           v == u \o q
<1>0. t = v \o k
  BY <1>t
<1>3. /\ u \in Seq(Legal) /\ Len(u) = Len(p) + Len(h) /\ Len(h) \in Nat
      /\ \A i \in 1 .. Len(p) : u[i] = p[i]
      /\ \A i \in 1 .. Len(h) : u[Len(p) + i] = h[i]
  BY ConcatParts
<1> HIDE DEF u
<1>4. /\ v \in Seq(Legal) /\ Len(v) = Len(u) + Len(q)
      /\ \A i \in 1 .. Len(u) : v[i] = u[i]
  BY <1>3, ConcatParts
<1> HIDE DEF v
<1>5. /\ t \in Seq(Legal) /\ Len(t) = Len(v) + Len(k) /\ Len(k) \in Nat
      /\ \A i \in 1 .. Len(v) : t[i] = v[i]
      /\ \A i \in 1 .. Len(k) : t[Len(v) + i] = k[i]
  <2>1. /\ v \o k \in Seq(Legal) /\ Len(v \o k) = Len(v) + Len(k) /\ Len(k) \in Nat
        /\ \A i \in 1 .. Len(v) : (v \o k)[i] = v[i]
        /\ \A i \in 1 .. Len(k) : (v \o k)[Len(v) + i] = k[i]
    BY <1>4, ConcatParts
  <2> QED BY <1>0, <2>1, Zenon
<1>6. PICK n \in Nat : n = Len(h)
  BY <1>3
<1>7. Len(u) = 3 + n /\ Len(v) = 4 + n
  BY <1>3, <1>4, <1>6
<1>8. \A i \in 1 .. 3 + n : t[i] = u[i]
  <2>1. \A i \in 1 .. 3 + n : i \in 1 .. 4 + n
    BY <1>6
  <2> QED BY <1>4, <1>5, <1>7, <2>1
<1>9. 1 \in 1 .. 3 + n /\ 3 \in 1 .. 3 + n /\ 1 \in 1 .. 3 /\ 3 \in 1 .. 3
  BY <1>6
<1>10. t[1] = p[1] /\ t[3] = p[3]
  BY <1>3, <1>8, <1>9
<1>11. \A i \in 1 .. n : t[3 + i] = h[i]
  <2>1. \A i \in 1 .. n : 3 + i \in 1 .. 3 + n
    BY <1>6
  <2> QED BY <1>3, <1>6, <1>8, <2>1
<1>12. Len(t) = 4 + n + Len(k) /\ \A i \in 1 .. Len(k) : t[4 + n + i] = k[i]
  BY <1>5, <1>7
<1>13. Len(t) >= 4
  BY <1>5, <1>12
<1> QED BY <1>5, <1>6, <1>10, <1>11, <1>12, <1>13 DEF MadeOf

(* A tuple of legal characters. *)
LEMMA LegalTuples ==
  ASSUME NEW a \in Legal, NEW b \in Legal, NEW c \in Legal
  PROVE  /\ << a, b, c >> \in Seq(Legal) /\ Len(<< a, b, c >>) = 3
         /\ << a, b, c >>[1] = a /\ << a, b, c >>[3] = c
         /\ << c >> \in Seq(Legal) /\ Len(<< c >>) = 1
<1>1. << a, b, c >> \in Seq(Legal) /\ Len(<< a, b, c >>) = 3
  OBVIOUS
<1>2. << a, b, c >>[1] = a /\ << a, b, c >>[3] = c
  OBVIOUS
<1>3. << c >> \in Seq(Legal) /\ Len(<< c >>) = 1
  OBVIOUS
<1> QED BY <1>1, <1>2, <1>3

(* The parts of a mangled name, from which they can be read again. *)
LEMMA MangledParts ==
  ASSUME GlobalsWellNamed, NEW g \in Globals, NEW kind \in Mangled,
         ~isInternalCompilerIdentifier(g.name)
  PROVE  /\ Len(mangle(kind, g)) = 4 + Len(Hash[g.module]) + Len(Kept(g))
         /\ \A i \in 1 .. Len(Hash[g.module]) : mangle(kind, g)[3 + i] = Hash[g.module][i]
         /\ \A i \in 1 .. Len(Kept(g)) :
              mangle(kind, g)[4 + Len(Hash[g.module]) + i] = Kept(g)[i]
<1>1. kind \in Legal /\ "z" \in Legal /\ "_" \in Legal
  BY GlobalsAssumption, Zenon DEF Mangled
<1>2. PICK h \in Seq(Legal), k \in Seq(Legal) : h = Hash[g.module] /\ k = Kept(g)
  BY GlobalsAssumption, KeptType
<1>3. PICK p \in Seq(Legal), q \in Seq(Legal) :
         /\ p = << "z", kind, "_" >> /\ Len(p) = 3 /\ p[1] = "z" /\ p[3] = "_"
         /\ q = << "_" >> /\ Len(q) = 1
  <2>1. /\ << "z", kind, "_" >> \in Seq(Legal) /\ Len(<< "z", kind, "_" >>) = 3
        /\ << "z", kind, "_" >>[1] = "z" /\ << "z", kind, "_" >>[3] = "_"
        /\ << "_" >> \in Seq(Legal) /\ Len(<< "_" >>) = 1
    BY <1>1, LegalTuples, Zenon
  <2> QED BY <2>1, Zenon
<1>t. PICK t : t = p \o h \o q \o k
  OBVIOUS
<1>4. MadeOf(t, p, h, k)
  <2>1. Len(p) = 3 /\ Len(q) = 1
    BY <1>3, Zenon
  <2>2. MadeOf(p \o h \o q \o k, p, h, k)
    BY <2>1, FourParts, Zenon
  <2> QED BY <1>t, <2>2, Zenon
<1>6. sanitizeForC89(t) = t
  BY <1>3, <1>4, SanitizedSame, Zenon DEF MadeOf
<1>7. mangle(kind, g) = sanitizeForC89(t)
  BY <1>2, <1>3, <1>t, Zenon DEF mangle, Kept
<1>8. mangle(kind, g) = t
  BY <1>6, <1>7, Zenon
<1> QED BY <1>2, <1>4, <1>8 DEF MadeOf
(* Sequences with the same characters are the same. *)
LEMMA SameCharacters ==
  ASSUME NEW s \in Seq(Legal), NEW t \in Seq(Legal), Len(s) = Len(t),
         \A i \in 1 .. Len(s) : s[i] = t[i]
  PROVE  s = t
OBVIOUS

(* Different globals with names that fit get different mangled names; one  *)
(* shorter than that never gets the name of a long one that was cut.       *)
LEMMA MangledDiffer ==
  ASSUME GlobalsWellNamed, NEW g \in Globals, NEW h \in Globals, g # h,
         ~isInternalCompilerIdentifier(g.name), ~isInternalCompilerIdentifier(h.name),
         NEW kind \in Mangled, NEW other \in Mangled,
         \/ Len(g.name) <= Room(g) /\ Len(h.name) <= Room(h)
         \/ Len(g.name) < Room(g)
  PROVE  mangle(kind, g) # mangle(other, h)
<1> SUFFICES ASSUME mangle(kind, g) = mangle(other, h) PROVE FALSE
  OBVIOUS
<1>1. PICK t : t = mangle(kind, g) /\ t = mangle(other, h)
  OBVIOUS
<1>2. PICK a \in Seq(Legal), b \in Seq(Legal), m \in Seq(Legal), n \in Seq(Legal) :
         a = Hash[g.module] /\ b = Hash[h.module] /\ m = Kept(g) /\ n = Kept(h)
  BY GlobalsAssumption, KeptType
<1>3. /\ Len(t) = 4 + Len(a) + Len(m)
      /\ \A i \in 1 .. Len(a) : t[3 + i] = a[i]
      /\ \A i \in 1 .. Len(m) : t[4 + Len(a) + i] = m[i]
  BY <1>1, <1>2, MangledParts
<1>4. /\ Len(t) = 4 + Len(b) + Len(n)
      /\ \A i \in 1 .. Len(b) : t[3 + i] = b[i]
      /\ \A i \in 1 .. Len(n) : t[4 + Len(b) + i] = n[i]
  BY <1>1, <1>2, MangledParts
<1>5. Len(a) = Len(b)
  BY <1>2 DEF GlobalsWellNamed
<1>6. Len(a) \in Nat /\ Len(m) \in Nat /\ Len(n) \in Nat
  OBVIOUS
<1>7. Len(m) = Len(n)
  BY <1>3, <1>4, <1>5, <1>6
<1>8. a = b
  <2>1. \A i \in 1 .. Len(a) : a[i] = b[i]
    BY <1>3, <1>4, <1>5
  <2> QED BY <1>5, <2>1, SameCharacters
<1>9. m = n
  <2>1. \A i \in 1 .. Len(m) : m[i] = n[i]
    BY <1>3, <1>4, <1>5, <1>7
  <2> QED BY <1>7, <2>1, SameCharacters
<1>10. g.module = h.module
  BY <1>2, <1>8 DEF GlobalsWellNamed
<1>11. /\ Room(g) = Room(h) /\ Room(g) \in Nat
       /\ Len(g.name) \in Nat /\ Len(h.name) \in Nat
       /\ Len(g.name) <= Room(g) => m = g.name
       /\ Len(h.name) <= Room(h) => n = h.name
       /\ Len(h.name) > Room(h) => Len(n) = Room(h)
  <2>1. Room(g) = Room(h)
    BY <1>10 DEF Room
  <2> QED BY <1>2, <2>1, KeptType
<1>12. Len(g.name) <= Room(g) /\ m = g.name
  BY <1>11
<1>13. n = h.name
  <2>1. CASE Len(h.name) <= Room(h)
    BY <1>11, <2>1
  <2>2. CASE Len(h.name) > Room(h)
    <3>1. Len(g.name) < Room(g)
      BY <1>11, <2>2
    <3>2. Len(g.name) = Room(g)
      BY <1>7, <1>11, <1>12, <2>2
    <3> QED BY <1>11, <3>1, <3>2
  <2> QED BY <1>11, <2>1, <2>2
<1>14. g.name = h.name
  BY <1>9, <1>12, <1>13
<1> QED BY <1>10, <1>14 DEF GlobalsWellNamed

-----------------------------------------------------------------------------
(* The inductive invariant: every file uses CName, and the names a file    *)
(* has cached are those of its module's globals.                           *)
Precomputed == [g \in {h \in Globals : h.kind \in Mangled} |-> precomputed(g)]

LinkInv ==
  /\ at # 0 => mangled = Precomputed
  /\ at = 0 => DOMAIN global_names = {} /\ used_names = {}
  /\ \A x \in mentions : \E g \in Globals : x = << g, CName(g) >>
  /\ Writing =>
       /\ \A n \in DOMAIN global_names : \E g \in Globals :
            g.module = file.module /\ g.name = n /\ global_names[n] = CName(g)
       /\ \A c \in used_names : \E g \in Globals :
            /\ g.module = file.module /\ g.name \in DOMAIN global_names
            /\ ~isInternalCompilerIdentifier(g.name) /\ c = CName(g)

(* A symbol that has no precomputed name gets its own: no symbol of its    *)
(* module has taken that.                                                  *)
LEMMA NotTaken ==
  ASSUME GlobalsWellNamed, NEW g \in Globals, NEW h \in Globals, g # h,
         g.kind \notin Mangled,
         ~isInternalCompilerIdentifier(g.name), ~isInternalCompilerIdentifier(h.name)
  PROVE  mangle("V", g) # CName(h)
<1>1. /\ ~g.extern /\ Len(g.name) < Room(g)
      /\ h.extern => h.name # mangle("V", g)
  BY DEF GlobalsWellNamed
<1>v. "V" \in Mangled
  BY DEF Mangled
<1>2. CASE h.kind \notin Mangled
  <2>1. CName(h) = mangle("V", h)
    BY <1>2 DEF CName
  <2> QED BY <1>1, <1>v, <2>1, MangledDiffer
<1>3. CASE h.kind \in Mangled /\ h.extern
  BY <1>1, <1>3 DEF CName, precomputed
<1>4. CASE h.kind \in Mangled /\ ~h.extern
  <2>1. CName(h) = mangle(h.kind, h)
    BY <1>4 DEF CName, precomputed
  <2> QED BY <1>1, <1>4, <1>v, <2>1, MangledDiffer
<1> QED BY <1>2, <1>3, <1>4

(* The name getC89GlobalName answers with does not depend on the file or   *)
(* on what the file has mentioned before.                                  *)
LEMMA SameEverywhere ==
  ASSUME GlobalsWellNamed, LinkInv, Writing, NEW g \in Globals,
         g.module = file.module, NEW c, getC89GlobalName(g, c)
  PROVE  c = CName(g)
<1>0. at # 0 /\ mangled = Precomputed
  BY GlobalsAssumption DEF Writing, LinkInv
<1>1. CASE isInternalCompilerIdentifier(g.name)
  BY <1>1 DEF getC89GlobalName, CName
<1>2. CASE ~isInternalCompilerIdentifier(g.name) /\ g.name \in DOMAIN global_names
  <2>1. c = global_names[g.name]
    BY <1>2 DEF getC89GlobalName
  <2>2. PICK h \in Globals : /\ h.module = file.module /\ h.name = g.name
                             /\ global_names[g.name] = CName(h)
    BY <1>2 DEF LinkInv
  <2>3. h = g
    BY <2>2 DEF GlobalsWellNamed
  <2> QED BY <2>1, <2>2, <2>3
<1>3. CASE /\ ~isInternalCompilerIdentifier(g.name) /\ g.name \notin DOMAIN global_names
           /\ g.kind \in Mangled
  <2>1. g \in DOMAIN mangled /\ mangled[g] = precomputed(g)
    BY <1>0, <1>3 DEF Precomputed
  <2> QED BY <1>3, <2>1 DEF getC89GlobalName, CName
<1>4. CASE /\ ~isInternalCompilerIdentifier(g.name) /\ g.name \notin DOMAIN global_names
           /\ g.kind \notin Mangled
  <2>1. g \notin DOMAIN mangled /\ ~g.extern
    BY <1>0, <1>4 DEF Precomputed, GlobalsWellNamed
  <2>2. firstFree(mangle("V", g), used_names, c)
    BY <1>4, <2>1 DEF getC89GlobalName
  <2>3. mangle("V", g) \notin used_names
    <3>1. ASSUME NEW h \in Globals, h.name \in DOMAIN global_names,
                 ~isInternalCompilerIdentifier(h.name)
          PROVE  mangle("V", g) # CName(h)
      <4>1. h # g
        BY <1>4, <3>1
      <4> QED BY <1>4, <3>1, <4>1, NotTaken
    <3> QED BY <3>1 DEF LinkInv
  <2>4. c = mangle("V", g)
    <3>1. PICK s : s = mangle("V", g)
      OBVIOUS
    <3>2. PICK n \in 0 .. MaxSuffix : /\ c = candidate(s, n)
                                      /\ \A k \in 0 .. n - 1 : candidate(s, k) \in used_names
      BY <2>2, <3>1 DEF firstFree
    <3>3. candidate(s, 0) = s /\ s \notin used_names
      BY <2>3, <3>1 DEF candidate
    <3>4. n = 0
      <4>1. n # 0 => 0 \in 0 .. n - 1
        BY NamesAssumption
      <4> QED BY <3>2, <3>3, <4>1
    <3> QED BY <3>1, <3>2, <3>3, <3>4
  <2> QED BY <1>4, <2>4 DEF CName
<1> QED BY <1>1, <1>2, <1>3, <1>4

(* A file mentions a global: it is recorded, and cached, under its name. *)
LEMMA MentionKeepsLinks ==
  ASSUME GlobalsWellNamed, LinkInv, NEW g \in Globals, MentionGlobal(g)
  PROVE  LinkInv'
<1>1. PICK c : /\ getC89GlobalName(g, c) /\ mentions' = mentions \union {<< g, c >>}
               /\ IF isInternalCompilerIdentifier(g.name)
                  THEN UNCHANGED << global_names, used_names >>
                  ELSE /\ global_names' = [n \in DOMAIN global_names \union {g.name} |->
                                             IF n = g.name THEN c ELSE global_names[n]]
                       /\ used_names' = used_names \union {c}
  BY DEF MentionGlobal
<1>2. /\ Writing /\ g.module = file.module /\ UNCHANGED << mangled, at >>
      /\ Writing' /\ file' = file
  BY DEF MentionGlobal, Writing, file
<1>3. c = CName(g)
  BY <1>1, <1>2, SameEverywhere
<1>4. at # 0
  BY <1>2, GlobalsAssumption DEF Writing
<1>5. \A x \in mentions' : \E h \in Globals : x = << h, CName(h) >>
  BY <1>1, <1>3 DEF LinkInv
<1>6. CASE isInternalCompilerIdentifier(g.name)
  BY <1>1, <1>2, <1>4, <1>5, <1>6 DEF LinkInv
<1>7. CASE ~isInternalCompilerIdentifier(g.name)
  <2>1. /\ DOMAIN global_names' = DOMAIN global_names \union {g.name}
        /\ global_names'[g.name] = CName(g)
        /\ \A n \in DOMAIN global_names : n # g.name => global_names'[n] = global_names[n]
        /\ used_names' = used_names \union {CName(g)}
    BY <1>1, <1>3, <1>7
  <2>2. \A n \in DOMAIN global_names' : \E h \in Globals :
            h.module = file.module /\ h.name = n /\ global_names'[n] = CName(h)
    BY <1>2, <2>1 DEF LinkInv
  <2>3. \A d \in used_names' : \E h \in Globals :
            /\ h.module = file.module /\ h.name \in DOMAIN global_names'
            /\ ~isInternalCompilerIdentifier(h.name) /\ d = CName(h)
    BY <1>2, <1>7, <2>1 DEF LinkInv
  <2> QED BY <1>2, <1>4, <1>5, <2>2, <2>3 DEF LinkInv
<1> QED BY <1>6, <1>7

(* A use that takes the name from its symbol takes CName too. *)
LEMMA MemberKeepsLinks ==
  ASSUME GlobalsWellNamed, LinkInv, NEW g \in Globals, MentionMember(g)
  PROVE  LinkInv'
<1>1. /\ Writing /\ UNCHANGED << mangled, at, global_names, used_names >>
      /\ Writing' /\ file' = file
  BY DEF MentionMember, Writing, file
<1>2. at # 0 /\ mangled = Precomputed
  BY <1>1, GlobalsAssumption DEF Writing, LinkInv
<1> DEFINE c == IF g \in DOMAIN mangled THEN mangled[g] ELSE mangle("V", g)
<1>3. mentions' = mentions \union {<< g, c >>}
  BY DEF MentionMember
<1>4. c = CName(g)
  <2>1. CASE g.kind \in Mangled
    <3>1. c = precomputed(g)
      BY <1>2, <2>1 DEF Precomputed
    <3>2. CASE isInternalCompilerIdentifier(g.name)
      <4>1. Len(g.name) <= MaxLen
        BY <3>2 DEF GlobalsWellNamed
      <4>2. cut(g.name, MaxLen) = g.name
        <5>1. Len(g.name) \in Nat /\ MaxLen \in Nat
          BY KeptType, NamesAssumption
        <5> QED BY <4>1, <5>1 DEF cut
      <4>3. precomputed(g) = cut(g.name, MaxLen)
        BY <3>2, <4>2 DEF precomputed, mangle
      <4> QED BY <3>1, <3>2, <4>3 DEF CName
    <3>3. CASE ~isInternalCompilerIdentifier(g.name)
      BY <2>1, <3>1, <3>3 DEF CName
    <3> QED BY <3>2, <3>3
  <2>2. CASE g.kind \notin Mangled
    <3>1. c = mangle("V", g)
      BY <1>2, <2>2 DEF Precomputed
    <3> QED BY <2>2, <3>1 DEF CName, mangle
  <2> QED BY <2>1, <2>2
<1>5. \A x \in mentions' : \E h \in Globals : x = << h, CName(h) >>
  BY <1>3, <1>4 DEF LinkInv
<1> QED BY <1>1, <1>2, <1>5 DEF LinkInv

(* Every step keeps LinkInv. *)
LEMMA LinkInductive == GlobalsWellNamed /\ LinkInv /\ [Next]_vars => LinkInv'
<1> SUFFICES ASSUME GlobalsWellNamed, LinkInv, [Next]_vars PROVE LinkInv'
  OBVIOUS
<1>1. CASE PrecomputeMangledNames
  <2>1. /\ at = 0 /\ at' = 1 /\ mangled' = Precomputed
        /\ UNCHANGED << global_names, used_names, mentions >>
    BY <1>1 DEF PrecomputeMangledNames, Precomputed
  <2> QED BY <2>1 DEF LinkInv
<1>2. CASE NextFile
  <2>1. /\ Writing /\ DOMAIN global_names' = {} /\ used_names' = {}
        /\ UNCHANGED << mangled, mentions >>
    BY <1>2 DEF NextFile
  <2>2. at # 0
    BY <2>1, GlobalsAssumption DEF Writing
  <2> QED BY <2>1, <2>2 DEF LinkInv
<1>3. CASE \E g \in Globals : MentionGlobal(g)
  BY <1>3, MentionKeepsLinks
<1>5. CASE \E g \in Globals : MentionMember(g)
  BY <1>5, MemberKeepsLinks
<1>4. CASE UNCHANGED << mangled, at, global_names, used_names, mentions >>
  BY <1>4 DEF LinkInv, Writing, file
<1> QED BY <1>1, <1>2, <1>3, <1>4, <1>5
        DEF Next, vars, BeginFunction, Allocate, Generate

(* NameMangler and C89Emitter::getC89GlobalName: every file of the program *)
(* calls a global by the same C name, whatever it has mentioned before,    *)
(* and two globals that fit the limit never share one.                     *)
THEOREM NamesLink == GlobalsWellNamed => (Spec => []GlobalsLink)
<1> SUFFICES ASSUME GlobalsWellNamed PROVE Spec => []GlobalsLink
  OBVIOUS
<1>1. Init => LinkInv
  <2> SUFFICES ASSUME Init PROVE LinkInv
    OBVIOUS
  <2>1. at = 0 /\ DOMAIN global_names = {} /\ used_names = {} /\ mentions = {}
    BY DEF Init
  <2> QED BY <2>1 DEF LinkInv
<1>2. LinkInv => GlobalsLink
  <2> DEFINE short(g) == Len(g.name) <= Room(g) /\ ~g.extern
                         /\ ~isInternalCompilerIdentifier(g.name)
  <2>1. ASSUME NEW g \in Globals, NEW h \in Globals, g # h, short(g), short(h)
        PROVE  CName(g) # CName(h)
    <3>v. "V" \in Mangled
      BY DEF Mangled
    <3>1. PICK kind \in Mangled : CName(g) = mangle(kind, g)
      BY <2>1, <3>v DEF CName, precomputed
    <3>2. PICK other \in Mangled : CName(h) = mangle(other, h)
      BY <2>1, <3>v DEF CName, precomputed
    <3> QED BY <2>1, <3>1, <3>2, MangledDiffer
  <2> SUFFICES ASSUME LinkInv, NEW x \in mentions, NEW y \in mentions
               PROVE  IF x[1] = y[1] THEN x[2] = y[2]
                      ELSE short(x[1]) /\ short(y[1]) => x[2] # y[2]
    BY DEF GlobalsLink
  <2>2. PICK g \in Globals, h \in Globals : x = << g, CName(g) >> /\ y = << h, CName(h) >>
    BY DEF LinkInv
  <2>3. x[1] = g /\ x[2] = CName(g) /\ y[1] = h /\ y[2] = CName(h)
    BY <2>2
  <2> HIDE DEF short
  <2> QED BY <2>1, <2>3
<1>3. LinkInv /\ [Next]_vars => LinkInv'
  BY LinkInductive
<1> QED BY <1>1, <1>2, <1>3, PTL DEF Spec
=============================================================================
