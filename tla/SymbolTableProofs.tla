------------------------- MODULE SymbolTableProofs -------------------------
(***************************************************************************)
(* Proofs about the symbol table: TableInv holds at every step, and the    *)
(* tables implement the lexical scopes of NameScopes, for all constants.   *)
(*                                                                         *)
(* The lemmas speak of a table's entries, Has(buckets, e), rather than of  *)
(* its chains: what find answers depends on them alone, Push and Replace   *)
(* say how the two ways of storing an entry change them, and resize keeps  *)
(* them.  The inductive invariant IInv adds to TableInv that scopes nest,  *)
(* that the redeclaration check has cleared the name under insertion, and  *)
(* what the loop of resize has moved so far.                               *)
(***************************************************************************)
EXTENDS SymbolTable, FiniteSetTheorems, SequenceTheorems, TLAPS

Chains == Seq(Symbol)
BucketArrays(c) == [0..c - 1 -> Chains]

(* The scopes: records whose buckets are numbered from 0.                  *)
Tables == {s \in [bucket_count : Nat \ {0}, symbol_count : Nat,
                  buckets : UNION {BucketArrays(c) : c \in Nat}] :
             DOMAIN s.buckets = 0..s.bucket_count - 1}

(* e is in one of the chains.                                              *)
Has(bs, e) == \E b \in DOMAIN bs : \E k \in 1..Len(bs[b]) : bs[b][k] = e

(* The fields of a table. *)
LEMMA TableParts ==
    ASSUME NEW s \in Tables
    PROVE  /\ s.bucket_count \in Nat \ {0}
           /\ s.symbol_count \in Nat
           /\ s.buckets \in BucketArrays(s.bucket_count)
  BY DEF Tables, BucketArrays

(* A table from its fields. *)
LEMMA TableMade ==
    ASSUME NEW c \in Nat \ {0}, NEW k \in Nat, NEW bs \in BucketArrays(c)
    PROVE  [bucket_count |-> c, symbol_count |-> k, buckets |-> bs] \in Tables
  BY DEF Tables, BucketArrays

(* The fields of a table with its new buckets. *)
LEMMA TableResized ==
    ASSUME NEW s \in Tables, new_buckets \in BucketArrays(2 * s.bucket_count)
    PROVE  /\ Resized(s) \in Tables /\ Resized(s).bucket_count = 2 * s.bucket_count
           /\ Resized(s).symbol_count = s.symbol_count /\ Resized(s).buckets = new_buckets
<1>1. 2 * s.bucket_count \in Nat \ {0}
  BY TableParts
<1> DEFINE c == 2 * s.bucket_count
<1>2. Resized(s) = [s EXCEPT !.buckets = new_buckets, !.bucket_count = c]
  BY DEF Resized
<1> HIDE DEF c
<1>3. c \in Nat \ {0} /\ new_buckets \in BucketArrays(c)
  BY <1>1 DEF c
<1>4. [s EXCEPT !.buckets = new_buckets, !.bucket_count = c] \in Tables
  BY <1>3 DEF Tables, BucketArrays
<1>5. Resized(s).buckets = new_buckets /\ Resized(s).bucket_count = c
      /\ Resized(s).symbol_count = s.symbol_count
  BY <1>2 DEF Tables
<1> QED BY <1>2, <1>4, <1>5 DEF c

Updated(s, bs, k) == [s EXCEPT !.buckets = bs, !.symbol_count = k]
(* The fields of a table after an insertion. *)
LEMMA TableUpdated ==
    ASSUME NEW s \in Tables, NEW bs \in BucketArrays(s.bucket_count), NEW k \in Nat
    PROVE  /\ Updated(s, bs, k) \in Tables /\ Updated(s, bs, k).bucket_count = s.bucket_count
           /\ Updated(s, bs, k).symbol_count = k /\ Updated(s, bs, k).buckets = bs
  BY DEF Tables, BucketArrays, Updated

(* A name's bucket is one of the table's. *)
LEMMA IndexInRange ==
    ASSUME NEW n \in Names, NEW c \in Nat \ {0}
    PROVE  IndexOf(n, c) \in 0..c - 1
<1>1. HashOf[n] \in Nat
  BY SymbolTableConstants
<1> QED BY <1>1 DEF IndexOf

(* Chains hold symbols. *)
LEMMA EntryType ==
    ASSUME NEW c \in Nat \ {0}, NEW bs \in BucketArrays(c)
    PROVE  /\ DOMAIN bs = 0..c - 1
           /\ \A b \in 0..c - 1 : /\ bs[b] \in Chains /\ Len(bs[b]) \in Nat
                                  /\ \A k \in 1..Len(bs[b]) : bs[b][k] \in Symbol
           /\ \A e : Has(bs, e) => e \in Symbol
<1>1. DOMAIN bs = 0..c - 1 /\ \A b \in 0..c - 1 : bs[b] \in Chains
  BY DEF BucketArrays
<1>2. \A b \in 0..c - 1 : Len(bs[b]) \in Nat /\ \A k \in 1..Len(bs[b]) : bs[b][k] \in Symbol
  BY <1>1 DEF Chains
<1> QED BY <1>1, <1>2 DEF Has

-----------------------------------------------------------------------------
(* Scope::find, in a table whose chains are hashed and hold a name once,   *)
(* answers the entry there is.                                             *)
LEMMA FindsEntry ==
    ASSUME NEW s \in Tables, Hashed(s.buckets, s.bucket_count),
           NEW e, Has(s.buckets, e), NEW module, Matches(e, module)
    PROVE  find(s, e.name, module) = e.id
<1>1. s.bucket_count \in Nat \ {0} /\ s.buckets \in BucketArrays(s.bucket_count)
  BY TableParts
<1>2. PICK b \in 0..s.bucket_count - 1 : \E k \in 1..Len(s.buckets[b]) : s.buckets[b][k] = e
  BY <1>1, EntryType DEF Has
<1>3. PICK k \in 1..Len(s.buckets[b]) : s.buckets[b][k] = e
  BY <1>2
<1>4. Chain(s, e.name) = s.buckets[b]
  BY <1>3 DEF Hashed, Chain
<1>5. Hits(s.buckets[b], e.name, module) = {k}
  BY <1>3 DEF Hits, Hashed
<1>6. Len(s.buckets[b]) \in Nat
  BY <1>1, EntryType
<1>7. FirstOf({k}) = k
  BY <1>6 DEF FirstOf
<1> QED BY <1>3, <1>4, <1>5, <1>7 DEF find

(* and 0 when there is none.                                               *)
LEMMA FindsNone ==
    ASSUME NEW s \in Tables, NEW n \in Names, NEW module,
           \A e \in Symbol : Has(s.buckets, e) => ~(e.name = n /\ Matches(e, module))
    PROVE  find(s, n, module) = 0
<1>1. s.bucket_count \in Nat \ {0} /\ s.buckets \in BucketArrays(s.bucket_count)
  BY TableParts
<1>2. IndexOf(n, s.bucket_count) \in 0..s.bucket_count - 1
  BY <1>1, IndexInRange
<1>3. ASSUME NEW k \in 1..Len(Chain(s, n))
      PROVE  Has(s.buckets, Chain(s, n)[k]) /\ Chain(s, n)[k] \in Symbol
  BY <1>1, <1>2, EntryType DEF Has, Chain
<1>4. Hits(Chain(s, n), n, module) = {}
  BY <1>3 DEF Hits
<1> QED BY <1>4 DEF find

(* Ids count from 1: something is found exactly when there is an entry.    *)
LEMMA FoundIffEntry ==
    ASSUME NEW s \in Tables, Hashed(s.buckets, s.bucket_count), NEW n \in Names, NEW module
    PROVE  find(s, n, module) # 0
             <=> \E e \in Symbol : Has(s.buckets, e) /\ e.name = n /\ Matches(e, module)
<1>1. ASSUME NEW e \in Symbol, Has(s.buckets, e), e.name = n, Matches(e, module)
      PROVE  find(s, n, module) # 0
  <2>1. e.id # 0
    BY SymbolTableConstants DEF Symbol
  <2> QED BY <1>1, <2>1, FindsEntry
<1> QED BY <1>1, FindsNone

(* In a table of this module the filter by module never hides a symbol:    *)
(* NULL and the current module find the same.                              *)
LEMMA FiltersAgree ==
    ASSUME NEW s \in Tables, Hashed(s.buckets, s.bucket_count), NEW n \in Names
    PROVE  find(s, n, current_module_) = find(s, n, Null)
<1>1. \A e \in Symbol : Matches(e, current_module_) /\ Matches(e, Null)
  BY DEF Symbol, Matches
<1>2. CASE \E e \in Symbol : Has(s.buckets, e) /\ e.name = n
  BY <1>1, <1>2, FindsEntry
<1>3. CASE ~\E e \in Symbol : Has(s.buckets, e) /\ e.name = n
  BY <1>3, FindsNone
<1> QED BY <1>2, <1>3

(* Tables with the same entries are the same map.                          *)
LEMMA SameEntriesSameMap ==
    ASSUME NEW s \in Tables, Hashed(s.buckets, s.bucket_count),
           NEW t \in Tables, Hashed(t.buckets, t.bucket_count),
           \A e \in Symbol : Has(s.buckets, e) <=> Has(t.buckets, e)
    PROVE  MapOf(s) = MapOf(t)
<1>1. ASSUME NEW n \in Names
      PROVE  find(s, n, Null) = find(t, n, Null)
  <2>1. \A e \in Symbol : Matches(e, Null)
    BY DEF Matches
  <2>2. CASE \E e \in Symbol : Has(s.buckets, e) /\ e.name = n
    BY <2>1, <2>2, FindsEntry
  <2>3. CASE ~\E e \in Symbol : Has(s.buckets, e) /\ e.name = n
    BY <2>3, FindsNone
  <2> QED BY <2>2, <2>3
<1> QED BY <1>1 DEF MapOf

-----------------------------------------------------------------------------
(* The positions in finitely many chains are finitely many.                *)
LEMMA PlacesFinite ==
    ASSUME NEW c \in Nat \ {0}, NEW bs \in BucketArrays(c)
    PROVE  /\ IsFiniteSet(Places(bs))
           /\ \A b, k : <<b, k>> \in Places(bs) <=> b \in 0..c - 1 /\ k \in 1..Len(bs[b])
<1>1. DOMAIN bs = 0..c - 1 /\ \A b \in 0..c - 1 : Len(bs[b]) \in Nat
  BY EntryType
<1>2. \A b \in 0..c - 1 : IsFiniteSet({b} \X (1..Len(bs[b])))
  <2> SUFFICES ASSUME NEW b \in 0..c - 1 PROVE IsFiniteSet({b} \X (1..Len(bs[b])))
    OBVIOUS
  <2>1. IsFiniteSet({b})
    BY FS_Singleton
  <2>2. IsFiniteSet(1..Len(bs[b]))
    <3>1. 1 \in Int /\ Len(bs[b]) \in Int
      BY <1>1
    <3> QED BY <3>1, FS_Interval
  <2> QED BY <2>1, <2>2, FS_Product
<1> DEFINE rows == {{b} \X (1..Len(bs[b])) : b \in 0..c - 1}
<1>3. IsFiniteSet(rows)
  <2>1. IsFiniteSet(0..c - 1)
    BY FS_Interval
  <2> DEFINE f == [b \in 0..c - 1 |-> {b} \X (1..Len(bs[b]))]
  <2>2. f \in Surjection(0..c - 1, rows)
    BY DEF Surjection
  <2> QED BY <2>1, <2>2, FS_Surjection
<1>4. Places(bs) = UNION rows
  BY <1>1 DEF Places
<1>5. IsFiniteSet(UNION rows)
  BY <1>2, <1>3, FS_UNION
<1>6. \A b, k : <<b, k>> \in UNION rows <=> b \in 0..c - 1 /\ k \in 1..Len(bs[b])
  OBVIOUS
<1> QED BY <1>4, <1>5, <1>6

(* An entry of a new name at the head of its chain.                        *)
LEMMA Push ==
    ASSUME NEW c \in Nat \ {0}, NEW bs \in BucketArrays(c), Hashed(bs, c),
           NEW e \in Symbol, \A x \in Symbol : Has(bs, x) => x.name # e.name
    PROVE  LET i   == IndexOf(e.name, c)
               new == [bs EXCEPT ![i] = <<e>> \o bs[i]]
           IN  /\ new \in BucketArrays(c) /\ Hashed(new, c)
               /\ \A x \in Symbol : Has(new, x) <=> Has(bs, x) \/ x = e
               /\ Cardinality(Places(new)) = Cardinality(Places(bs)) + 1
<1> DEFINE i   == IndexOf(e.name, c)
           new == [bs EXCEPT ![i] = <<e>> \o bs[i]]
<1>1. i \in 0..c - 1
  BY IndexInRange DEF Symbol
<1>2. DOMAIN bs = 0..c - 1 /\ \A b \in 0..c - 1 : bs[b] \in Chains /\ Len(bs[b]) \in Nat
  BY EntryType
<1>3. /\ <<e>> \o bs[i] \in Chains
      /\ Len(<<e>> \o bs[i]) = Len(bs[i]) + 1
      /\ (<<e>> \o bs[i])[1] = e
      /\ \A k \in 2..Len(bs[i]) + 1 : (<<e>> \o bs[i])[k] = bs[i][k - 1]
  BY <1>1, <1>2 DEF Chains
<1>4. new \in BucketArrays(c) /\ DOMAIN new = 0..c - 1
  BY <1>1, <1>2, <1>3 DEF BucketArrays
<1>5. new[i] = <<e>> \o bs[i] /\ \A b \in (0..c - 1) \ {i} : new[b] = bs[b]
  BY <1>1, <1>2
<1> HIDE DEF new, i
<1>6. \A x \in Symbol : Has(new, x) <=> Has(bs, x) \/ x = e
  <2> SUFFICES ASSUME NEW x \in Symbol PROVE Has(new, x) <=> Has(bs, x) \/ x = e
    OBVIOUS
  <2>1. ASSUME Has(new, x) PROVE Has(bs, x) \/ x = e
    <3>1. PICK b \in 0..c - 1 : \E k \in 1..Len(new[b]) : new[b][k] = x
      BY <1>4, <2>1 DEF Has
    <3>2. PICK k \in 1..Len(new[b]) : new[b][k] = x
      BY <3>1
    <3>3. CASE b # i
      BY <1>2, <1>5, <3>2, <3>3 DEF Has
    <3>4. CASE b = i /\ k # 1
      <4>1. k - 1 \in 1..Len(bs[i]) /\ bs[i][k - 1] = x
        BY <1>1, <1>2, <1>3, <1>5, <3>2, <3>4
      <4> QED BY <1>1, <1>2, <4>1 DEF Has
    <3>5. CASE b = i /\ k = 1
      BY <1>3, <1>5, <3>2, <3>5
    <3> QED BY <3>3, <3>4, <3>5
  <2>2. ASSUME Has(bs, x) PROVE Has(new, x)
    <3>1. PICK b \in 0..c - 1 : \E k \in 1..Len(bs[b]) : bs[b][k] = x
      BY <1>2, <2>2 DEF Has
    <3>2. PICK k \in 1..Len(bs[b]) : bs[b][k] = x
      BY <3>1
    <3>3. CASE b # i
      BY <1>4, <1>5, <3>2, <3>3 DEF Has
    <3>4. CASE b = i
      <4>1. k + 1 \in 1..Len(new[i]) /\ new[i][k + 1] = x
        BY <1>1, <1>2, <1>3, <1>5, <3>2, <3>4
      <4> QED BY <1>1, <1>4, <4>1 DEF Has
    <3> QED BY <3>3, <3>4
  <2>3. Has(new, e)
    <3>1. 1 \in 1..Len(new[i]) /\ new[i][1] = e
      BY <1>1, <1>2, <1>3, <1>5
    <3> QED BY <1>1, <1>4, <3>1 DEF Has
  <2> QED BY <2>1, <2>2, <2>3
<1>7. Hashed(new, c)
  <2> SUFFICES ASSUME NEW b \in 0..c - 1, NEW k \in 1..Len(new[b])
               PROVE  /\ IndexOf(new[b][k].name, c) = b
                      /\ \A j \in 1..Len(new[b]) : new[b][j].name = new[b][k].name => j = k
    BY DEF Hashed
  <2>1. CASE b # i
    BY <1>5, <2>1 DEF Hashed
  <2>2. CASE b = i
    <3>1. \A j \in 1..Len(bs[i]) : /\ bs[i][j].name # e.name
                                   /\ IndexOf(bs[i][j].name, c) = i
                                   /\ \A l \in 1..Len(bs[i]) : bs[i][l].name = bs[i][j].name => l = j
      <4>1. \A j \in 1..Len(bs[i]) : Has(bs, bs[i][j]) /\ bs[i][j] \in Symbol
        BY <1>1, <1>2, EntryType DEF Has
      <4> QED BY <1>1, <4>1 DEF Hashed
    <3>2. \A j \in 1..Len(new[i]) : /\ j = 1 => new[i][j] = e
                                    /\ j # 1 => /\ j - 1 \in 1..Len(bs[i])
                                                /\ new[i][j] = bs[i][j - 1]
                                                /\ new[i][j].name # e.name
      <4>1. \A j \in 1..Len(new[i]) : /\ j = 1 => new[i][j] = e
                                      /\ j # 1 => /\ j - 1 \in 1..Len(bs[i])
                                                  /\ new[i][j] = bs[i][j - 1]
        <5>1. Len(new[i]) = Len(bs[i]) + 1 /\ Len(bs[i]) \in Nat
          BY <1>1, <1>2, <1>3, <1>5
        <5>2. \A j \in 1..Len(new[i]) : j # 1 => j \in 2..Len(bs[i]) + 1 /\ j - 1 \in 1..Len(bs[i])
          BY <5>1
        <5> QED BY <1>3, <1>5, <5>2
      <4> QED BY <3>1, <4>1
    <3>3. IndexOf(new[b][k].name, c) = b
      <4>1. IndexOf(e.name, c) = i
        BY DEF i
      <4>2. CASE k = 1
        BY <2>2, <3>2, <4>1, <4>2
      <4>3. CASE k # 1
        <5>1. k - 1 \in 1..Len(bs[i]) /\ new[b][k] = bs[i][k - 1]
          BY <2>2, <3>2, <4>3
        <5> QED BY <2>2, <3>1, <5>1
      <4> QED BY <4>2, <4>3
    <3>4. ASSUME NEW j \in 1..Len(new[b]), new[b][j].name = new[b][k].name
          PROVE  j = k
      <4>1. Len(bs[i]) \in Nat /\ Len(new[b]) \in Nat /\ k \in Int /\ j \in Int
        BY <1>1, <1>2, <1>3, <1>5, <2>2
      <4>2. CASE j = 1
        BY <2>2, <3>2, <3>4, <4>2
      <4>3. CASE k = 1
        BY <2>2, <3>2, <3>4, <4>3
      <4>4. CASE j # 1 /\ k # 1
        <5>1. /\ j - 1 \in 1..Len(bs[i]) /\ new[b][j] = bs[i][j - 1]
              /\ k - 1 \in 1..Len(bs[i]) /\ new[b][k] = bs[i][k - 1]
          BY <2>2, <3>2, <4>4
        <5>2. j - 1 = k - 1
          BY <3>1, <3>4, <5>1
        <5> QED BY <4>1, <5>2
      <4> QED BY <4>2, <4>3, <4>4
    <3> QED BY <3>3, <3>4
  <2> QED BY <2>1, <2>2
<1>8. Cardinality(Places(new)) = Cardinality(Places(bs)) + 1
  <2>1. /\ IsFiniteSet(Places(bs))
        /\ \A b, k : <<b, k>> \in Places(bs) <=> b \in 0..c - 1 /\ k \in 1..Len(bs[b])
        /\ \A b, k : <<b, k>> \in Places(new) <=> b \in 0..c - 1 /\ k \in 1..Len(new[b])
    BY <1>4, PlacesFinite
  <2>2. Places(new) = Places(bs) \cup {<<i, Len(bs[i]) + 1>>}
    <3>1. Places(bs) \subseteq Int \X Int /\ Places(new) \subseteq Int \X Int
      BY <1>2, <1>4, EntryType DEF Places
    <3>2. \A b, k \in Int : <<b, k>> \in Places(new)
                              <=> <<b, k>> \in Places(bs) \/ (b = i /\ k = Len(bs[i]) + 1)
      <4> SUFFICES ASSUME NEW b \in Int, NEW k \in Int
                   PROVE  <<b, k>> \in Places(new)
                            <=> <<b, k>> \in Places(bs) \/ (b = i /\ k = Len(bs[i]) + 1)
        OBVIOUS
      <4>1. CASE b # i
        BY <1>5, <2>1, <4>1
      <4>2. CASE b = i
        <5>1. Len(new[i]) = Len(bs[i]) + 1 /\ Len(bs[i]) \in Nat
          BY <1>1, <1>2, <1>3, <1>5
        <5>2. k \in 1..Len(new[i]) <=> k \in 1..Len(bs[i]) \/ k = Len(bs[i]) + 1
          BY <5>1
        <5> QED BY <1>1, <2>1, <4>2, <5>2
      <4> QED BY <4>1, <4>2
    <3>3. i \in Int /\ Len(bs[i]) + 1 \in Int
      BY <1>1, <1>2
    <3> QED BY <3>1, <3>2, <3>3
  <2>3. <<i, Len(bs[i]) + 1>> \notin Places(bs)
    BY <1>1, <1>2, <2>1
  <2>4. Cardinality(Places(bs) \cup {<<i, Len(bs[i]) + 1>>}) = Cardinality(Places(bs)) + 1
    BY <2>1, <2>3, FS_AddElement
  <2> QED BY <2>2, <2>4
<1> QED BY <1>4, <1>6, <1>7, <1>8 DEF new, i

(* An entry takes the place of the one of its name.                        *)
LEMMA Replace ==
    ASSUME NEW c \in Nat \ {0}, NEW bs \in BucketArrays(c), Hashed(bs, c),
           NEW e \in Symbol, NEW k \in 1..Len(bs[IndexOf(e.name, c)]),
           bs[IndexOf(e.name, c)][k].name = e.name
    PROVE  LET i   == IndexOf(e.name, c)
               new == [bs EXCEPT ![i] = [bs[i] EXCEPT ![k] = e]]
           IN  /\ new \in BucketArrays(c) /\ Hashed(new, c)
               /\ \A x \in Symbol : Has(new, x) <=> x = e \/ (Has(bs, x) /\ x.name # e.name)
               /\ Places(new) = Places(bs)
<1> DEFINE i   == IndexOf(e.name, c)
           new == [bs EXCEPT ![i] = [bs[i] EXCEPT ![k] = e]]
<1>1. i \in 0..c - 1
  BY IndexInRange DEF Symbol
<1>2. DOMAIN bs = 0..c - 1 /\ \A b \in 0..c - 1 : bs[b] \in Chains /\ Len(bs[b]) \in Nat
  BY EntryType
<1>3. [bs[i] EXCEPT ![k] = e] \in Chains
  BY <1>1, <1>2 DEF Chains
<1>4. new \in BucketArrays(c) /\ DOMAIN new = 0..c - 1
  BY <1>1, <1>2, <1>3 DEF BucketArrays
<1>5. /\ \A b \in 0..c - 1 : Len(new[b]) = Len(bs[b])
      /\ new[i][k] = e
      /\ \A b \in 0..c - 1 : \A j \in 1..Len(bs[b]) : b # i \/ j # k => new[b][j] = bs[b][j]
  <2>1. Len([bs[i] EXCEPT ![k] = e]) = Len(bs[i])
    BY <1>1, <1>2 DEF Chains
  <2>2. new[i] = [bs[i] EXCEPT ![k] = e] /\ \A b \in (0..c - 1) \ {i} : new[b] = bs[b]
    BY <1>1, <1>2
  <2>3. DOMAIN bs[i] = 1..Len(bs[i])
    BY <1>1, <1>2 DEF Chains
  <2> HIDE DEF new, i
  <2>4. /\ [bs[i] EXCEPT ![k] = e][k] = e
        /\ \A j \in 1..Len(bs[i]) : j # k => [bs[i] EXCEPT ![k] = e][j] = bs[i][j]
    BY <2>3 DEF i
  <2> QED BY <2>1, <2>2, <2>4
<1> HIDE DEF new
<1>6. \A b \in 0..c - 1 : \A j \in 1..Len(bs[b]) :
         /\ new[b][j].name = bs[b][j].name
         /\ bs[b][j].name = e.name => b = i /\ j = k
  <2> SUFFICES ASSUME NEW b \in 0..c - 1, NEW j \in 1..Len(bs[b])
               PROVE  /\ new[b][j].name = bs[b][j].name
                      /\ bs[b][j].name = e.name => b = i /\ j = k
    OBVIOUS
  <2>1. new[b][j].name = bs[b][j].name
    BY <1>5
  <2>2. bs[b][j].name = e.name => b = i
    BY DEF Hashed
  <2>3. b = i /\ bs[b][j].name = e.name => j = k
    BY <1>1 DEF Hashed
  <2> QED BY <2>1, <2>2, <2>3
<1>7. Hashed(new, c)
  <2> SUFFICES ASSUME NEW b \in 0..c - 1, NEW p \in 1..Len(new[b])
               PROVE  /\ IndexOf(new[b][p].name, c) = b
                      /\ \A j \in 1..Len(new[b]) : new[b][j].name = new[b][p].name => j = p
    BY DEF Hashed
  <2>1. p \in 1..Len(bs[b]) /\ Len(new[b]) = Len(bs[b])
    BY <1>5
  <2>2. /\ IndexOf(bs[b][p].name, c) = b
        /\ \A j \in 1..Len(bs[b]) : bs[b][j].name = bs[b][p].name => j = p
    BY <2>1 DEF Hashed
  <2>3. \A j \in 1..Len(bs[b]) : new[b][j].name = bs[b][j].name
    BY <1>6
  <2> QED BY <2>1, <2>2, <2>3
<1>8. \A x \in Symbol : Has(new, x) <=> x = e \/ (Has(bs, x) /\ x.name # e.name)
  <2> SUFFICES ASSUME NEW x \in Symbol
               PROVE  Has(new, x) <=> x = e \/ (Has(bs, x) /\ x.name # e.name)
    OBVIOUS
  <2>1. ASSUME Has(new, x), x # e PROVE Has(bs, x) /\ x.name # e.name
    <3>1. PICK b \in 0..c - 1 : \E j \in 1..Len(new[b]) : new[b][j] = x
      BY <1>4, <2>1 DEF Has
    <3>2. PICK j \in 1..Len(new[b]) : new[b][j] = x
      BY <3>1
    <3>3. j \in 1..Len(bs[b]) /\ (b # i \/ j # k) /\ bs[b][j] = x
      BY <1>5, <2>1, <3>2
    <3> QED BY <1>2, <1>6, <3>3 DEF Has
  <2>2. ASSUME Has(bs, x), x.name # e.name PROVE Has(new, x)
    <3>1. PICK b \in 0..c - 1 : \E j \in 1..Len(bs[b]) : bs[b][j] = x
      BY <1>2, <2>2 DEF Has
    <3>2. PICK j \in 1..Len(bs[b]) : bs[b][j] = x
      BY <3>1
    <3>3. j \in 1..Len(new[b]) /\ new[b][j] = x
      BY <1>5, <2>2, <3>2
    <3> QED BY <1>4, <3>3 DEF Has
  <2>3. Has(new, e)
    BY <1>1, <1>4, <1>5 DEF Has
  <2> QED BY <2>1, <2>2, <2>3
<1>9. Places(new) = Places(bs)
  BY <1>2, <1>4, <1>5 DEF Places
<1> QED BY <1>4, <1>7, <1>8, <1>9 DEF new
-----------------------------------------------------------------------------
(* The inductive invariant.  Its types: *)
Typed ==
    /\ all_scopes_ \in Seq(Tables) /\ Len(all_scopes_) \in 1..MaxScopes
    /\ scopes \in Seq(1..Len(all_scopes_)) /\ scopes # <<>>
    /\ fresh \in 1..MaxSymbols + 1 /\ result \in 0..MaxSymbols
    /\ pc \in {"idle", "resize", "put"}
    /\ IF pc = "idle" THEN sym = NoSym /\ caller = "none"
       ELSE sym \in Symbol /\ caller \in {"insert", "registerTempSymbol"}
    /\ IF pc = "resize" THEN new_buckets \in BucketArrays(2 * TopScope.bucket_count)
       ELSE new_buckets = <<>>
    /\ bucket \in Nat /\ pos \in Nat \ {0}

(* Scopes are opened in order, the global one first, and the level counts  *)
(* the open ones.                                                          *)
Nested ==
    /\ scopes[1] = 1
    /\ \A d, e \in 1..Len(scopes) : d < e => scopes[d] < scopes[e]
    /\ current_scope_level_ = Len(scopes)

(* Each scope by itself. *)
Sound(s) ==
    /\ Hashed(s.buckets, s.bucket_count)
    /\ s.symbol_count = Cardinality(Places(s.buckets))
    /\ 4 * s.symbol_count <= 3 * s.bucket_count
AllSound == \A i \in 1..Len(all_scopes_) : Sound(all_scopes_[i])

(* Levels, in terms of entries. *)
EntryLevels ==
    \A d \in 1..Len(scopes) : \A e \in Symbol :
        Has(all_scopes_[scopes[d]].buckets, e) => e.level = d

(* No global of the module takes the name of a runtime symbol. *)
BuiltinsKept ==
    \A e \in Symbol : Has(all_scopes_[1].buckets, e) /\ e.name \in Builtins
                        => e.module \in {Null, Builtin}

(* The symbol under insertion: a checked one, and one with a module, is    *)
(* new to its scope.                                                       *)
Inserting ==
    pc # "idle" =>
        /\ sym.level = Len(scopes) /\ sym.id = fresh
        /\ caller = "insert" \/ sym.module # Null =>
               \A e \in Symbol : Has(TopScope.buckets, e) => e.name # sym.name
        /\ Len(scopes) = 1 /\ sym.name \in Builtins => sym.module \in {Null, Builtin}
        /\ pc = "put" => 4 * (TopScope.symbol_count + 1) <= 3 * TopScope.bucket_count

(* The loop of resize: the new chains hold the entries it has passed, each *)
(* once.                                                                   *)
Passed(bs, i, p) == {q \in Places(bs) : q[1] < i \/ (q[1] = i /\ q[2] < p)}
Resizing ==
    LET bs == TopScope.buckets
        c  == TopScope.bucket_count
    IN  pc = "resize" =>
        /\ bucket <= c
        /\ IF bucket = c THEN pos = 1 ELSE pos <= Len(bs[bucket]) + 1
        /\ Hashed(new_buckets, 2 * c)
        /\ \A e \in Symbol :
               Has(new_buckets, e) <=> \E q \in Passed(bs, bucket, pos) : bs[q[1]][q[2]] = e
        /\ Cardinality(Places(new_buckets)) = Cardinality(Passed(bs, bucket, pos))

IInv ==
    /\ Typed /\ Nested /\ AllSound /\ EntryLevels /\ BuiltinsKept
    /\ Inserting /\ Resizing
-----------------------------------------------------------------------------
(* The last of a set of positions. *)
LEMMA LastExists ==
    ASSUME NEW n \in Nat, NEW is \in SUBSET (1..n), is # {}
    PROVE  LastOf(is) \in is /\ \A j \in is : j <= LastOf(is)
<1> DEFINE back == {n - j : j \in is}
           less == OpToRel(<, Nat)
<1>0. \A j \in is : j \in Nat /\ n - j \in Nat
  OBVIOUS
<1>1. back \subseteq Nat /\ back # {}
  BY <1>0
<1>2. PICK x \in back : \A y \in back : ~(<<y, x>> \in less)
  <2> HIDE DEF back, less
  <2> QED BY <1>1, NatLessThanWellFounded, WFMin DEF less
<1>3. \A y \in back : ~(y < x)
  <2>1. \A y \in back : <<y, x>> \in less <=> y < x
    BY <1>1 DEF OpToRel
  <2> QED BY <1>2, <2>1
<1>4. PICK i \in is : x = n - i
  BY <1>2
<1>5. \A j \in is : j <= i
  <2>1. \A j \in is : ~(n - j < n - i)
    BY <1>3, <1>4
  <2> QED BY <1>0, <2>1
<1> QED BY <1>4, <1>5 DEF LastOf

(* What a search of a scope can answer. *)
LEMMA FindRange ==
    ASSUME NEW s \in Tables, Hashed(s.buckets, s.bucket_count), NEW n \in Names, NEW module
    PROVE  find(s, n, module) \in 0..MaxSymbols
<1>0. MaxSymbols \in Nat
  BY SymbolTableConstants
<1>1. CASE \E e \in Symbol : Has(s.buckets, e) /\ e.name = n /\ Matches(e, module)
  <2>1. PICK e \in Symbol : Has(s.buckets, e) /\ e.name = n /\ Matches(e, module)
    BY <1>1
  <2>2. find(s, n, module) = e.id
    BY <2>1, FindsEntry
  <2> QED BY <1>0, <2>2 DEF Symbol
<1>2. CASE ~\E e \in Symbol : Has(s.buckets, e) /\ e.name = n /\ Matches(e, module)
  BY <1>0, <1>2, FindsNone
<1> QED BY <1>1, <1>2

(* Empty buckets are well formed and hold nothing. *)
LEMMA EmptyChains ==
    ASSUME NEW c \in Nat \ {0}
    PROVE  /\ EmptyBuckets(c) \in BucketArrays(c) /\ Hashed(EmptyBuckets(c), c)
           /\ \A e : ~Has(EmptyBuckets(c), e)
           /\ Places(EmptyBuckets(c)) = {} /\ Cardinality(Places(EmptyBuckets(c))) = 0
<1>1. EmptyBuckets(c) \in BucketArrays(c)
  BY DEF EmptyBuckets, BucketArrays, Chains
<1>2. \A b \in 0..c - 1 : EmptyBuckets(c)[b] = <<>> /\ 1..Len(EmptyBuckets(c)[b]) = {}
  BY DEF EmptyBuckets
<1>3. DOMAIN EmptyBuckets(c) = 0..c - 1
  BY DEF EmptyBuckets
<1>4. Hashed(EmptyBuckets(c), c) /\ \A e : ~Has(EmptyBuckets(c), e)
  BY <1>2, <1>3 DEF Hashed, Has
<1>5. Places(EmptyBuckets(c)) = {}
  BY <1>2, <1>3 DEF Places
<1> QED BY <1>1, <1>4, <1>5, FS_EmptySet

(* A new scope is sound and holds nothing. *)
LEMMA FreshScope ==
    /\ NewScope \in Tables /\ Sound(NewScope)
    /\ \A e : ~Has(NewScope.buckets, e)
<1>1. InitialBuckets \in Nat \ {0}
  BY SymbolTableConstants
<1> QED BY <1>1, EmptyChains, TableMade DEF NewScope, Sound

(* The innermost scope is a table, the global one only at level 1. *)
LEMMA TopIsTable ==
    ASSUME Typed, Nested
    PROVE  /\ Len(scopes) \in Nat \ {0} /\ Len(all_scopes_) \in Nat \ {0}
           /\ \A d \in 1..Len(scopes) : scopes[d] \in 1..Len(all_scopes_)
           /\ Top \in 1..Len(all_scopes_) /\ TopScope \in Tables
           /\ 1 \in 1..Len(all_scopes_)
           /\ Top = 1 <=> Len(scopes) = 1
<1>1. Len(scopes) \in Nat \ {0} /\ Len(all_scopes_) \in Nat \ {0}
  BY SymbolTableConstants DEF Typed
<1>2. \A d \in 1..Len(scopes) : scopes[d] \in 1..Len(all_scopes_)
  BY DEF Typed
<1>3. Top \in 1..Len(all_scopes_)
  BY <1>1, <1>2 DEF Top
<1>4. TopScope \in Tables
  BY <1>3 DEF Typed, TopScope
<1>5. Top = 1 <=> Len(scopes) = 1
  <2>1. CASE Len(scopes) = 1
    BY <2>1 DEF Nested, Top
  <2>2. CASE Len(scopes) # 1
    <3>1. 1 \in 1..Len(scopes) /\ Len(scopes) \in 1..Len(scopes) /\ 1 < Len(scopes)
      <4>1. \A l \in Nat \ {0} : l # 1 => 1 \in 1..l /\ l \in 1..l /\ 1 < l
        OBVIOUS
      <4> QED BY <1>1, <2>2, <4>1
    <3>2. 1 < Top
      BY <3>1 DEF Nested, Top
    <3> QED BY <2>2, <3>2
  <2> QED BY <2>1, <2>2
<1> QED BY <1>1, <1>2, <1>3, <1>4, <1>5

(* What the inductive invariant is for. *)
LEMMA Implied == IInv => TableInv
<1> SUFFICES ASSUME IInv PROVE TableInv
  OBVIOUS
<1>0. Typed /\ Nested /\ AllSound /\ EntryLevels /\ Inserting /\ Resizing
  BY DEF IInv
<1>1. /\ Len(scopes) \in Nat \ {0} /\ Len(all_scopes_) \in Nat \ {0}
      /\ \A i \in 1..Len(all_scopes_) : all_scopes_[i] \in Tables
      /\ TopScope \in Tables
  BY <1>0, TopIsTable DEF Typed
<1>2. TypeOK
  <2>1. \A i \in 1..Len(all_scopes_) : IsScope(all_scopes_[i])
    BY <1>1, TableParts DEF IsScope, IsBuckets, BucketArrays, Chains
  <2>2. pc = "resize" => IsBuckets(new_buckets, 2 * TopScope.bucket_count)
    BY <1>0 DEF Typed, IsBuckets, BucketArrays, Chains
  <2>3. current_scope_level_ \in Nat
    BY <1>0, <1>1 DEF Nested
  <2> QED BY <1>0, <2>1, <2>2, <2>3 DEF Typed, TypeOK
<1>3. ChainsHashed
  BY <1>0 DEF AllSound, Sound, Resizing, ChainsHashed
<1>4. CountsExact
  BY <1>0 DEF AllSound, Sound, CountsExact
<1>5. LevelsMatch
  <2> SUFFICES ASSUME NEW d \in 1..Len(scopes),
                      NEW b \in 0..all_scopes_[scopes[d]].bucket_count - 1,
                      NEW k \in 1..Len(all_scopes_[scopes[d]].buckets[b])
               PROVE  all_scopes_[scopes[d]].buckets[b][k].level = d
    BY <1>0 DEF LevelsMatch, Nested
  <2> DEFINE s == all_scopes_[scopes[d]]
  <2>1. s \in Tables
    BY <1>0, <1>1, TopIsTable
  <2>2. Has(s.buckets, s.buckets[b][k]) /\ s.buckets[b][k] \in Symbol
    BY <2>1, TableParts, EntryType DEF Has
  <2> QED BY <1>0, <2>2 DEF EntryLevels
<1> QED BY <1>2, <1>3, <1>4, <1>5 DEF TableInv

-----------------------------------------------------------------------------
(* IInv holds of the table with its global scope. *)
LEMMA Initially == Init => IInv
<1> SUFFICES ASSUME Init PROVE IInv
  OBVIOUS
<1>0. /\ Len(all_scopes_) = 1 /\ all_scopes_[1] = NewScope
      /\ Len(scopes) = 1 /\ scopes[1] = 1
      /\ MaxScopes \in Nat \ {0} /\ MaxSymbols \in Nat
  BY SymbolTableConstants DEF Init
<1>1. Typed
  <2>1. all_scopes_ \in Seq(Tables)
    BY FreshScope DEF Init
  <2>2. scopes \in Seq(1..Len(all_scopes_)) /\ scopes # <<>>
    BY <1>0 DEF Init
  <2> QED BY <1>0, <2>1, <2>2 DEF Init, Typed
<1>2. Nested
  BY <1>0 DEF Init, Nested
<1>3. AllSound /\ EntryLevels /\ BuiltinsKept
  BY <1>0, FreshScope DEF AllSound, EntryLevels, BuiltinsKept
<1>4. Inserting /\ Resizing
  BY DEF Init, Inserting, Resizing
<1> QED BY <1>1, <1>2, <1>3, <1>4 DEF IInv
-----------------------------------------------------------------------------
(* One lemma for each kind of step.  The calls that only answer: *)
LEMMA AnswerStep ==
    ASSUME IInv, UNCHANGED <<table, fresh, work>>, result' \in 0..MaxSymbols
    PROVE  IInv'
<1>0. Typed /\ Nested /\ AllSound /\ EntryLevels /\ BuiltinsKept /\ Inserting /\ Resizing
  BY DEF IInv
<1>1. /\ all_scopes_' = all_scopes_ /\ scopes' = scopes
      /\ current_scope_level_' = current_scope_level_
      /\ fresh' = fresh /\ pc' = pc /\ sym' = sym /\ caller' = caller
      /\ new_buckets' = new_buckets /\ bucket' = bucket /\ pos' = pos
      /\ TopScope' = TopScope
  BY DEF table, work, loop, TopScope, Top
<1>2. Typed'
  BY <1>0, <1>1 DEF Typed
<1>3. Nested' /\ AllSound' /\ EntryLevels' /\ BuiltinsKept'
  BY <1>0, <1>1 DEF Nested, AllSound, EntryLevels, BuiltinsKept
<1>4. Inserting' /\ Resizing'
  BY <1>0, <1>1 DEF Inserting, Resizing
<1> QED BY <1>2, <1>3, <1>4 DEF IInv

(* A search of one scope answers with a symbol or none. *)
LEMMA AnswersInRange ==
    ASSUME IInv, NEW n \in Names
    PROVE  \A i \in 1..Len(all_scopes_) :
               /\ \A module : find(all_scopes_[i], n, module) \in 0..MaxSymbols
               /\ findEither(all_scopes_[i], n) \in 0..MaxSymbols
               /\ \A module : findPreferred(all_scopes_[i], n, module) \in 0..MaxSymbols
<1> TAKE i \in 1..Len(all_scopes_)
<1>1. all_scopes_[i] \in Tables /\ Hashed(all_scopes_[i].buckets, all_scopes_[i].bucket_count)
  <2>1. all_scopes_[i] \in Tables
    BY DEF IInv, Typed
  <2>2. Sound(all_scopes_[i])
    BY DEF IInv, AllSound
  <2> QED BY <2>1, <2>2 DEF Sound
<1>2. \A m : find(all_scopes_[i], n, m) \in 0..MaxSymbols
  BY <1>1, FindRange
<1> QED BY <1>2 DEF findEither, findPreferred

(* lookup answers with a symbol or none. *)
LEMMA LookupInRange ==
    ASSUME IInv, NEW n \in Names
    PROVE  LookupResult(n) \in 0..MaxSymbols
<1>0. Typed /\ Nested /\ MaxSymbols \in Nat
  BY SymbolTableConstants DEF IInv
<1>1. Len(scopes) \in Nat /\ \A d \in 1..Len(scopes) : scopes[d] \in 1..Len(all_scopes_)
  BY <1>0, TopIsTable
<1>2. LookupFound(n) \in SUBSET (1..Len(scopes))
  BY DEF LookupFound
<1>3. LookupFound(n) # {} => LastOf(LookupFound(n)) \in 1..Len(scopes)
  BY <1>1, <1>2, LastExists
<1> QED BY <1>0, <1>1, <1>3, AnswersInRange DEF LookupResult

(* The search of all scopes answers with a symbol or none. *)
LEMMA AnyInRange ==
    ASSUME IInv, NEW n \in Names, NEW preferred
    PROVE  AnyResult(n, preferred) \in 0..MaxSymbols
<1> DEFINE found    == {i \in 1..Len(all_scopes_) :
                           findPreferred(all_scopes_[i], n, preferred) # 0}
           fallback == {i \in 1..Len(all_scopes_) : find(all_scopes_[i], n, Null) # 0}
<1>0. Len(all_scopes_) \in Nat /\ MaxSymbols \in Nat
  BY SymbolTableConstants, TopIsTable DEF IInv
<1>1. found \in SUBSET (1..Len(all_scopes_)) /\ fallback \in SUBSET (1..Len(all_scopes_))
  OBVIOUS
<1> HIDE DEF found, fallback
<1>2. /\ found # {} => LastOf(found) \in 1..Len(all_scopes_)
      /\ fallback # {} => LastOf(fallback) \in 1..Len(all_scopes_)
  BY <1>0, <1>1, LastExists
<1>3. AnyResult(n, preferred) =
          IF found # {} THEN findPreferred(all_scopes_[LastOf(found)], n, preferred)
          ELSE IF fallback # {} THEN find(all_scopes_[LastOf(fallback)], n, Null)
          ELSE 0
  BY DEF AnyResult, found, fallback
<1>4. \A i \in 1..Len(all_scopes_) :
         /\ find(all_scopes_[i], n, Null) \in 0..MaxSymbols
         /\ findPreferred(all_scopes_[i], n, preferred) \in 0..MaxSymbols
  BY AnswersInRange
<1>5. 0 \in 0..MaxSymbols
  BY <1>0
<1>6. CASE found # {}
  BY <1>2, <1>3, <1>4, <1>6
<1>7. CASE found = {}
  BY <1>2, <1>3, <1>4, <1>5, <1>7
<1> QED BY <1>6, <1>7

(* enterScope keeps IInv. *)
LEMMA EnterStep == IInv /\ enterScope => IInv'
<1> SUFFICES ASSUME IInv, enterScope PROVE IInv'
  OBVIOUS
<1>0. Typed /\ Nested /\ AllSound /\ EntryLevels /\ BuiltinsKept
  BY DEF IInv
<1> DEFINE l == Len(all_scopes_)
           d == Len(scopes)
<1>1. /\ l \in Nat \ {0} /\ d \in Nat \ {0}
      /\ all_scopes_ \in Seq(Tables) /\ scopes \in Seq(1..l)
      /\ l < MaxScopes /\ MaxScopes \in Nat /\ MaxSymbols \in Nat
  BY <1>0, TopIsTable, SymbolTableConstants DEF Typed, enterScope
<1>2. /\ all_scopes_' \in Seq(Tables) /\ Len(all_scopes_') = l + 1
      /\ all_scopes_'[l + 1] = NewScope
      /\ \A i \in 1..l : all_scopes_'[i] = all_scopes_[i]
  BY <1>1, FreshScope DEF enterScope
<1>3. /\ scopes' \in Seq(1..l + 1) /\ scopes' # <<>> /\ Len(scopes') = d + 1
      /\ scopes'[d + 1] = l + 1
      /\ \A i \in 1..d : scopes'[i] = scopes[i] /\ scopes[i] \in 1..l
  <2>1. scopes \in Seq(1..l + 1) /\ l + 1 \in 1..l + 1
    BY <1>1, SeqMonotonic
  <2>2. scopes' = Append(scopes, l + 1)
    BY DEF enterScope
  <2>3. \A i \in 1..d : scopes[i] \in 1..l
    BY <1>1
  <2>4. /\ scopes' \in Seq(1..l + 1) /\ Len(scopes') = d + 1 /\ scopes'[d + 1] = l + 1
        /\ \A i \in 1..d : scopes'[i] = scopes[i]
    <3> HIDE DEF l
    <3> QED BY <2>1, <2>2
  <2> QED BY <1>1, <2>3, <2>4
<1>4. /\ pc = "idle" /\ result' = 0 /\ current_scope_level_' = current_scope_level_ + 1
      /\ fresh' = fresh /\ pc' = pc /\ sym' = sym /\ caller' = caller
      /\ new_buckets' = new_buckets /\ bucket' = bucket /\ pos' = pos
  BY DEF enterScope, Returns, work, loop
<1> HIDE DEF l, d
<1>5. Typed'
  <2>1. Len(all_scopes_') \in 1..MaxScopes
    BY <1>1, <1>2
  <2> QED BY <1>0, <1>1, <1>2, <1>3, <1>4, <2>1 DEF Typed
<1>6. Nested'
  <2>1. scopes'[1] = 1
    BY <1>0, <1>1, <1>3 DEF Nested
  <2>2. ASSUME NEW i \in 1..d + 1, NEW j \in 1..d + 1, i < j
        PROVE  scopes'[i] < scopes'[j]
    <3>1. CASE j = d + 1
      <4>1. i \in 1..d
        BY <1>1, <2>2, <3>1
      <4>2. scopes'[i] \in 1..l /\ scopes'[j] = l + 1
        BY <1>3, <3>1, <4>1
      <4> QED BY <1>1, <4>2
    <3>2. CASE j # d + 1
      <4>1. i \in 1..d /\ j \in 1..d
        BY <1>1, <2>2, <3>2
      <4> QED BY <1>0, <1>3, <2>2, <4>1 DEF Nested, d
    <3> QED BY <3>1, <3>2
  <2>3. current_scope_level_' = Len(scopes')
    BY <1>0, <1>3, <1>4 DEF Nested, d
  <2> QED BY <1>3, <2>1, <2>2, <2>3 DEF Nested
<1>7. AllSound'
  <2>1. \A i \in 1..l + 1 : i \in 1..l \/ i = l + 1
    BY <1>1
  <2> QED BY <1>0, <1>2, <2>1, FreshScope DEF AllSound, l
<1>8. EntryLevels'
  <2>1. \A i \in 1..d + 1 : i \in 1..d \/ i = d + 1
    BY <1>1
  <2>2. \A i \in 1..d : all_scopes_'[scopes'[i]] = all_scopes_[scopes[i]]
    BY <1>2, <1>3
  <2>3. all_scopes_'[scopes'[d + 1]] = NewScope
    BY <1>2, <1>3
  <2> QED BY <1>0, <1>3, <2>1, <2>2, <2>3, FreshScope DEF EntryLevels, d
<1>9. BuiltinsKept'
  <2>1. all_scopes_'[1] = all_scopes_[1]
    BY <1>1, <1>2
  <2> QED BY <1>0, <2>1 DEF BuiltinsKept
<1>10. Inserting' /\ Resizing'
  BY <1>4 DEF Inserting, Resizing
<1> QED BY <1>5, <1>6, <1>7, <1>8, <1>9, <1>10 DEF IInv

(* exitScope keeps IInv. *)
LEMMA ExitStep == IInv /\ exitScope => IInv'
<1> SUFFICES ASSUME IInv, exitScope PROVE IInv'
  OBVIOUS
<1>0. Typed /\ Nested /\ AllSound /\ EntryLevels /\ BuiltinsKept
  BY DEF IInv
<1> DEFINE l == Len(all_scopes_)
           d == Len(scopes)
<1>1. /\ l \in Nat \ {0} /\ d \in Nat \ {0} /\ d > 1
      /\ scopes \in Seq(1..l) /\ MaxSymbols \in Nat
      /\ \A i \in 1..d : scopes[i] \in 1..l
  BY <1>0, TopIsTable, SymbolTableConstants DEF Typed, exitScope
<1>2. /\ scopes' \in Seq(1..l) /\ Len(scopes') = d - 1
      /\ \A i \in 1..d - 1 : scopes'[i] = scopes[i]
  <2>1. \A i \in 1..d - 1 : scopes[i] \in 1..l
    BY <1>1
  <2>2. scopes' = SubSeq(scopes, 1, d - 1) /\ d - 1 \in Int
    BY <1>1 DEF exitScope
  <2> HIDE DEF l, d
  <2>3. /\ scopes' \in Seq(1..l)
        /\ Len(scopes') = IF 1 <= d - 1 THEN (d - 1) - 1 + 1 ELSE 0
        /\ \A i \in 1..(d - 1) - 1 + 1 : scopes'[i] = scopes[1 + i - 1]
    BY <2>1, <2>2, SubSeqProperties
  <2> QED BY <1>1, <2>3
<1>3. scopes' # <<>>
  BY <1>1, <1>2
<1>4. /\ pc = "idle" /\ result' = 0 /\ current_scope_level_' = current_scope_level_ - 1
      /\ fresh' = fresh /\ pc' = pc /\ sym' = sym /\ caller' = caller /\ all_scopes_' = all_scopes_
      /\ new_buckets' = new_buckets /\ bucket' = bucket /\ pos' = pos
  BY DEF exitScope, Returns, work, loop
<1>5. \A i \in 1..d - 1 : i \in 1..d
  BY <1>1
<1> HIDE DEF d
<1>6. Typed'
  BY <1>0, <1>1, <1>2, <1>3, <1>4 DEF Typed
<1>7. Nested'
  <2>1. scopes'[1] = 1
    BY <1>0, <1>1, <1>2 DEF Nested
  <2>2. current_scope_level_' = Len(scopes')
    BY <1>0, <1>2, <1>4 DEF Nested, d
  <2> QED BY <1>0, <1>2, <1>5, <2>1, <2>2 DEF Nested, d
<1>8. AllSound' /\ BuiltinsKept'
  BY <1>0, <1>4 DEF AllSound, BuiltinsKept
<1>9. EntryLevels'
  BY <1>0, <1>2, <1>4, <1>5 DEF EntryLevels, d
<1>10. Inserting' /\ Resizing'
  BY <1>4 DEF Inserting, Resizing
<1> QED BY <1>6, <1>7, <1>8, <1>9, <1>10 DEF IInv
(* Insertions.  A symbol with a module is new to its scope. *)
LEMMA BeginStep ==
    ASSUME IInv, NEW n \in Names, NEW module \in {Null, current_module_, Builtin},
           NEW function \in {"insert", "registerTempSymbol"}, Begin(function, n, module),
           function = "insert" \/ module # Null => \A e \in Symbol : Has(TopScope.buckets, e) => e.name # n,
           Len(scopes) = 1 /\ n \in Builtins => module \in {Null, Builtin}
    PROVE  IInv'
<1>0. Typed /\ Nested /\ AllSound /\ EntryLevels /\ BuiltinsKept
  BY DEF IInv
<1> DEFINE s == TopScope
           full == 4 * (s.symbol_count + 1) > 3 * s.bucket_count
<1>1. /\ Len(scopes) \in Nat \ {0} /\ TopScope \in Tables
      /\ s.bucket_count \in Nat \ {0} /\ s.symbol_count \in Nat
      /\ s.buckets \in BucketArrays(s.bucket_count)
      /\ 2 * s.bucket_count \in Nat \ {0}
      /\ MaxSymbols \in Nat
  BY <1>0, TopIsTable, TableParts, SymbolTableConstants
<1>2. /\ all_scopes_' = all_scopes_ /\ scopes' = scopes /\ TopScope' = TopScope
      /\ current_scope_level_' = current_scope_level_ /\ current_scope_level_ = Len(scopes)
      /\ fresh' = fresh /\ result' = result /\ fresh \in 1..MaxSymbols
      /\ sym' = [name |-> n, module |-> module, id |-> fresh, level |-> Len(scopes)]
      /\ caller' = function
      /\ pc' = IF full THEN "resize" ELSE "put"
      /\ new_buckets' = IF full THEN EmptyBuckets(2 * s.bucket_count) ELSE <<>>
      /\ bucket' = 0 /\ pos' = 1
  BY <1>0, <1>1 DEF Begin, table, TopScope, Top, Typed, Nested
<1>3. sym' \in Symbol
  BY <1>1, <1>2 DEF Symbol
<1>4. Typed'
  BY <1>0, <1>1, <1>2, <1>3, EmptyChains DEF Typed
<1>5. Nested' /\ AllSound' /\ EntryLevels' /\ BuiltinsKept'
  BY <1>0, <1>2 DEF Nested, AllSound, EntryLevels, BuiltinsKept
<1>6. Inserting'
  <2>1. pc' = "put" => 4 * (s.symbol_count + 1) <= 3 * s.bucket_count
    BY <1>1, <1>2
  <2> QED BY <1>2, <2>1 DEF Inserting
<1>7. Resizing'
  <2>1. \A q \in Places(s.buckets) : q[1] \in Nat /\ q[2] \in Nat \ {0}
    <3>1. DOMAIN s.buckets = 0..s.bucket_count - 1
      BY <1>1, EntryType
    <3>2. \A q \in Places(s.buckets) : q[1] \in 0..s.bucket_count - 1 /\ q[2] \in 1..Len(s.buckets[q[1]])
      BY <3>1 DEF Places
    <3>3. \A b \in 0..s.bucket_count - 1 : b \in Nat /\ Len(s.buckets[b]) \in Nat
      BY <1>1, EntryType
    <3> QED BY <3>2, <3>3
  <2>2. Passed(s.buckets, 0, 1) = {}
    BY <2>1 DEF Passed
  <2>3. 1 <= Len(s.buckets[0]) + 1 /\ 0 # s.bucket_count /\ 0 <= s.bucket_count
    BY <1>1, EntryType
  <2> QED BY <1>1, <1>2, <2>2, <2>3, EmptyChains DEF Resizing
<1> QED BY <1>4, <1>5, <1>6, <1>7 DEF IInv

(* The current scope is a sound table. *)
LEMMA TopSound ==
    ASSUME IInv
    PROVE  /\ Top \in 1..Len(all_scopes_) /\ TopScope \in Tables
           /\ Hashed(TopScope.buckets, TopScope.bucket_count)
           /\ TopScope.symbol_count = Cardinality(Places(TopScope.buckets))
           /\ 4 * TopScope.symbol_count <= 3 * TopScope.bucket_count
           /\ TopScope.bucket_count \in Nat \ {0} /\ TopScope.symbol_count \in Nat
           /\ TopScope.buckets \in BucketArrays(TopScope.bucket_count)
<1>1. Top \in 1..Len(all_scopes_) /\ TopScope \in Tables
  BY TopIsTable DEF IInv
<1>2. Sound(TopScope)
  BY <1>1 DEF IInv, AllSound, TopScope
<1> QED BY <1>1, <1>2, TableParts DEF Sound

(* The redeclaration checks of both kinds of insertion see every entry of  *)
(* the name.                                                               *)
LEMMA CheckedIsNew ==
    ASSUME IInv, NEW n \in Names, NEW module,
           \/ module = DeclaredIn
           \/ module = Builtin /\ n \in Builtins /\ Len(scopes) = 1
    PROVE  find(TopScope, n, Filter(module)) = 0
             <=> \A e \in Symbol : Has(TopScope.buckets, e) => e.name # n
<1>1. /\ TopScope \in Tables /\ Hashed(TopScope.buckets, TopScope.bucket_count)
      /\ Len(scopes) = 1 => Top = 1
  BY TopIsTable, TopSound DEF IInv
<1>2. ASSUME NEW e \in Symbol, Has(TopScope.buckets, e), e.name = n
      PROVE  Matches(e, Filter(module))
  <2>1. CASE module = DeclaredIn
    BY <2>1 DEF DeclaredIn, Filter, Matches, Symbol
  <2>2. CASE module = Builtin /\ n \in Builtins /\ Len(scopes) = 1
    <3>1. e.module \in {Null, Builtin}
      BY <1>1, <1>2, <2>2 DEF IInv, BuiltinsKept, TopScope
    <3> QED BY <2>2, <3>1 DEF Filter, Matches
  <2> QED BY <2>1, <2>2
<1> QED BY <1>1, <1>2, FoundIffEntry

(* insert keeps IInv, whether it must resize or not. *)
LEMMA InsertStep ==
    ASSUME IInv, NEW n \in Names, NEW module, insert(n, module),
           \/ module = DeclaredIn /\ Injected
           \/ module = Builtin /\ n \in Builtins /\ Len(scopes) = 1
    PROVE  IInv'
<1>1. \A e \in Symbol : Has(TopScope.buckets, e) => e.name # n
  BY CheckedIsNew DEF insert
<1>2. module \in {Null, current_module_, Builtin}
  BY DEF DeclaredIn
<1>3. ASSUME Len(scopes) = 1, n \in Builtins, module = DeclaredIn, Injected
      PROVE  FALSE
  <2>1. TopScope = all_scopes_[1]
    BY <1>3, TopIsTable DEF IInv, TopScope
  <2>2. find(TopScope, n, Builtin) # 0
    BY <1>3, <2>1 DEF Injected
  <2> QED BY <1>1, <2>2, TopSound, FoundIffEntry
<1> QED BY <1>1, <1>2, <1>3, BeginStep DEF insert
(* The innermost scope becomes a table that holds its entries, and at most *)
(* the symbol under insertion besides.                                     *)
LEMMA TopChanged ==
    ASSUME IInv, pc # "idle", NEW t \in Tables, Sound(t),
           all_scopes_' = [all_scopes_ EXCEPT ![Top] = t],
           scopes' = scopes, current_scope_level_' = current_scope_level_,
           \A e \in Symbol : Has(t.buckets, e) => Has(TopScope.buckets, e) \/ e = sym
    PROVE  /\ all_scopes_' \in Seq(Tables) /\ Len(all_scopes_') = Len(all_scopes_)
           /\ Top' = Top /\ TopScope' = t
           /\ \A i \in 1..Len(all_scopes_) \ {Top} : all_scopes_'[i] = all_scopes_[i]
           /\ Nested' /\ AllSound' /\ EntryLevels' /\ BuiltinsKept'
<1>0. Typed /\ Nested /\ AllSound /\ EntryLevels /\ BuiltinsKept /\ Inserting
  BY DEF IInv
<1>1. /\ Len(scopes) \in Nat \ {0} /\ Len(all_scopes_) \in Nat \ {0}
      /\ Top \in 1..Len(all_scopes_) /\ all_scopes_ \in Seq(Tables)
      /\ \A d \in 1..Len(scopes) : scopes[d] \in 1..Len(all_scopes_)
      /\ Top = 1 <=> Len(scopes) = 1
  BY <1>0, TopIsTable DEF Typed
<1>2. /\ all_scopes_' \in Seq(Tables) /\ Len(all_scopes_') = Len(all_scopes_)
      /\ \A i \in 1..Len(all_scopes_) :
             all_scopes_'[i] = IF i = Top THEN t ELSE all_scopes_[i]
  BY <1>1, ExceptSeq
<1>3. Top' = Top /\ TopScope' = t
  BY <1>1, <1>2 DEF Top, TopScope
<1>4. Nested' /\ AllSound'
  BY <1>0, <1>2 DEF Nested, AllSound
<1>5. EntryLevels'
  <2> SUFFICES ASSUME NEW d \in 1..Len(scopes), NEW e \in Symbol,
                      Has(all_scopes_'[scopes[d]].buckets, e)
               PROVE  e.level = d
    BY DEF EntryLevels
  <2>1. CASE scopes[d] = Top
    <3>1. d = Len(scopes)
      <4>1. Len(scopes) \in 1..Len(scopes) /\ d <= Len(scopes)
        BY <1>1
      <4>2. d < Len(scopes) => scopes[d] < scopes[Len(scopes)]
        BY <1>0, <4>1 DEF Nested
      <4>3. scopes[d] \in Nat
        BY <1>1
      <4> QED BY <2>1, <4>1, <4>2, <4>3 DEF Top
    <3>2. Has(TopScope.buckets, e) \/ e = sym
      BY <1>1, <1>2, <2>1
    <3>3. sym.level = Len(scopes)
      BY <1>0 DEF Inserting
    <3>4. Has(TopScope.buckets, e) => e.level = d
      BY <1>0, <2>1 DEF EntryLevels, TopScope
    <3> QED BY <3>1, <3>2, <3>3, <3>4
  <2>2. CASE scopes[d] # Top
    BY <1>0, <1>1, <1>2, <2>2 DEF EntryLevels
  <2> QED BY <2>1, <2>2
<1>6. BuiltinsKept'
  <2> SUFFICES ASSUME NEW e \in Symbol, Has(all_scopes_'[1].buckets, e), e.name \in Builtins
               PROVE  e.module \in {Null, Builtin}
    BY DEF BuiltinsKept
  <2>1. CASE Top = 1
    <3>1. Has(TopScope.buckets, e) \/ e = sym
      BY <1>1, <1>2, <2>1
    <3>2. e = sym => e.module \in {Null, Builtin}
      BY <1>0, <1>1, <2>1 DEF Inserting
    <3>3. Has(TopScope.buckets, e) => e.module \in {Null, Builtin}
      BY <1>0, <2>1 DEF BuiltinsKept, TopScope
    <3> QED BY <3>1, <3>2, <3>3
  <2>2. CASE Top # 1
    BY <1>0, <1>1, <1>2, <2>2 DEF BuiltinsKept
  <2> QED BY <2>1, <2>2
<1> QED BY <1>2, <1>3, <1>4, <1>5, <1>6

-----------------------------------------------------------------------------
(* The loop of resize.  What it has passed after one more entry, after the *)
(* end of a bucket, and after the last one.                                *)
LEMMA PlaceParts ==
    ASSUME NEW c \in Nat \ {0}, NEW bs \in BucketArrays(c)
    PROVE  \A q \in Places(bs) : /\ q = <<q[1], q[2]>> /\ q[1] \in 0..c - 1
                                 /\ q[2] \in 1..Len(bs[q[1]]) /\ q[2] \in Nat \ {0}
  BY EntryType DEF Places

(* Moving one entry passes that entry only. *)
LEMMA PassedEntry ==
    ASSUME NEW c \in Nat \ {0}, NEW bs \in BucketArrays(c),
           NEW i \in 0..c - 1, NEW p \in 1..Len(bs[i])
    PROVE  /\ Passed(bs, i, p + 1) = Passed(bs, i, p) \cup {<<i, p>>}
           /\ <<i, p>> \notin Passed(bs, i, p)
           /\ IsFiniteSet(Passed(bs, i, p))
<1>1. Len(bs[i]) \in Nat
  BY EntryType
<1>2. <<i, p>> \in Places(bs)
  BY PlacesFinite
<1>3. \A q \in Places(bs) : q[1] = i /\ q[2] = p => q = <<i, p>>
  BY PlaceParts
<1>4. \A q \in Places(bs) : (q[1] < i \/ (q[1] = i /\ q[2] < p + 1))
                              <=> (q[1] < i \/ (q[1] = i /\ q[2] < p)) \/ q = <<i, p>>
  BY <1>1, <1>3, PlaceParts
<1>5. Passed(bs, i, p) \in SUBSET Places(bs)
  BY DEF Passed
<1>6. IsFiniteSet(Passed(bs, i, p))
  BY <1>5, PlacesFinite, FS_Subset
<1> QED BY <1>1, <1>2, <1>4, <1>6 DEF Passed

(* At the end of a chain the next bucket begins. *)
LEMMA PassedBucket ==
    ASSUME NEW c \in Nat \ {0}, NEW bs \in BucketArrays(c), NEW i \in 0..c - 1
    PROVE  Passed(bs, i + 1, 1) = Passed(bs, i, Len(bs[i]) + 1)
<1>1. Len(bs[i]) \in Nat
  BY EntryType
<1>2. \A q \in Places(bs) : (q[1] < i + 1 \/ (q[1] = i + 1 /\ q[2] < 1))
                              <=> (q[1] < i \/ (q[1] = i /\ q[2] < Len(bs[i]) + 1))
  BY <1>1, PlaceParts
<1> QED BY <1>2 DEF Passed

(* After the last bucket every entry is passed. *)
LEMMA PassedAll ==
    ASSUME NEW c \in Nat \ {0}, NEW bs \in BucketArrays(c)
    PROVE  Passed(bs, c, 1) = Places(bs)
  BY PlaceParts DEF Passed

(* A table has what lies at one of its places. *)
LEMMA HasPlace ==
    ASSUME NEW c \in Nat \ {0}, NEW bs \in BucketArrays(c), NEW x
    PROVE  Has(bs, x) <=> \E q \in Places(bs) : bs[q[1]][q[2]] = x
<1>1. ASSUME Has(bs, x) PROVE \E q \in Places(bs) : bs[q[1]][q[2]] = x
  <2>1. PICK b \in 0..c - 1 : \E k \in 1..Len(bs[b]) : bs[b][k] = x
    BY <1>1, EntryType DEF Has
  <2>2. PICK k \in 1..Len(bs[b]) : bs[b][k] = x
    BY <2>1
  <2>3. <<b, k>> \in Places(bs)
    BY PlacesFinite
  <2>4. bs[<<b, k>>[1]][<<b, k>>[2]] = x
    BY <2>2
  <2> QED BY <2>3, <2>4
<1>2. ASSUME NEW q \in Places(bs), bs[q[1]][q[2]] = x PROVE Has(bs, x)
  <2>1. q[1] \in DOMAIN bs /\ q[2] \in 1..Len(bs[q[1]])
    BY PlaceParts, EntryType
  <2> QED BY <1>2, <2>1 DEF Has
<1> QED BY <1>1, <1>2

(* Moving an entry to the new buckets keeps IInv. *)
LEMMA MoveStep == IInv /\ ResizeMove => IInv'
<1> SUFFICES ASSUME IInv, ResizeMove PROVE IInv'
  OBVIOUS
<1> DEFINE s  == TopScope
           bs == s.buckets
           c  == s.bucket_count
           e  == bs[bucket][pos]
<1>0. Typed /\ Nested /\ AllSound /\ EntryLevels /\ BuiltinsKept /\ Inserting /\ Resizing
  BY DEF IInv
<1>1. /\ pc = "resize" /\ bucket \in 0..c - 1 /\ pos \in 1..Len(bs[bucket])
      /\ pos \in Nat \ {0} /\ bucket # c /\ Len(bs[bucket]) \in Nat
      /\ s \in Tables /\ c \in Nat \ {0} /\ bs \in BucketArrays(c) /\ Hashed(bs, c)
      /\ 2 * c \in Nat \ {0}
  <2>1. s \in Tables /\ c \in Nat \ {0} /\ bs \in BucketArrays(c) /\ Hashed(bs, c)
    BY TopSound
  <2>2. pc = "resize" /\ bucket \in Nat /\ pos \in Nat \ {0} /\ bucket < c /\ pos <= Len(bs[bucket])
    BY <1>0 DEF Typed, ResizeMove
  <2>3. bucket \in 0..c - 1
    BY <2>1, <2>2
  <2>4. Len(bs[bucket]) \in Nat
    BY <2>1, <2>3, EntryType
  <2> QED BY <2>1, <2>2, <2>3, <2>4
<1>2. /\ all_scopes_' = all_scopes_ /\ scopes' = scopes /\ TopScope' = TopScope
      /\ current_scope_level_' = current_scope_level_
      /\ fresh' = fresh /\ result' = result /\ pc' = pc /\ sym' = sym
      /\ caller' = caller /\ bucket' = bucket
      /\ pos' = pos + 1
      /\ new_buckets' = [new_buckets EXCEPT ![IndexOf(e.name, 2 * c)] =
                             <<e>> \o new_buckets[IndexOf(e.name, 2 * c)]]
  BY DEF ResizeMove, Moved, table, TopScope, Top
<1>3. /\ new_buckets \in BucketArrays(2 * c) /\ Hashed(new_buckets, 2 * c)
      /\ \A x \in Symbol :
             Has(new_buckets, x) <=> \E q \in Passed(bs, bucket, pos) : bs[q[1]][q[2]] = x
      /\ Cardinality(Places(new_buckets)) = Cardinality(Passed(bs, bucket, pos))
  BY <1>0, <1>1 DEF Typed, Resizing
<1>4. e \in Symbol
  BY <1>1, EntryType
<1>5. \A x \in Symbol : Has(new_buckets, x) => x.name # e.name
  <2> SUFFICES ASSUME NEW x \in Symbol, Has(new_buckets, x), x.name = e.name PROVE FALSE
    OBVIOUS
  <2>1. PICK q \in Passed(bs, bucket, pos) : bs[q[1]][q[2]] = x
    BY <1>3
  <2>2. q \in Places(bs) /\ (q[1] < bucket \/ (q[1] = bucket /\ q[2] < pos))
    BY DEF Passed
  <2>3. q[1] \in 0..c - 1 /\ q[2] \in 1..Len(bs[q[1]])
    <3>1. q[1] \in DOMAIN bs /\ q[2] \in 1..Len(bs[q[1]])
      BY <2>2 DEF Places
    <3> HIDE DEF bs, c
    <3>2. DOMAIN bs = 0..c - 1
      BY <1>1, EntryType
    <3> QED BY <3>1, <3>2
  <2>4. q[1] = bucket
    <3> HIDE DEF s, bs, c
    <3>1. IndexOf(bs[q[1]][q[2]].name, c) = q[1]
      BY <1>1, <2>3 DEF Hashed
    <3>2. IndexOf(e.name, c) = bucket
      BY <1>1 DEF Hashed
    <3> QED BY <2>1, <3>1, <3>2
  <2>5. q[2] = pos
    BY <1>1, <2>1, <2>3, <2>4 DEF Hashed
  <2> QED BY <1>1, <2>2, <2>4, <2>5
<1> HIDE DEF e
<1>6. /\ new_buckets' \in BucketArrays(2 * c) /\ Hashed(new_buckets', 2 * c)
      /\ \A x \in Symbol : Has(new_buckets', x) <=> Has(new_buckets, x) \/ x = e
      /\ Cardinality(Places(new_buckets')) = Cardinality(Places(new_buckets)) + 1
  <2> DEFINE new == [new_buckets EXCEPT ![IndexOf(e.name, 2 * c)] =
                         <<e>> \o new_buckets[IndexOf(e.name, 2 * c)]]
             d == 2 * c
  <2>1. d \in Nat \ {0} /\ new_buckets \in BucketArrays(d) /\ Hashed(new_buckets, d)
    BY <1>1, <1>3
  <2> HIDE DEF d
  <2>2. LET i == IndexOf(e.name, d)
            r == [new_buckets EXCEPT ![i] = <<e>> \o new_buckets[i]]
        IN  /\ r \in BucketArrays(d) /\ Hashed(r, d)
            /\ \A x \in Symbol : Has(r, x) <=> Has(new_buckets, x) \/ x = e
            /\ Cardinality(Places(r)) = Cardinality(Places(new_buckets)) + 1
    BY <2>1, <1>4, <1>5, Push
  <2>3. /\ new \in BucketArrays(2 * c) /\ Hashed(new, 2 * c)
        /\ \A x \in Symbol : Has(new, x) <=> Has(new_buckets, x) \/ x = e
        /\ Cardinality(Places(new)) = Cardinality(Places(new_buckets)) + 1
    BY <2>2 DEF d
  <2>4. new_buckets' = new
    BY <1>2
  <2> HIDE DEF new
  <2> QED BY <2>3, <2>4
<1>7. /\ Passed(bs, bucket, pos + 1) = Passed(bs, bucket, pos) \cup {<<bucket, pos>>}
      /\ <<bucket, pos>> \notin Passed(bs, bucket, pos)
      /\ IsFiniteSet(Passed(bs, bucket, pos))
  <2> HIDE DEF s, bs, c
  <2> QED BY <1>1, PassedEntry
<1>8. Cardinality(Passed(bs, bucket, pos + 1)) = Cardinality(Passed(bs, bucket, pos)) + 1
  BY <1>7, FS_AddElement
<1>9. \A x \in Symbol :
          Has(new_buckets', x) <=> \E q \in Passed(bs, bucket, pos + 1) : bs[q[1]][q[2]] = x
  BY <1>3, <1>6, <1>7 DEF e
<1> HIDE DEF s, bs, c
<1>10. Typed'
  BY <1>0, <1>1, <1>2, <1>6 DEF Typed, c, s
<1>11. Nested' /\ AllSound' /\ EntryLevels' /\ BuiltinsKept'
  BY <1>0, <1>2 DEF Nested, AllSound, EntryLevels, BuiltinsKept
<1>12. Inserting'
  BY <1>0, <1>2 DEF Inserting
<1>13. Resizing'
  <2>1. bucket <= c /\ pos + 1 <= Len(bs[bucket]) + 1
    BY <1>1
  <2>2. Cardinality(Places(new_buckets')) = Cardinality(Passed(bs, bucket, pos + 1))
    BY <1>3, <1>6, <1>8
  <2> QED BY <1>1, <1>2, <1>6, <1>9, <2>1, <2>2 DEF Resizing, c, bs, s
<1> QED BY <1>10, <1>11, <1>12, <1>13 DEF IInv

(* Going on to the next bucket keeps IInv. *)
LEMMA NextBucketStep == IInv /\ ResizeNextBucket => IInv'
<1> SUFFICES ASSUME IInv, ResizeNextBucket PROVE IInv'
  OBVIOUS
<1> DEFINE bs == TopScope.buckets
           c  == TopScope.bucket_count
<1>0. Typed /\ Nested /\ AllSound /\ EntryLevels /\ BuiltinsKept /\ Inserting /\ Resizing
  BY DEF IInv
<1>1. c \in Nat \ {0} /\ bs \in BucketArrays(c)
  BY TopSound
<1>2. pc = "resize" /\ bucket \in Nat /\ pos \in Nat \ {0} /\ bucket < c /\ pos > Len(bs[bucket])
  BY <1>0 DEF Typed, ResizeNextBucket
<1>3. bucket \in 0..c - 1 /\ bucket # c /\ bucket + 1 \in Nat /\ bucket + 1 <= c
  BY <1>1, <1>2
<1>4. pos <= Len(bs[bucket]) + 1
  BY <1>0, <1>2, <1>3 DEF Resizing
<1>5. pos = Len(bs[bucket]) + 1
  BY <1>1, <1>2, <1>3, <1>4, EntryType
<1>6. Passed(bs, bucket + 1, 1) = Passed(bs, bucket, pos)
  <2> HIDE DEF bs, c
  <2> QED BY <1>1, <1>3, <1>5, PassedBucket
<1>7. bucket + 1 # c => 1 <= Len(bs[bucket + 1]) + 1
  <2> SUFFICES ASSUME bucket + 1 # c PROVE 1 <= Len(bs[bucket + 1]) + 1
    OBVIOUS
  <2>1. bucket + 1 \in 0..c - 1
    BY <1>1, <1>3
  <2>2. Len(bs[bucket + 1]) \in Nat
    BY <1>1, <2>1, EntryType
  <2> QED BY <2>2
<1>8. /\ all_scopes_' = all_scopes_ /\ scopes' = scopes /\ TopScope' = TopScope
      /\ current_scope_level_' = current_scope_level_
      /\ fresh' = fresh /\ result' = result /\ pc' = pc /\ sym' = sym /\ caller' = caller
      /\ new_buckets' = new_buckets /\ bucket' = bucket + 1 /\ pos' = 1
  BY DEF ResizeNextBucket, table, TopScope, Top
<1>9. Typed'
  BY <1>0, <1>3, <1>8 DEF Typed
<1>10. Nested' /\ AllSound' /\ EntryLevels' /\ BuiltinsKept'
  BY <1>0, <1>8 DEF Nested, AllSound, EntryLevels, BuiltinsKept
<1>11. Inserting'
  BY <1>0, <1>8 DEF Inserting
<1>12. Resizing'
  BY <1>0, <1>2, <1>3, <1>6, <1>7, <1>8 DEF Resizing
<1> QED BY <1>9, <1>10, <1>11, <1>12 DEF IInv
(* The new buckets hold what the old ones did. *)
LEMMA DoneStep ==
    ASSUME IInv, ResizeDone
    PROVE  /\ IInv'
           /\ \A e \in Symbol : Has(TopScope'.buckets, e) <=> Has(TopScope.buckets, e)
<1> DEFINE s  == TopScope
           bs == s.buckets
           c  == s.bucket_count
           t  == Resized(s)
<1>0. Typed /\ Nested /\ AllSound /\ EntryLevels /\ BuiltinsKept /\ Inserting /\ Resizing
  BY DEF IInv
<1>1. /\ Top \in 1..Len(all_scopes_) /\ s \in Tables /\ c \in Nat \ {0} /\ s.symbol_count \in Nat
      /\ bs \in BucketArrays(c) /\ Hashed(bs, c)
      /\ s.symbol_count = Cardinality(Places(bs)) /\ 4 * s.symbol_count <= 3 * c
  BY TopSound
<1>2. pc = "resize" /\ bucket = c /\ pos = 1
  BY <1>0 DEF ResizeDone, Resizing
<1>3. /\ new_buckets \in BucketArrays(2 * c) /\ Hashed(new_buckets, 2 * c)
      /\ \A x \in Symbol :
             Has(new_buckets, x) <=> \E q \in Passed(bs, c, 1) : bs[q[1]][q[2]] = x
      /\ Cardinality(Places(new_buckets)) = Cardinality(Passed(bs, c, 1))
  BY <1>0, <1>2 DEF Typed, Resizing
<1>4. Passed(bs, c, 1) = Places(bs)
  <2> HIDE DEF bs, c
  <2> QED BY <1>1, PassedAll
<1>5. \A x \in Symbol : Has(new_buckets, x) <=> Has(bs, x)
  <2> HIDE DEF bs, c
  <2>1. \A x : Has(bs, x) <=> \E q \in Places(bs) : bs[q[1]][q[2]] = x
    BY <1>1, HasPlace
  <2> QED BY <1>3, <1>4, <2>1
<1>6. /\ t.bucket_count = 2 * c /\ t.symbol_count = s.symbol_count /\ t.buckets = new_buckets
      /\ t \in Tables
  BY <1>1, <1>3, TableResized
<1>8. 4 * (s.symbol_count + 1) <= 3 * (2 * c)
  BY <1>1
<1>9. Sound(t)
  BY <1>1, <1>3, <1>4, <1>6 DEF Sound
<1>10. /\ all_scopes_' = [all_scopes_ EXCEPT ![Top] = t]
       /\ scopes' = scopes /\ current_scope_level_' = current_scope_level_
       /\ pc' = "put" /\ new_buckets' = <<>> /\ bucket' = 0 /\ pos' = 1
       /\ fresh' = fresh /\ result' = result /\ sym' = sym /\ caller' = caller
  BY DEF ResizeDone, TopScope
<1> HIDE DEF t
<1>11. /\ all_scopes_' \in Seq(Tables) /\ Len(all_scopes_') = Len(all_scopes_)
       /\ TopScope' = t
       /\ Nested' /\ AllSound' /\ EntryLevels' /\ BuiltinsKept'
  BY <1>2, <1>5, <1>6, <1>9, <1>10, TopChanged
<1>12. Typed'
  BY <1>0, <1>2, <1>10, <1>11 DEF Typed
<1>13. Inserting'
  BY <1>0, <1>2, <1>5, <1>6, <1>8, <1>10, <1>11 DEF Inserting
<1>14. Resizing'
  BY <1>10 DEF Resizing
<1>15. \A e \in Symbol : Has(TopScope'.buckets, e) <=> Has(TopScope.buckets, e)
  BY <1>5, <1>6, <1>11
<1> QED BY <1>11, <1>12, <1>13, <1>14, <1>15 DEF IInv

(* After Put the innermost scope has the symbol, and no other of its name. *)
LEMMA PutStep ==
    ASSUME IInv, Put
    PROVE  /\ IInv' /\ Top' = Top
           /\ \A i \in 1..Len(all_scopes_) \ {Top} : all_scopes_'[i] = all_scopes_[i]
           /\ \A x \in Symbol : Has(TopScope'.buckets, x)
                                  <=> x = sym \/ (Has(TopScope.buckets, x) /\ x.name # sym.name)
<1> DEFINE s  == TopScope
           bs == s.buckets
           c  == s.bucket_count
           i  == IndexOf(sym.name, c)
           hits == {k \in 1..Len(bs[i]) : Replaces(bs[i][k])}
           t  == PutInto(s)
<1>0. Typed /\ Nested /\ AllSound /\ EntryLevels /\ BuiltinsKept /\ Inserting
  BY DEF IInv
<1>1. /\ Top \in 1..Len(all_scopes_) /\ s \in Tables /\ c \in Nat \ {0} /\ s.symbol_count \in Nat
      /\ bs \in BucketArrays(c) /\ Hashed(bs, c)
      /\ s.symbol_count = Cardinality(Places(bs)) /\ 4 * s.symbol_count <= 3 * c
  BY TopSound
<1>2. /\ pc = "put" /\ sym \in Symbol /\ sym.name \in Names /\ sym.id = fresh
      /\ fresh \in 1..MaxSymbols /\ MaxSymbols \in Nat
      /\ 4 * (s.symbol_count + 1) <= 3 * c
      /\ sym.module # Null => \A x \in Symbol : Has(bs, x) => x.name # sym.name
  BY <1>0, SymbolTableConstants DEF Put, Typed, Inserting, Symbol
<1>3. i \in 0..c - 1
  BY <1>1, <1>2, IndexInRange
<1>4. \A k \in 1..Len(bs[i]) : bs[i][k] \in Symbol /\ Has(bs, bs[i][k])
  BY <1>1, <1>3, EntryType DEF Has
<1>5. hits = {k \in 1..Len(bs[i]) : bs[i][k].name = sym.name}
  BY <1>2, <1>4 DEF Replaces
<1>6. t = [s EXCEPT !.buckets = [bs EXCEPT ![i] =
                                     IF hits # {} THEN [bs[i] EXCEPT ![FirstOf(hits)] = sym]
                                     ELSE <<sym>> \o bs[i]],
                    !.symbol_count = IF hits # {} THEN s.symbol_count ELSE s.symbol_count + 1]
  BY DEF PutInto
<1> HIDE DEF hits, t
<1>7. /\ t \in Tables /\ Sound(t)
      /\ \A x \in Symbol : Has(t.buckets, x) <=> x = sym \/ (Has(bs, x) /\ x.name # sym.name)
  <2>1. CASE hits # {}
    <3>1. PICK k \in hits : TRUE
      BY <2>1
    <3>2. k \in 1..Len(bs[i]) /\ bs[i][k].name = sym.name
      BY <1>5
    <3>3. hits = {k}
      <4>1. \A j \in 1..Len(bs[i]) : bs[i][j].name = bs[i][k].name => j = k
        BY <1>1, <1>3, <3>2 DEF Hashed
      <4> QED BY <1>5, <3>2, <4>1
    <3>4. FirstOf(hits) = k
      <4>1. k <= k
        BY <1>1, <1>3, <3>2, EntryType
      <4> QED BY <3>3, <4>1 DEF FirstOf
    <3> DEFINE new == [bs EXCEPT ![i] = [bs[i] EXCEPT ![k] = sym]]
    <3>5. t = Updated(s, new, s.symbol_count)
      BY <1>6, <2>1, <3>4 DEF Updated
    <3>6. /\ new \in BucketArrays(c) /\ Hashed(new, c)
          /\ \A x \in Symbol : Has(new, x) <=> x = sym \/ (Has(bs, x) /\ x.name # sym.name)
          /\ Places(new) = Places(bs)
      <4> HIDE DEF bs, c
      <4> QED BY <1>1, <1>2, <3>2, Replace
    <3> HIDE DEF new
    <3>7. /\ t \in Tables /\ t.bucket_count = c
          /\ t.symbol_count = s.symbol_count /\ t.buckets = new
      BY <1>1, <3>5, <3>6, TableUpdated
    <3> QED BY <1>1, <3>6, <3>7 DEF Sound
  <2>2. CASE hits = {}
    <3> DEFINE new == [bs EXCEPT ![i] = <<sym>> \o bs[i]]
    <3>1. t = Updated(s, new, s.symbol_count + 1)
      BY <1>6, <2>2 DEF Updated
    <3>2. \A x \in Symbol : Has(bs, x) => x.name # sym.name
      <4> SUFFICES ASSUME NEW x \in Symbol, Has(bs, x), x.name = sym.name PROVE FALSE
        OBVIOUS
      <4>1. PICK b \in 0..c - 1 : \E k \in 1..Len(bs[b]) : bs[b][k] = x
        BY <1>1, EntryType DEF Has
      <4>2. PICK k \in 1..Len(bs[b]) : bs[b][k] = x
        BY <4>1
      <4>3. b = i
        BY <1>1, <4>2 DEF Hashed
      <4> QED BY <1>5, <2>2, <4>2, <4>3
    <3>3. /\ new \in BucketArrays(c) /\ Hashed(new, c)
          /\ \A x \in Symbol : Has(new, x) <=> Has(bs, x) \/ x = sym
          /\ Cardinality(Places(new)) = Cardinality(Places(bs)) + 1
      <4> HIDE DEF bs, c
      <4> QED BY <1>1, <1>2, <3>2, Push
    <3> HIDE DEF new
    <3>4. /\ t \in Tables /\ t.bucket_count = c
          /\ t.symbol_count = s.symbol_count + 1 /\ t.buckets = new
      <4>1. s.symbol_count + 1 \in Nat
        BY <1>1
      <4> QED BY <1>1, <3>1, <3>3, <4>1, TableUpdated
    <3> QED BY <1>1, <1>2, <3>2, <3>3, <3>4 DEF Sound
  <2> QED BY <2>1, <2>2
<1>8. /\ all_scopes_' = [all_scopes_ EXCEPT ![Top] = t]
      /\ scopes' = scopes /\ current_scope_level_' = current_scope_level_
      /\ pc' = "idle" /\ sym' = NoSym /\ caller' = "none"
      /\ fresh' = fresh + 1 /\ result' = fresh
      /\ new_buckets' = new_buckets /\ bucket' = bucket /\ pos' = pos
  BY <1>2 DEF Put, Returns, TopScope, loop, t
<1> HIDE DEF t
<1>9. /\ all_scopes_' \in Seq(Tables) /\ Len(all_scopes_') = Len(all_scopes_)
      /\ Top' = Top /\ TopScope' = t
      /\ \A j \in 1..Len(all_scopes_) \ {Top} : all_scopes_'[j] = all_scopes_[j]
      /\ Nested' /\ AllSound' /\ EntryLevels' /\ BuiltinsKept'
  BY <1>2, <1>7, <1>8, TopChanged
<1>10. Typed'
  BY <1>0, <1>2, <1>8, <1>9 DEF Typed
<1>11. Inserting' /\ Resizing'
  BY <1>8 DEF Inserting, Resizing
<1> QED BY <1>7, <1>9, <1>10, <1>11 DEF IInv
-----------------------------------------------------------------------------
(* Every step keeps IInv. *)
LEMMA Preserved == IInv /\ [Next]_vars => IInv'
<1> SUFFICES ASSUME IInv, [Next]_vars PROVE IInv'
  OBVIOUS
<1>0. /\ Top \in 1..Len(all_scopes_) /\ 1 \in 1..Len(all_scopes_)
      /\ 0 \in 0..MaxSymbols /\ Builtins \subseteq Names
  BY TopIsTable, SymbolTableConstants DEF IInv
<1>1. ASSUME NEW n \in Names, NEW module, insertRejected(n, module) PROVE IInv'
  BY <1>0, <1>1, AnswerStep DEF insertRejected, Returns
<1>2. ASSUME NEW n \in Builtins, injectRuntimeSymbol(n) PROVE IInv'
  <2>1. n \in Names
    BY <1>0
  <2> QED BY <1>1, <1>2, <2>1, InsertStep DEF injectRuntimeSymbol
<1>3. CASE enterScope
  BY <1>3, EnterStep
<1>4. CASE exitScope
  BY <1>4, ExitStep
<1>5. ASSUME NEW n \in Names, Injected, insert(n, DeclaredIn) PROVE IInv'
  BY <1>5, InsertStep
<1>6. ASSUME NEW n \in Names, registerTempSymbol(n) PROVE IInv'
  BY <1>6, BeginStep DEF registerTempSymbol
<1>7. ASSUME NEW n \in Names, lookup(n) PROVE IInv'
  BY <1>7, LookupInRange, AnswerStep DEF lookup, Reads, Returns
<1>8. ASSUME NEW n \in Names, lookupInCurrentScope(n) PROVE IInv'
  BY <1>0, <1>8, AnswersInRange, AnswerStep DEF lookupInCurrentScope, Reads, Returns, TopScope
<1>9. ASSUME NEW n \in Names, lookupWithModule(current_module_, n) PROVE IInv'
  BY <1>0, <1>9, AnswersInRange, AnswerStep DEF lookupWithModule, Reads, Returns
<1>10. ASSUME NEW n \in Names, NEW preferred, findInAnyScope(n, preferred) PROVE IInv'
  BY <1>10, AnyInRange, AnswerStep DEF findInAnyScope, Reads, Returns
<1>11. CASE ResizeMove
  BY <1>11, MoveStep
<1>12. CASE ResizeNextBucket
  BY <1>12, NextBucketStep
<1>13. CASE ResizeDone
  BY <1>13, DoneStep
<1>14. CASE Put
  BY <1>14, PutStep
<1>15. CASE UNCHANGED vars
  <2>1. UNCHANGED <<table, fresh, work>> /\ result' = result
    BY <1>15 DEF vars
  <2>2. result' \in 0..MaxSymbols
    BY <2>1 DEF IInv, Typed
  <2> QED BY <2>1, <2>2, AnswerStep
<1> QED BY <1>1, <1>2, <1>3, <1>4, <1>5, <1>6, <1>7, <1>8, <1>9, <1>10, <1>11,
           <1>12, <1>13, <1>14, <1>15 DEF Next

(* IInv is an invariant of the symbol table. *)
LEMMA Invariance == Spec => []IInv
<1>1. Init => IInv
  BY Initially
<1>2. IInv /\ [Next]_vars => IInv'
  BY Preserved
<1> QED BY <1>1, <1>2, PTL DEF Spec

(* Whatever is inserted, looked up, entered and left, in any order, and at *)
(* every step of a resize, the tables are well formed: every symbol hangs  *)
(* in the chain its name hashes to, no scope holds a name twice, the count *)
(* the load factor rests on is the number of entries and keeps within it,  *)
(* and a symbol's level is the depth of its scope.                         *)
THEOREM TablesSound == Spec => []TableInv
  BY Invariance, Implied, PTL
-----------------------------------------------------------------------------
(* The refinement.  The maps the tables stand for: *)
AllMaps == [i \in 1..Len(all_scopes_) |-> MapOf(all_scopes_[i])]

(* All four searches agree on a scope of one module. *)
LEMMA OneAnswer ==
    ASSUME IInv, NEW n \in Names, NEW i \in 1..Len(all_scopes_)
    PROVE  /\ AllMaps[i][n] = find(all_scopes_[i], n, Null)
           /\ find(all_scopes_[i], n, current_module_) = AllMaps[i][n]
           /\ findEither(all_scopes_[i], n) = AllMaps[i][n]
           /\ \A preferred \in {Null, current_module_} :
                  findPreferred(all_scopes_[i], n, preferred) = AllMaps[i][n]
<1>1. all_scopes_[i] \in Tables /\ Hashed(all_scopes_[i].buckets, all_scopes_[i].bucket_count)
  <2>1. all_scopes_[i] \in Tables
    BY DEF IInv, Typed
  <2>2. Sound(all_scopes_[i])
    BY DEF IInv, AllSound
  <2> QED BY <2>1, <2>2 DEF Sound
<1>2. find(all_scopes_[i], n, current_module_) = find(all_scopes_[i], n, Null)
  BY <1>1, FiltersAgree
<1>3. AllMaps[i][n] = find(all_scopes_[i], n, Null)
  BY DEF AllMaps, MapOf
<1> QED BY <1>2, <1>3 DEF findEither, findPreferred

(* lookup answers what the lexical scopes mean. *)
LEMMA LookupIsMeaning ==
    ASSUME IInv, NEW n \in Names
    PROVE  LookupResult(n) = Scopes!Meaning(n)
<1>1. Len(scopes) \in Nat /\ \A d \in 1..Len(scopes) : scopes[d] \in 1..Len(all_scopes_)
  BY TopIsTable DEF IInv
<1>2. Scopes!Visible(n) = {d \in 1..Len(scopes) : AllMaps[scopes[d]][n] # 0}
  BY DEF Scopes!Visible, AllMaps
<1>3. LookupFound(n) = Scopes!Visible(n)
  BY <1>1, <1>2, OneAnswer DEF LookupFound
<1>4. LookupFound(n) # {} => LastOf(LookupFound(n)) \in 1..Len(scopes)
  BY <1>1, LastExists DEF LookupFound
<1>5. LookupFound(n) # {} =>
         findEither(all_scopes_[scopes[LastOf(LookupFound(n))]], n)
           = AllMaps[scopes[LastOf(LookupFound(n))]][n]
  BY <1>1, <1>4, OneAnswer
<1>6. Scopes!Meaning(n) = IF LookupFound(n) = {} THEN 0
                          ELSE AllMaps[scopes[LastOf(LookupFound(n))]][n]
  BY <1>3 DEF Scopes!Meaning, LastOf, AllMaps
<1> QED BY <1>5, <1>6 DEF LookupResult

(* The search of all scopes answers with the latest. *)
LEMMA AnyIsLatest ==
    ASSUME IInv, NEW n \in Names, NEW preferred \in {Null, current_module_}
    PROVE  AnyResult(n, preferred) = Scopes!Latest(n)
<1> DEFINE known == {i \in 1..Len(all_scopes_) : AllMaps[i][n] # 0}
<1>1. Len(all_scopes_) \in Nat /\ Len(AllMaps) = Len(all_scopes_)
  BY TopIsTable DEF IInv, AllMaps
<1>2. Scopes!Known(n) = known
  BY <1>1 DEF Scopes!Known, AllMaps
<1>3. known = {i \in 1..Len(all_scopes_) : findPreferred(all_scopes_[i], n, preferred) # 0}
  BY OneAnswer
<1>4. known # {} => LastOf(known) \in 1..Len(all_scopes_)
  BY <1>1, LastExists
<1>5. known = {i \in 1..Len(all_scopes_) : find(all_scopes_[i], n, Null) # 0}
  BY OneAnswer
<1> HIDE DEF known
<1>6. Scopes!Latest(n) = IF known = {} THEN 0 ELSE AllMaps[LastOf(known)][n]
  BY <1>2 DEF Scopes!Latest, LastOf, AllMaps
<1>7. AnyResult(n, preferred) =
         IF known = {} THEN 0 ELSE findPreferred(all_scopes_[LastOf(known)], n, preferred)
  BY <1>3, <1>5 DEF AnyResult
<1>8. known # {} => findPreferred(all_scopes_[LastOf(known)], n, preferred)
                      = AllMaps[LastOf(known)][n]
  BY <1>4, OneAnswer
<1> QED BY <1>6, <1>7, <1>8
(* A new scope maps no name. *)
LEMMA EmptyMap == MapOf(NewScope) = Scopes!Empty
<1>1. \A n \in Names : find(NewScope, n, Null) = 0
  BY FreshScope, FindsNone
<1> QED BY <1>1 DEF MapOf, Scopes!Empty

(* The initial table is the initial nest of scopes. *)
LEMMA InitRefined == Init => Scopes!Init
<1> SUFFICES ASSUME Init PROVE Scopes!Init
  OBVIOUS
<1>1. Len(all_scopes_) = 1 /\ all_scopes_[1] = NewScope
  BY DEF Init
<1>2. [i \in 1..Len(all_scopes_) |-> MapOf(all_scopes_[i])] = <<Scopes!Empty>>
  <2>1. [i \in 1..1 |-> MapOf(all_scopes_[i])] = <<MapOf(NewScope)>>
    BY <1>1
  <2> QED BY <1>1, <2>1, EmptyMap
<1> QED BY <1>2 DEF Init, Scopes!Init

(* Steps that leave the maps, the open scopes and the last answer alone.   *)
LEMMA Stutters ==
    ASSUME AllMaps' = AllMaps, scopes' = scopes, fresh' = fresh, call' = call, result' = result
    PROVE  UNCHANGED Scopes!vars
  BY DEF Scopes!vars, AllMaps

(* enterScope enters an abstract scope. *)
LEMMA EnterRefined ==
    ASSUME IInv, enterScope
    PROVE  Scopes!Enter
<1>1. all_scopes_ \in Seq(Tables) /\ Len(all_scopes_) \in Nat
  BY TopIsTable DEF IInv, Typed
<1>2. /\ Len(all_scopes_') = Len(all_scopes_) + 1
      /\ all_scopes_'[Len(all_scopes_) + 1] = NewScope
      /\ \A i \in 1..Len(all_scopes_) : all_scopes_'[i] = all_scopes_[i]
  BY <1>1, FreshScope DEF enterScope
<1>3. Len(AllMaps) = Len(all_scopes_)
  BY <1>1 DEF AllMaps
<1>4. AllMaps' = Append(AllMaps, Scopes!Empty)
  <2>1. AllMaps' = [i \in 1..Len(all_scopes_) + 1 |-> MapOf(all_scopes_'[i])]
    BY <1>2 DEF AllMaps
  <2>2. \A i \in 1..Len(all_scopes_) + 1 :
           MapOf(all_scopes_'[i]) = IF i = Len(all_scopes_) + 1 THEN Scopes!Empty ELSE AllMaps[i]
    <3> TAKE i \in 1..Len(all_scopes_) + 1
    <3>1. CASE i = Len(all_scopes_) + 1
      BY <1>2, <3>1, EmptyMap
    <3>2. CASE i # Len(all_scopes_) + 1
      <4>1. i \in 1..Len(all_scopes_)
        BY <1>1, <3>2
      <4> QED BY <1>2, <3>2, <4>1 DEF AllMaps
    <3> QED BY <3>1, <3>2
  <2>3. Append(AllMaps, Scopes!Empty) =
           [i \in 1..Len(all_scopes_) + 1 |->
               IF i = Len(all_scopes_) + 1 THEN Scopes!Empty ELSE AllMaps[i]]
    <3> DEFINE l == Len(all_scopes_)
               T == {AllMaps[i] : i \in 1..l} \cup {Scopes!Empty}
               f == [i \in 1..l + 1 |-> IF i = l + 1 THEN Scopes!Empty ELSE AllMaps[i]]
               g == Append(AllMaps, Scopes!Empty)
    <3>1. AllMaps \in Seq(T) /\ Scopes!Empty \in T
      BY <1>1 DEF AllMaps
    <3>2. f \in Seq(T) /\ Len(f) = l + 1
      BY <1>1
    <3> HIDE DEF T
    <3>3. /\ g \in Seq(T) /\ Len(g) = l + 1 /\ g[l + 1] = Scopes!Empty
          /\ \A i \in 1..l : g[i] = AllMaps[i]
      BY <1>1, <1>3, <3>1
    <3>4. \A i \in 1..l + 1 : g[i] = f[i]
      BY <1>1, <3>3
    <3> HIDE DEF f, g
    <3>5. g = f
      BY <3>2, <3>3, <3>4, SeqEqual
    <3> QED BY <3>5 DEF f, g
  <2> QED BY <2>1, <2>2, <2>3
<1> QED BY <1>3, <1>4 DEF enterScope, Returns, Scopes!Enter, Scopes!Answers, AllMaps

(* A finished resize is invisible. *)
LEMMA DoneRefined ==
    ASSUME IInv, ResizeDone
    PROVE  UNCHANGED Scopes!vars
<1>1. IInv' /\ \A e \in Symbol : Has(TopScope'.buckets, e) <=> Has(TopScope.buckets, e)
  BY DoneStep
<1>2. /\ TopScope \in Tables /\ Hashed(TopScope.buckets, TopScope.bucket_count)
      /\ Top \in 1..Len(all_scopes_) /\ all_scopes_ \in Seq(Tables)
  BY TopSound DEF IInv, Typed
<1>3. (TopScope \in Tables /\ Hashed(TopScope.buckets, TopScope.bucket_count))'
  BY <1>1, TopSound, PTL
<1>4. MapOf(TopScope') = MapOf(TopScope)
  BY <1>1, <1>2, <1>3, SameEntriesSameMap
<1>5. /\ scopes' = scopes /\ fresh' = fresh /\ call' = call /\ result' = result
      /\ all_scopes_' = [all_scopes_ EXCEPT ![Top] = Resized(TopScope)]
  BY DEF ResizeDone, TopScope
<1>6. Len(all_scopes_') = Len(all_scopes_) /\ Top' = Top
      /\ \A i \in 1..Len(all_scopes_) : i # Top => all_scopes_'[i] = all_scopes_[i]
  BY <1>2, <1>5 DEF Top
<1>7. \A i \in 1..Len(all_scopes_) : MapOf(all_scopes_'[i]) = MapOf(all_scopes_[i])
  BY <1>4, <1>6 DEF TopScope
<1>8. AllMaps' = AllMaps
  BY <1>6, <1>7 DEF AllMaps
<1> QED BY <1>5, <1>8, Stutters

(* Linking a symbol into its chain binds its name: as a declaration when   *)
(* insert asked for it, which has checked that the name is unbound.        *)
LEMMA PutRefined ==
    ASSUME IInv, Put
    PROVE  \E n \in Names : Scopes!Declare(n) \/ Scopes!Generate(n)
<1>1. /\ IInv' /\ Top' = Top
      /\ \A i \in 1..Len(all_scopes_) \ {Top} : all_scopes_'[i] = all_scopes_[i]
      /\ \A x \in Symbol : Has(TopScope'.buckets, x)
                             <=> x = sym \/ (Has(TopScope.buckets, x) /\ x.name # sym.name)
  BY PutStep
<1>2. /\ TopScope \in Tables /\ Hashed(TopScope.buckets, TopScope.bucket_count)
      /\ Top \in 1..Len(all_scopes_) /\ all_scopes_ \in Seq(Tables)
  BY TopSound DEF IInv, Typed
<1>3. (TopScope \in Tables /\ Hashed(TopScope.buckets, TopScope.bucket_count))'
  BY <1>1, TopSound, PTL
<1>4. sym \in Symbol /\ sym.name \in Names /\ sym.id = fresh /\ fresh <= MaxSymbols
  <2>1. sym \in Symbol /\ sym.id = fresh /\ MaxSymbols \in Nat
    BY SymbolTableConstants DEF IInv, Typed, Inserting, Put
  <2> QED BY <2>1 DEF Symbol
<1>5. \A n \in Names : find(TopScope', n, Null) =
                          IF n = sym.name THEN fresh ELSE find(TopScope, n, Null)
  <2> TAKE n \in Names
  <2>1. \A e \in Symbol : Matches(e, Null)
    BY DEF Matches
  <2>2. CASE n = sym.name
    <3>1. Has(TopScope'.buckets, sym)
      BY <1>1, <1>4
    <3>2. find(TopScope', sym.name, Null) = sym.id
      BY <1>3, <1>4, <2>1, <3>1, FindsEntry
    <3> QED BY <1>4, <2>2, <3>2
  <2>3. CASE n # sym.name /\ \E e \in Symbol : Has(TopScope.buckets, e) /\ e.name = n
    <3>1. PICK e \in Symbol : Has(TopScope.buckets, e) /\ e.name = n
      BY <2>3
    <3>2. Has(TopScope'.buckets, e)
      BY <1>1, <2>3, <3>1
    <3>3. find(TopScope', e.name, Null) = e.id
      BY <1>3, <2>1, <3>2, FindsEntry
    <3>4. find(TopScope, e.name, Null) = e.id
      BY <1>2, <2>1, <3>1, FindsEntry
    <3> QED BY <2>3, <3>1, <3>3, <3>4
  <2>4. CASE n # sym.name /\ ~\E e \in Symbol : Has(TopScope.buckets, e) /\ e.name = n
    <3>1. ~\E e \in Symbol : Has(TopScope'.buckets, e) /\ e.name = n
      BY <1>1, <2>4
    <3>2. find(TopScope', n, Null) = 0
      BY <1>3, <3>1, FindsNone
    <3>3. find(TopScope, n, Null) = 0
      BY <1>2, <2>4, FindsNone
    <3> QED BY <2>4, <3>2, <3>3
  <2> QED BY <2>2, <2>3, <2>4
<1>6. MapOf(TopScope') = [MapOf(TopScope) EXCEPT ![sym.name] = fresh]
  BY <1>4, <1>5 DEF MapOf
<1>7. scopes' = scopes /\ Len(all_scopes_') = Len(all_scopes_)
      /\ fresh' = fresh + 1 /\ result' = fresh /\ call' = <<caller, sym.name>>
  <2>1. all_scopes_' = [all_scopes_ EXCEPT ![Top] = PutInto(TopScope)]
    BY DEF Put, TopScope
  <2> QED BY <1>2, <1>4, <2>1 DEF Put, Returns
<1>8. AllMaps' = [AllMaps EXCEPT ![Top] = [AllMaps[Top] EXCEPT ![sym.name] = fresh]]
  <2>1. AllMaps' = [i \in 1..Len(all_scopes_) |-> MapOf(all_scopes_'[i])]
    BY <1>7 DEF AllMaps
  <2>2. /\ MapOf(all_scopes_'[Top]) = [AllMaps[Top] EXCEPT ![sym.name] = fresh]
        /\ \A i \in 1..Len(all_scopes_) \ {Top} : MapOf(all_scopes_'[i]) = AllMaps[i]
    BY <1>1, <1>2, <1>6 DEF AllMaps, TopScope
  <2>3. AllMaps = [i \in 1..Len(all_scopes_) |-> AllMaps[i]]
    BY DEF AllMaps
  <2> QED BY <1>2, <2>1, <2>2, <2>3
<1>9. Scopes!Bind(caller, sym.name)
  BY <1>4, <1>7, <1>8 DEF Scopes!Bind, Scopes!Answers, Scopes!Innermost, AllMaps, Top
<1>10. caller \in {"insert", "registerTempSymbol"}
  BY DEF IInv, Typed, Put
<1>11. ASSUME caller = "insert"
       PROVE  AllMaps[Top][sym.name] = 0
  <2>1. \A e \in Symbol : Has(TopScope.buckets, e) => e.name # sym.name
    BY <1>11 DEF IInv, Inserting, Put
  <2>2. find(TopScope, sym.name, Null) = 0
    BY <1>2, <1>4, <2>1, FindsNone
  <2> QED BY <1>2, <1>4, <2>2, OneAnswer DEF TopScope
<1>12. CASE caller = "insert"
  BY <1>4, <1>9, <1>11, <1>12 DEF Scopes!Declare, Scopes!Innermost, AllMaps, Top
<1>13. CASE caller = "registerTempSymbol"
  BY <1>4, <1>9, <1>13 DEF Scopes!Generate
<1> QED BY <1>10, <1>12, <1>13
(* Every step of the tables is a step of lexical scopes, or none. *)
LEMMA StepRefined == IInv /\ [Next]_vars => [Scopes!Next]_(Scopes!vars)
<1> SUFFICES ASSUME IInv, [Next]_vars PROVE [Scopes!Next]_(Scopes!vars)
  OBVIOUS
<1>0. /\ Top \in 1..Len(all_scopes_) /\ 1 \in 1..Len(all_scopes_)
      /\ Builtins \subseteq Names
      /\ TopScope \in Tables /\ Hashed(TopScope.buckets, TopScope.bucket_count)
      /\ Scopes!Innermost = Top
  BY TopIsTable, TopSound, SymbolTableConstants DEF IInv, Scopes!Innermost, Top
<1>1. ASSUME NEW n \in Names, NEW module, insertRejected(n, module)
      PROVE  Scopes!Redeclare(n)
  <2>1. find(TopScope, n, Null) # 0
    <3>1. PICK e \in Symbol : Has(TopScope.buckets, e) /\ e.name = n
      BY <1>0, <1>1, FoundIffEntry DEF insertRejected
    <3>2. Matches(e, Null)
      BY DEF Matches
    <3> QED BY <1>0, <3>1, <3>2, FoundIffEntry
  <2>2. AllMaps[Scopes!Innermost][n] # 0
    BY <1>0, <2>1, OneAnswer DEF TopScope
  <2>3. /\ call' = <<"insert", n>> /\ result' = 0
        /\ all_scopes_' = all_scopes_ /\ scopes' = scopes /\ fresh' = fresh
    BY <1>1 DEF insertRejected, Returns, table
  <2> QED BY <2>2, <2>3 DEF Scopes!Redeclare, Scopes!Ask, Scopes!Answers, AllMaps
<1>2. ASSUME NEW n, NEW module, NEW function, Begin(function, n, module)
      PROVE  UNCHANGED Scopes!vars
  <2>1. call' = call /\ result' = result /\ all_scopes_' = all_scopes_ /\ scopes' = scopes /\ fresh' = fresh
    BY <1>2 DEF Begin, table
  <2> QED BY <2>1 DEF Scopes!vars
<1>3. ASSUME NEW n \in Builtins, injectRuntimeSymbol(n)
      PROVE  [Scopes!Next]_(Scopes!vars)
  <2>1. n \in Names
    BY <1>0
  <2>2. CASE insert(n, Builtin)
    BY <1>2, <2>2 DEF insert
  <2>3. CASE insertRejected(n, Builtin)
    BY <1>1, <2>1, <2>3 DEF Scopes!Next
  <2> QED BY <1>3, <2>2, <2>3 DEF injectRuntimeSymbol
<1>4. CASE enterScope
  BY <1>4, EnterRefined DEF Scopes!Next
<1>5. CASE exitScope
  <2>1. Scopes!Exit
    BY <1>5 DEF exitScope, Returns, Scopes!Exit, Scopes!Answers
  <2> QED BY <2>1 DEF Scopes!Next
<1>6. ASSUME NEW function, NEW n, NEW r, Reads(function, n, r)
      PROVE  Scopes!Ask(function, n, r)
  BY <1>6 DEF Reads, Returns, table, Scopes!Ask, Scopes!Answers
<1>7. ASSUME NEW n \in Names, lookup(n)
      PROVE  Scopes!Ask("lookup", n, Scopes!Meaning(n))
  BY <1>6, <1>7, LookupIsMeaning DEF lookup
<1>8. ASSUME NEW n \in Names, lookupInCurrentScope(n)
      PROVE  Scopes!Ask("lookupInCurrentScope", n, AllMaps[Scopes!Innermost][n])
  <2>1. find(TopScope, n, IF Len(scopes) = 1 THEN current_module_ ELSE Null)
          = AllMaps[Scopes!Innermost][n]
    BY <1>0, OneAnswer DEF TopScope
  <2> QED BY <1>6, <1>8, <2>1 DEF lookupInCurrentScope
<1>9. ASSUME NEW n \in Names, lookupWithModule(current_module_, n)
      PROVE  Scopes!Ask("lookupWithModule", n, AllMaps[1][n])
  <2>1. find(all_scopes_[1], n, current_module_) = AllMaps[1][n]
    BY <1>0, OneAnswer
  <2> QED BY <1>6, <1>9, <2>1 DEF lookupWithModule
<1>10. ASSUME NEW n \in Names, NEW preferred \in {Null, current_module_},
              findInAnyScope(n, preferred)
       PROVE  Scopes!Ask("findInAnyScope", n, Scopes!Latest(n))
  BY <1>6, <1>10, AnyIsLatest DEF findInAnyScope
<1>11. CASE ResizeMove \/ ResizeNextBucket \/ UNCHANGED vars
  <2>1. call' = call /\ result' = result /\ all_scopes_' = all_scopes_ /\ scopes' = scopes
        /\ fresh' = fresh
    BY <1>11 DEF ResizeMove, Moved, ResizeNextBucket, vars, table
  <2> QED BY <2>1 DEF Scopes!vars
<1>12. CASE ResizeDone
  BY <1>12, DoneRefined
<1>13. CASE Put
  BY <1>13, PutRefined DEF Scopes!Next
<1>14. ASSUME NEW n \in Names,
              insertRejected(n, DeclaredIn) \/ insert(n, DeclaredIn) \/ registerTempSymbol(n)
       PROVE  [Scopes!Next]_(Scopes!vars)
  BY <1>1, <1>2, <1>14 DEF insert, registerTempSymbol, Scopes!Next
<1>15. ASSUME NEW n \in Names,
              lookup(n) \/ lookupInCurrentScope(n) \/ lookupWithModule(current_module_, n)
       PROVE  Scopes!Next
  BY <1>7, <1>8, <1>9, <1>15 DEF Scopes!Next, AllMaps
<1>16. ASSUME NEW n \in Names, NEW preferred \in {Null, current_module_},
              findInAnyScope(n, preferred)
       PROVE  Scopes!Next
  BY <1>10, <1>16 DEF Scopes!Next
<1> QED BY <1>3, <1>4, <1>5, <1>11, <1>12, <1>13, <1>14, <1>15, <1>16 DEF Next

(* The chained, resizing, module-filtered tables implement lexical scopes: *)
(* for any names, hashes and number of buckets, every call answers what    *)
(* maps from names to symbols would answer to that call with that name: a  *)
(* declaration is accepted exactly when the innermost map has no symbol    *)
(* for it, and each of the four searches gives its own answer.             *)
THEOREM TablesImplementScopes == Spec => ImplementsNameScopes
<1>1. Init => Scopes!Init
  BY InitRefined
<1>2. IInv /\ [Next]_vars => [Scopes!Next]_(Scopes!vars)
  BY StepRefined
<1> QED BY <1>1, <1>2, Invariance, PTL DEF Spec, ImplementsNameScopes, Scopes!Spec
=============================================================================
