------------------------------- MODULE CNames -------------------------------
(***************************************************************************)
(* The C identifiers of a program: global symbols get theirs once, from    *)
(* their module and their name (name_mangler.cpp, precomputeMangledNames   *)
(* in compilation_unit.cpp), every file that mentions one looks it up      *)
(* (C89Emitter::getC89GlobalName), and a function's parameters, variables  *)
(* and temporaries get theirs as they are met (c_variable_allocator.cpp).  *)
(*                                                                         *)
(* A name is a sequence of characters.  C89 compilers tell identifiers     *)
(* apart by MaxLen characters, so everything is cut to that length.        *)
(*                                                                         *)
(*     mangled    mangled_name of the global symbols that have one         *)
(*     at         how many files have been begun; the last one is being    *)
(*                written, one more than there are when all are            *)
(*     global_names   this file's names of globals, by source name         *)
(*     used_names     the C names those took                               *)
(*     symbol_cache   the names of this function's symbols                 *)
(*     assigned_names what the function's names were given to, in order    *)
(*     mentions   every (symbol, C name) a file has used so far            *)
(***************************************************************************)
EXTENDS Integers, Sequences, FiniteSets

CONSTANTS
  MaxLen,            \* significant characters of a C identifier, 31
  MaxSuffix,         \* bound: numbers tried to make a name unique
  MaxNames,          \* bound: names a function asks for
  MaxMentions,       \* bound: globals the program mentions
  Keywords,          \* names C reserves
  InternalPrefixes,  \* how names made up by the compiler start
  InternalNames,     \* names of the runtime's own types and functions
  Legal, Digits,     \* characters of identifiers; the digits, in order
  Uppercase,
  Globals,           \* global symbols, [name, module, kind, extern]
  Hash,              \* the hash of each module, as characters
  Files,             \* the files to write, in order
  Locals,            \* a function's symbols, [id, name]
  Bases              \* names temporaries are made from

ASSUME NamesAssumption ==
  /\ MaxLen \in Nat /\ MaxSuffix \in 0 .. 99 /\ MaxNames \in Nat
  /\ Len(Digits) = 10
  /\ \A p \in InternalPrefixes : p \in Seq(STRING) /\ Len(p) <= MaxLen
  /\ \A n \in InternalNames : Len(n) <= MaxLen
  /\ \A s \in Locals : s.name \in Seq(STRING)
  /\ \A b \in Bases : b \in Seq(STRING)

(* C's keywords are short and have no underscore.                          *)
ASSUME AlphabetAssumption ==
  /\ MaxLen >= 5 /\ Digits \in Seq(STRING)
  /\ \A i \in DOMAIN Digits : Digits[i] \notin Uppercase \union {"_", "z"}
  /\ \A k \in Keywords :
       Len(k) \in 1 .. MaxLen - 1 /\ \A i \in 1 .. Len(k) : k[i] # "_"

(* The names of globals are identifiers.                                   *)
ASSUME GlobalsAssumption ==
  /\ {"z", "_", "V", "C", "F", "S"} \subseteq Legal
  /\ \A g \in Globals : g.name \in Seq(Legal) /\ Hash[g.module] \in Seq(Legal)
  /\ 0 \notin DOMAIN Files

VARIABLES mangled, at, global_names, used_names, symbol_cache,
          assigned_names, mentions
vars == << mangled, at, global_names, used_names, symbol_cache,
           assigned_names, mentions >>

-----------------------------------------------------------------------------
(* utils.cpp: isInternalCompilerIdentifier, sanitizeForC89.                *)

StartsWith(s, p) == Len(p) <= Len(s) /\ SubSeq(s, 1, Len(p)) = p
isInternalCompilerIdentifier(s) ==
  s \in InternalNames \/ \E p \in InternalPrefixes : StartsWith(s, p)

cut(s, n) == IF Len(s) > n THEN SubSeq(s, 1, n) ELSE s

legalized(s) == [i \in DOMAIN s |-> IF s[i] \in Legal THEN s[i] ELSE "_"]

isCReservedName(s) ==
  Len(s) > 1 /\ s[1] = "_" /\ (s[2] = "_" \/ s[2] \in Uppercase)
needsPrefix(s) ==
  \/ s # << >> /\ s[1] \in {Digits[i] : i \in DOMAIN Digits}
  \/ s \in Keywords \/ isCReservedName(s)

prefixed(s) ==
  IF ~needsPrefix(s) THEN s
  ELSE IF s[1] = "_" THEN << "z" >> \o s ELSE << "z", "_" >> \o s

sanitizeForC89(s) ==
  IF isInternalCompilerIdentifier(legalized(s)) THEN legalized(s)
  ELSE prefixed(legalized(s))

(* The decimal digits of n, from _1 to _99.                                *)
suffix(n) == IF n < 10 THEN << "_", Digits[n + 1] >>
             ELSE << "_", Digits[(n \div 10) + 1], Digits[(n % 10) + 1] >>

(* Mutant: the suffix is added to a name that is already full.             *)
candidateLong(s, n) == IF n = 0 THEN s ELSE s \o suffix(n)

(* The n-th name tried: the end makes room for the suffix.                 *)
candidate(s, n) ==
  IF n = 0 THEN s ELSE cut(s, MaxLen - Len(suffix(n))) \o suffix(n)

(* Mutant: a number is added once and not tried again.                     *)
numberedOnce(s, taken, c) == c = candidate(s, IF s \in taken THEN 1 ELSE 0)

firstFree(s, taken, c) ==
  \E n \in 0 .. MaxSuffix :
    /\ c = candidate(s, n) /\ c \notin taken
    /\ \A k \in 0 .. n - 1 : candidate(s, k) \in taken

-----------------------------------------------------------------------------
(* NameMangler::mangle: the end of a long name is kept, not its start.     *)

Room(g) == MaxLen - 4 - Len(Hash[g.module])

(* Mutant: the module is left out.                                         *)
mangleLocally(kind, g) == sanitizeForC89(<< "z", kind, "_" >> \o g.name)

mangle(kind, g) ==
  IF isInternalCompilerIdentifier(g.name) THEN cut(g.name, MaxLen)
  ELSE LET n == Len(g.name)
           kept == IF n > Room(g) THEN SubSeq(g.name, n - Room(g) + 1, n) ELSE g.name
       IN sanitizeForC89(<< "z", kind, "_" >> \o Hash[g.module] \o << "_" >> \o kept)

Mangled == {"V", "C", "F", "S"}
precomputed(g) == IF g.extern THEN g.name ELSE mangle(g.kind, g)

Writing == at \in DOMAIN Files
file == Files[at]

(* CompilationUnit::precomputeMangledNames, for every module: variables,   *)
(* functions and types, not the names of imported modules.                 *)
PrecomputeMangledNames ==
  /\ at = 0 /\ at' = 1
  /\ mangled' = [g \in {h \in Globals : h.kind \in Mangled} |-> precomputed(g)]
  /\ UNCHANGED << global_names, used_names, symbol_cache, assigned_names, mentions >>

-----------------------------------------------------------------------------
(* getC89GlobalName.  c is the name a file uses for the symbol g that its  *)
(* module's table finds; a symbol without a precomputed name gets one that *)
(* is unique in the file only.                                             *)
getC89GlobalName(g, c) ==
  IF isInternalCompilerIdentifier(g.name) THEN c = cut(g.name, MaxLen)
  ELSE IF g.name \in DOMAIN global_names THEN c = global_names[g.name]
  ELSE IF g \in DOMAIN mangled THEN c = mangled[g]
  ELSE firstFree(IF g.extern THEN sanitizeForC89(cut(g.name, MaxLen)) ELSE mangle("V", g),
                 used_names, c)

Candidates(s) == {candidate(s, n) : n \in 0 .. MaxSuffix}
GlobalNames(g) ==
  {cut(g.name, MaxLen)} \union Candidates(mangle("V", g))
  \union Candidates(sanitizeForC89(cut(g.name, MaxLen)))
  \union {mangled[h] : h \in DOMAIN mangled}

MentionGlobal(g) ==
  /\ Writing /\ g.module = file.module /\ Cardinality(mentions) < MaxMentions
  /\ \E c \in GlobalNames(g) :
       /\ getC89GlobalName(g, c)
       /\ mentions' = mentions \union {<< g, c >>}
       /\ IF isInternalCompilerIdentifier(g.name) THEN UNCHANGED << global_names, used_names >>
          ELSE /\ global_names' = [n \in DOMAIN global_names \union {g.name} |->
                                     IF n = g.name THEN c ELSE global_names[n]]
               /\ used_names' = used_names \union {c}
  /\ UNCHANGED << mangled, at, symbol_cache, assigned_names >>

(* emitExpression, emitAccess: a use whose symbol the type checker found,  *)
(* from whatever module, is written without a look at the file's names.    *)
MentionMember(g) ==
  /\ Writing /\ ~file.header /\ Cardinality(mentions) < MaxMentions
  /\ mentions' = mentions \union {<< g, IF g \in DOMAIN mangled THEN mangled[g]
                                       ELSE mangle("V", g) >>}
  /\ UNCHANGED << mangled, at, global_names, used_names, symbol_cache, assigned_names >>

-----------------------------------------------------------------------------
(* CVariableAllocator.                                                     *)

assigned == {assigned_names[i].c : i \in DOMAIN assigned_names}

(* Names the compiler made up are only cut.                                *)
makeUnique(desired, c) ==
  IF isInternalCompilerIdentifier(legalized(desired))
  THEN c = cut(legalized(desired), MaxLen)
  ELSE firstFree(cut(prefixed(legalized(desired)), MaxLen), assigned, c)

LocalNames(s) == {cut(legalized(s), MaxLen)}
                 \union Candidates(cut(prefixed(legalized(s)), MaxLen))

Give(who, c) == assigned_names' = Append(assigned_names, [who |-> who, c |-> c])

(* A symbol met before keeps its name.                                     *)
Allocate(sym) ==
  /\ Writing /\ ~file.header /\ Len(assigned_names) < MaxNames
  /\ sym \notin DOMAIN symbol_cache
  /\ \E c \in LocalNames(sym.name) :
       /\ makeUnique(sym.name, c)
       /\ Give(sym.id, c)
       /\ symbol_cache' = [s \in DOMAIN symbol_cache \union {sym} |->
                             IF s = sym THEN c ELSE symbol_cache[s]]
  /\ UNCHANGED << mangled, at, global_names, used_names, mentions >>

Generate(base) ==
  /\ Writing /\ ~file.header /\ Len(assigned_names) < MaxNames
  /\ \E c \in LocalNames(base) : makeUnique(base, c) /\ Give(0, c)
  /\ UNCHANGED << mangled, at, global_names, used_names, symbol_cache, mentions >>

(* C89Emitter::beginFunction resets the allocator.                         *)
BeginFunction ==
  /\ Writing /\ assigned_names # << >>
  /\ symbol_cache' = << >> /\ assigned_names' = << >>
  /\ UNCHANGED << mangled, at, global_names, used_names, mentions >>

(* Every file has an emitter of its own.                                   *)
NextFile ==
  /\ Writing /\ at' = at + 1
  /\ global_names' = << >> /\ used_names' = {}
  /\ symbol_cache' = << >> /\ assigned_names' = << >>
  /\ UNCHANGED << mangled, mentions >>

-----------------------------------------------------------------------------
Init ==
  /\ mangled = << >> /\ at = 0
  /\ global_names = << >> /\ used_names = {}
  /\ symbol_cache = << >> /\ assigned_names = << >> /\ mentions = {}

Next ==
  \/ PrecomputeMangledNames \/ BeginFunction \/ NextFile
  \/ \E g \in Globals : MentionGlobal(g)
  \/ \E g \in Globals : MentionMember(g)
  \/ \E s \in Locals : Allocate(s)
  \/ \E b \in Bases : Generate(b)

Spec == Init /\ [][Next]_vars

-----------------------------------------------------------------------------

(* Two variables or temporaries of one function never share a C name,      *)
(* however their names are cut and numbered; names the compiler made up    *)
(* itself carry their own number and, like the runtime's names, are left   *)
(* alone (CVariableAllocator::makeUnique).                                 *)
LocalsDistinct ==
  \A i, j \in DOMAIN assigned_names :
    i # j /\ assigned_names[i].c = assigned_names[j].c
      => isInternalCompilerIdentifier(assigned_names[i].c)

(* No name is a lone underscore: the second of a function would be numbered *)
(* to __1, which C reserves.                                               *)
isDiscard(s) == Len(s) = 1 /\ s[1] = "_"
NoDiscards ==
  /\ \A s \in Locals : ~isDiscard(legalized(s.name))
  /\ \A b \in Bases : ~isDiscard(legalized(b))

(* A local's C name is one that a C89 compiler accepts and tells from the  *)
(* others: no keyword, not reserved to the implementation, and not longer  *)
(* than what is significant.                                               *)
LocalsLegal ==
  \A i \in DOMAIN assigned_names :
    LET c == assigned_names[i].c IN
    Len(c) <= MaxLen /\ (isInternalCompilerIdentifier(c) \/ ~needsPrefix(c))

(* What the mangler can count on: a module declares a name once, modules   *)
(* differ in their hashes, which leave room for a name, what is not        *)
(* precomputed is short and named like no external symbol, and what is     *)
(* named like the compiler's own names fits the limit.                     *)
GlobalsWellNamed ==
  /\ \A g, h \in Globals : g.module = h.module /\ g.name = h.name => g = h
  /\ \A g, h \in Globals :
       /\ Hash[g.module] = Hash[h.module] => g.module = h.module
       /\ Len(Hash[g.module]) = Len(Hash[h.module])
  /\ \A g \in Globals : Len(Hash[g.module]) + 4 <= MaxLen
  /\ \A g \in Globals : g.kind \notin Mangled =>
       /\ ~g.extern /\ Len(g.name) < Room(g)
       /\ \A e \in Globals : e.extern => e.name # mangle("V", g)
  /\ \A g \in Globals : isInternalCompilerIdentifier(g.name) => Len(g.name) <= MaxLen

(* Every file names a global the same way, and different globals of the    *)
(* program have different C names as long as the mangler need not cut      *)
(* them: headers, definitions and uses link together.                      *)
GlobalsLink ==
  \A x, y \in mentions :
    LET short(g) == Len(g.name) <= Room(g) /\ ~g.extern
                    /\ ~isInternalCompilerIdentifier(g.name)
    IN IF x[1] = y[1] THEN x[2] = y[2]
       ELSE short(x[1]) /\ short(y[1]) => x[2] # y[2]
=============================================================================
