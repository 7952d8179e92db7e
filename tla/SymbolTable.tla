---------------------------- MODULE SymbolTable ----------------------------
(***************************************************************************)
(* The symbol table of a module (src/bootstrap/symbol_table.cpp): a stack  *)
(* of scopes, each a chained hash table that doubles its buckets when it   *)
(* is three quarters full, and the list of all scopes ever entered, which  *)
(* later passes search.  A table holds the symbols of its own module, the  *)
(* runtime symbols of the module "builtin", which come first, and locals.  *)
(*                                                                         *)
(* A scope is [bucket_count, symbol_count, buckets], a bucket the sequence *)
(* of its entries from the head of its chain.  A symbol is its name, its   *)
(* module (Null for a local), its scope level and a number that stands for *)
(* the rest.  The loops of Scope::resize are steps: pc says whether an     *)
(* insertion is under way, and sym, caller, new_buckets, bucket and pos    *)
(* are its local variables.  new_buckets takes effect when the loop is     *)
(* over.  call and result are what a user sees: the call that returned     *)
(* last, with the name it was given, and its value.                        *)
(***************************************************************************)
EXTENDS Integers, Sequences, FiniteSets

CONSTANTS
    Names,
    HashOf,         \* hash_string of each name
    Null,           \* a NULL module_name
    current_module_,
    Builtin,        \* the module name "builtin"
    Builtins,       \* names of the runtime symbols
    InitialBuckets, \* initial_bucket_count (4)
    MaxScopes,      \* bound: scopes entered
    MaxSymbols      \* bound: symbols inserted

ASSUME SymbolTableConstants ==
    /\ HashOf \in [Names -> Nat]
    /\ Builtins \subseteq Names
    /\ current_module_ # Null /\ Builtin # Null
    /\ InitialBuckets \in Nat \ {0}
    /\ MaxScopes \in Nat \ {0} /\ MaxSymbols \in Nat

VARIABLES
    all_scopes_,    \* every scope ever entered
    scopes,         \* indices of the open ones, innermost last
    current_scope_level_,
    fresh,          \* number of the next symbol
    call,           \* the last call that returned, and its name argument
    result,         \* what it returned: a symbol's number, or 0 for NULL,
                    \* false and nothing
    pc,             \* "idle", "resize", "put"
    sym,            \* the symbol being inserted
    caller,         \* the function Scope::insert returns to
    new_buckets, bucket, pos    \* of resize

table == <<all_scopes_, scopes, current_scope_level_>>
loop == <<new_buckets, bucket, pos>>
work == <<pc, sym, caller, loop>>
vars == <<table, fresh, call, result, work>>

Returns(function, r) == call' = function /\ result' = r

-----------------------------------------------------------------------------
NoSym == [name |-> Null, module |-> Null, level |-> 0, id |-> 0]
EmptyBuckets(c) == [b \in 0..c - 1 |-> <<>>]
NewScope == [bucket_count |-> InitialBuckets, symbol_count |-> 0,
             buckets |-> EmptyBuckets(InitialBuckets)]

IndexOf(n, count) == HashOf[n] % count
Chain(s, n) == s.buckets[IndexOf(n, s.bucket_count)]

(* Scope::find: the first entry of the name whose module matches. *)
Matches(entry, module) == module = Null \/ entry.module \in {Null, module, Builtin}
Hits(chain, n, module) ==
    {k \in 1..Len(chain) : chain[k].name = n /\ Matches(chain[k], module)}
FirstOf(ks) == CHOOSE k \in ks : \A j \in ks : k <= j
find(s, n, module) ==
    LET hits == Hits(Chain(s, n), n, module)
    IN  IF hits = {} THEN 0 ELSE Chain(s, n)[FirstOf(hits)].id

Top == scopes[Len(scopes)]
TopScope == all_scopes_[Top]

(* lookup: from the innermost scope outwards, first with NULL, then with   *)
(* the current module.                                                     *)
findEither(s, n) ==
    IF find(s, n, Null) # 0 THEN find(s, n, Null) ELSE find(s, n, current_module_)
LookupFound(n) == {i \in 1..Len(scopes) : findEither(all_scopes_[scopes[i]], n) # 0}
LastOf(is) == CHOOSE i \in is : \A j \in is : j <= i
(* Mutant: from the outermost scope inwards. *)
LookupOutermost(n) ==
    IF LookupFound(n) = {} THEN 0
    ELSE findEither(all_scopes_[scopes[FirstOf(LookupFound(n))]], n)

LookupResult(n) ==
    IF LookupFound(n) = {} THEN 0
    ELSE findEither(all_scopes_[scopes[LastOf(LookupFound(n))]], n)

(* findInAnyScope: from the latest scope to the oldest, the preferred      *)
(* module, then the current one; if no scope has it, the latest entry of   *)
(* any module.                                                             *)
findPreferred(s, n, preferred) ==
    IF preferred # Null /\ find(s, n, preferred) # 0 THEN find(s, n, preferred)
    ELSE find(s, n, current_module_)
AnyResult(n, preferred) ==
    LET scope(i) == all_scopes_[i]
        found    == {i \in 1..Len(all_scopes_) : findPreferred(scope(i), n, preferred) # 0}
        fallback == {i \in 1..Len(all_scopes_) : find(scope(i), n, Null) # 0}
    IN  IF found # {} THEN findPreferred(scope(LastOf(found)), n, preferred)
        ELSE IF fallback # {} THEN find(scope(LastOf(fallback)), n, Null)
        ELSE 0

-----------------------------------------------------------------------------
enterScope ==
    /\ pc = "idle" /\ Len(all_scopes_) < MaxScopes
    /\ all_scopes_' = Append(all_scopes_, NewScope)
    /\ scopes' = Append(scopes, Len(all_scopes_) + 1)
    /\ current_scope_level_' = current_scope_level_ + 1
    /\ Returns(<<"enterScope">>, 0)
    /\ UNCHANGED <<fresh, work>>

(* The global scope stays. *)
exitScope ==
    /\ pc = "idle" /\ Len(scopes) > 1
    /\ scopes' = SubSeq(scopes, 1, Len(scopes) - 1)
    /\ current_scope_level_' = current_scope_level_ - 1
    /\ Returns(<<"exitScope">>, 0)
    /\ UNCHANGED <<all_scopes_, fresh, work>>

(* The symbol's module in the redeclaration check: its own in the global   *)
(* scope, any in a local one.                                              *)
Filter(module) == IF Len(scopes) = 1 THEN module ELSE Null

insertRejected(n, module) ==
    /\ pc = "idle"
    /\ find(TopScope, n, Filter(module)) # 0
    /\ Returns(<<"insert", n>>, 0)
    /\ UNCHANGED <<table, fresh, work>>

(* Scope::insert begins: is the table three quarters full? *)
Begin(function, n, module) ==
    LET s == TopScope
        full == 4 * (s.symbol_count + 1) > 3 * s.bucket_count
    IN  /\ pc = "idle" /\ fresh <= MaxSymbols
        /\ sym' = [name |-> n, module |-> module, id |-> fresh,
                   level |-> current_scope_level_]
        /\ caller' = function
        /\ pc' = IF full THEN "resize" ELSE "put"
        /\ new_buckets' = IF full THEN EmptyBuckets(2 * s.bucket_count) ELSE <<>>
        /\ bucket' = 0 /\ pos' = 1
        /\ UNCHANGED <<table, fresh, call, result>>

insert(n, module) ==
    /\ find(TopScope, n, Filter(module)) = 0
    /\ Begin("insert", n, module)

(* A compiler-generated local; no redeclaration check. *)
registerTempSymbol(n) == Begin("registerTempSymbol", n, Null)

(* Every table starts with the runtime symbols, and the driver injects     *)
(* them once more.                                                         *)
injectRuntimeSymbol(n) ==
    /\ Len(scopes) = 1
    /\ insert(n, Builtin) \/ insertRejected(n, Builtin)

(* Parser and type checker give globals the module's name, locals NULL. *)
DeclaredIn == IF Len(scopes) = 1 THEN current_module_ ELSE Null
Injected == \A n \in Builtins : find(all_scopes_[1], n, Builtin) # 0

(* resize: the next entry of the current bucket goes to the head of its    *)
(* new chain.                                                              *)
Moved(entry, count) ==
    /\ new_buckets' = [new_buckets EXCEPT
           ![IndexOf(entry.name, count)] = <<entry>> \o @]
    /\ pos' = pos + 1
    /\ UNCHANGED <<table, fresh, call, result, pc, sym, caller, bucket>>

(* Mutant: the new index is computed with the old number of buckets. *)
ResizeMoveOldIndex ==
    /\ pc = "resize" /\ bucket < TopScope.bucket_count
    /\ pos <= Len(TopScope.buckets[bucket])
    /\ Moved(TopScope.buckets[bucket][pos], TopScope.bucket_count)

ResizeMove ==
    /\ pc = "resize" /\ bucket < TopScope.bucket_count
    /\ pos <= Len(TopScope.buckets[bucket])
    /\ Moved(TopScope.buckets[bucket][pos], 2 * TopScope.bucket_count)

ResizeNextBucket ==
    /\ pc = "resize" /\ bucket < TopScope.bucket_count
    /\ pos > Len(TopScope.buckets[bucket])
    /\ bucket' = bucket + 1 /\ pos' = 1
    /\ UNCHANGED <<table, fresh, call, result, pc, sym, caller, new_buckets>>

Resized(s) == [s EXCEPT !.buckets = new_buckets, !.bucket_count = 2 * @]
ResizeDone ==
    /\ pc = "resize" /\ bucket = TopScope.bucket_count
    /\ all_scopes_' = [all_scopes_ EXCEPT ![Top] = Resized(@)]
    /\ pc' = "put"
    /\ new_buckets' = <<>> /\ bucket' = 0 /\ pos' = 1
    /\ UNCHANGED <<scopes, current_scope_level_, fresh, call, result, sym, caller>>

(* The symbol replaces one of the same name, or becomes the head of its    *)
(* chain.                                                                  *)
Replaces(entry) ==
    /\ entry.name = sym.name
    /\ sym.module = Null \/ entry.module \in {Null, sym.module}

PutInto(s) ==
    LET i     == IndexOf(sym.name, s.bucket_count)
        hits  == {k \in 1..Len(s.buckets[i]) : Replaces(s.buckets[i][k])}
        chain == IF hits # {} THEN [s.buckets[i] EXCEPT ![FirstOf(hits)] = sym]
                 ELSE <<sym>> \o s.buckets[i]
    IN  [s EXCEPT !.buckets = [@ EXCEPT ![i] = chain],
                  !.symbol_count = IF hits # {} THEN @ ELSE @ + 1]

Put ==
    /\ pc = "put"
    /\ all_scopes_' = [all_scopes_ EXCEPT ![Top] = PutInto(@)]
    /\ fresh' = fresh + 1
    /\ Returns(<<caller, sym.name>>, sym.id)
    /\ pc' = "idle" /\ sym' = NoSym /\ caller' = "none"
    /\ UNCHANGED <<scopes, current_scope_level_, loop>>

(* The read-only calls. *)
Reads(function, n, r) ==
    /\ pc = "idle"
    /\ Returns(<<function, n>>, r)
    /\ UNCHANGED <<table, fresh, work>>

lookup(n) == Reads("lookup", n, LookupResult(n))
lookupInCurrentScope(n) ==
    Reads("lookupInCurrentScope", n,
          find(TopScope, n, IF Len(scopes) = 1 THEN current_module_ ELSE Null))
lookupWithModule(module, n) ==
    Reads("lookupWithModule", n, find(all_scopes_[1], n, module))
findInAnyScope(n, preferred) ==
    Reads("findInAnyScope", n, AnyResult(n, preferred))

-----------------------------------------------------------------------------
(* The constructor enters the global scope. *)
Init ==
    /\ all_scopes_ = <<NewScope>> /\ scopes = <<1>>
    /\ current_scope_level_ = 1
    /\ fresh = 1 /\ call = <<"enterScope">> /\ result = 0
    /\ pc = "idle" /\ sym = NoSym /\ caller = "none"
    /\ new_buckets = <<>> /\ bucket = 0 /\ pos = 1

Next ==
    \/ \E n \in Builtins : injectRuntimeSymbol(n)
    \/ Injected /\ (enterScope \/ exitScope)
    \/ \E n \in Names :
          Injected /\ \/ insertRejected(n, DeclaredIn)
                      \/ insert(n, DeclaredIn)
                      \/ registerTempSymbol(n)
                      \/ lookup(n)
                      \/ lookupInCurrentScope(n)
                      \/ lookupWithModule(current_module_, n)
    \/ \E n \in Names, preferred \in {Null, current_module_} :
          Injected /\ findInAnyScope(n, preferred)
    \/ ResizeMove \/ ResizeNextBucket \/ ResizeDone \/ Put

Spec == Init /\ [][Next]_vars

-----------------------------------------------------------------------------
(* The chained tables implement maps from names to symbols. *)
MapOf(s) == [n \in Names |-> find(s, n, Null)]
Scopes == INSTANCE NameScopes WITH
    maps <- [i \in 1..Len(all_scopes_) |-> MapOf(all_scopes_[i])],
    open <- scopes

(* Every call answers its own question as lexical scopes would.  insert    *)
(* accepts a name exactly when the innermost scope does not know it, with  *)
(* the rules by which insert and find compare modules; lookup answers the  *)
(* innermost meaning of the name it was given, lookupInCurrentScope that   *)
(* of the innermost scope, lookupWithModule that of the global scope, and  *)
(* findInAnyScope the latest.  Resizing, whatever the names hash to, is    *)
(* invisible.                                                              *)
ImplementsNameScopes == Scopes!Spec

-----------------------------------------------------------------------------
Symbol == [name : Names, module : {Null, current_module_, Builtin},
           level : Nat, id : 1..MaxSymbols]
IsBuckets(bs, count) ==
    /\ DOMAIN bs = 0..count - 1
    /\ \A b \in DOMAIN bs : bs[b] \in Seq(Symbol)
IsScope(s) ==
    /\ s.bucket_count \in Nat \ {0} /\ s.symbol_count \in Nat
    /\ IsBuckets(s.buckets, s.bucket_count)

(* All scopes are well-formed tables, the open ones are among them, and an *)
(* insertion under way has a symbol and a place in the loop of resize.     *)
TypeOK ==
    /\ Len(all_scopes_) \in 1..MaxScopes
    /\ \A i \in 1..Len(all_scopes_) : IsScope(all_scopes_[i])
    /\ scopes \in Seq(1..Len(all_scopes_)) /\ scopes # <<>>
    /\ current_scope_level_ \in Nat
    /\ fresh \in 1..MaxSymbols + 1 /\ result \in 0..MaxSymbols
    /\ pc \in {"idle", "resize", "put"}
    /\ IF pc = "idle" THEN sym = NoSym /\ caller = "none"
       ELSE sym \in Symbol /\ caller \in {"insert", "registerTempSymbol"}
    /\ IF pc = "resize" THEN IsBuckets(new_buckets, 2 * TopScope.bucket_count)
       ELSE new_buckets = <<>>
    /\ bucket \in Nat /\ pos \in Nat \ {0}

(* Every entry hangs in the chain its name hashes to, and a scope has at   *)
(* most one entry of a name: a lookup that stops at the first match misses *)
(* nothing, before and after resizing.                                     *)
Hashed(bs, count) ==
    \A b \in 0..count - 1 : \A k \in 1..Len(bs[b]) :
        /\ IndexOf(bs[b][k].name, count) = b
        /\ \A j \in 1..Len(bs[b]) : bs[b][j].name = bs[b][k].name => j = k
ChainsHashed ==
    /\ \A i \in 1..Len(all_scopes_) :
           Hashed(all_scopes_[i].buckets, all_scopes_[i].bucket_count)
    /\ pc = "resize" => Hashed(new_buckets, 2 * TopScope.bucket_count)

(* The load factor is computed from symbol_count: the count is the number  *)
(* of entries in the chains, and at most three quarters of the buckets.    *)
Places(bs) == UNION {{b} \X (1..Len(bs[b])) : b \in DOMAIN bs}
CountsExact ==
    \A i \in 1..Len(all_scopes_) :
        /\ all_scopes_[i].symbol_count = Cardinality(Places(all_scopes_[i].buckets))
        /\ 4 * all_scopes_[i].symbol_count <= 3 * all_scopes_[i].bucket_count

(* A symbol's scope level is the depth of the scope that holds it, however *)
(* scopes were entered and left: the emitter tells globals from locals by  *)
(* it.                                                                     *)
LevelsMatch ==
    /\ current_scope_level_ = Len(scopes)
    /\ \A d \in 1..Len(scopes) :
           LET s == all_scopes_[scopes[d]]
           IN  \A b \in 0..s.bucket_count - 1 : \A k \in 1..Len(s.buckets[b]) :
                   s.buckets[b][k].level = d

(* The tables are always in a state from which any lookup and any          *)
(* insertion is answered right.                                            *)
TableInv == TypeOK /\ ChainsHashed /\ CountsExact /\ LevelsMatch
=============================================================================
