----------------------------- MODULE NameScopes -----------------------------
(***************************************************************************)
(* What the symbol table promises its users (the parser, the type checker  *)
(* and the analyses): lexical scopes.  Every scope ever entered is a map   *)
(* from names to symbols; some of them are open, innermost last.  A        *)
(* symbol is a number, 0 means none.  The last call, with the name it      *)
(* asked about, stands beside its answer, so that an answer is right only  *)
(* for the call that gets it.  How the maps are stored is the business of  *)
(* SymbolTable.                                                            *)
(***************************************************************************)
EXTENDS Integers, Sequences

CONSTANTS Names, MaxScopes, MaxSymbols

VARIABLES
    maps,       \* all scopes, in the order they were entered
    open,       \* indices of the open ones, innermost last
    fresh,      \* the next symbol
    call,       \* the last operation, and the name it was asked about
    result      \* what it answered

vars == <<maps, open, fresh, call, result>>

Empty == [n \in Names |-> 0]
Innermost == open[Len(open)]

(* The symbol n means in the i-th open scope or around it. *)
Visible(n) == {i \in 1..Len(open) : maps[open[i]][n] # 0}
Meaning(n) ==
    IF Visible(n) = {} THEN 0
    ELSE LET i == CHOOSE j \in Visible(n) : \A k \in Visible(n) : k <= j
         IN  maps[open[i]][n]

(* The symbol n means in the scope entered last among all that know it. *)
Known(n) == {i \in 1..Len(maps) : maps[i][n] # 0}
Latest(n) ==
    IF Known(n) = {} THEN 0
    ELSE maps[CHOOSE j \in Known(n) : \A k \in Known(n) : k <= j][n]

Answers(operation, r) == call' = operation /\ result' = r

Enter ==
    /\ Answers(<<"enterScope">>, 0)
    /\ Len(maps) < MaxScopes
    /\ maps' = Append(maps, Empty)
    /\ open' = Append(open, Len(maps) + 1)
    /\ UNCHANGED fresh

Exit ==
    /\ Answers(<<"exitScope">>, 0)
    /\ Len(open) > 1
    /\ open' = SubSeq(open, 1, Len(open) - 1)
    /\ UNCHANGED <<maps, fresh>>

(* n gets a symbol in the innermost scope. *)
Bind(operation, n) ==
    /\ Answers(<<operation, n>>, fresh)
    /\ fresh <= MaxSymbols
    /\ maps' = [maps EXCEPT ![Innermost] = [@ EXCEPT ![n] = fresh]]
    /\ fresh' = fresh + 1
    /\ UNCHANGED open

(* A declaration is accepted exactly when the innermost scope does not     *)
(* know the name; a compiler-generated local is not checked.               *)
Declare(n) == Bind("insert", n) /\ maps[Innermost][n] = 0
Generate(n) == Bind("registerTempSymbol", n)

Ask(operation, n, r) ==
    /\ Answers(<<operation, n>>, r)
    /\ UNCHANGED <<maps, open, fresh>>

Redeclare(n) == Ask("insert", n, 0) /\ maps[Innermost][n] # 0

Init ==
    /\ maps = <<Empty>> /\ open = <<1>> /\ fresh = 1
    /\ call = <<"enterScope">> /\ result = 0

Next ==
    \/ Enter \/ Exit
    \/ \E n \in Names :
          \/ Declare(n) \/ Redeclare(n) \/ Generate(n)
          \/ Ask("lookup", n, Meaning(n))
          \/ Ask("lookupInCurrentScope", n, maps[Innermost][n])
          \/ Ask("lookupWithModule", n, maps[1][n])
          \/ Ask("findInAnyScope", n, Latest(n))

Spec == Init /\ [][Next]_vars
=============================================================================
