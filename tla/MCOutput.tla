------------------------------ MODULE MCOutput ------------------------------
(***************************************************************************)
(* What the back end writes: the C names of a program, or the headers and  *)
(* sources of one.  Identifiers have eight significant characters; the     *)
(* locals shadow each other, are a keyword, reserved, or look like a       *)
(* numbered name, and long ones agree in what is kept of them.             *)
(***************************************************************************)
EXTENDS CNames

VARIABLES prog, phase, step, types, headers, sources, cache, slices, rejected

Examples == INSTANCE TypePrograms
Output == INSTANCE CBackend WITH at <- step, Programs <- Examples!Programs

MCDigits == << "0", "1", "2", "3", "4", "5", "6", "7", "8", "9" >>
MCLegal == {"a", "b", "c", "d", "f", "i", "t", "x", "z", "F", "V", "C", "S", "_"}
           \union {MCDigits[i] : i \in 1 .. 10}
MCKeywords == { << "i", "f" >> }
MCPrefixes == { << "_", "_", "t" >> }
MCInternal == { << "a", "t" >> }

Local(id, name) == [id |-> id, name |-> name]
Long == << "a", "b", "c", "d", "a", "b", "c", "d" >>
MCLocals == { Local(1, << "a" >>), Local(2, << "a", "_", "1" >>),
              Local(3, << "i", "f" >>), Local(4, << "_", "-", "x" >>),
              Local(5, Long \o << "i" >>), Local(6, Long \o << "x" >>),
              Local(7, << "_", "_", "t", "1" >>) }
MCBases == { << "a" >>, << "a", "t" >> }

Global(name, module, kind, extern) ==
  [name |-> name, module |-> module, kind |-> kind, extern |-> extern]
MCGlobals == { Global(<< "a", "b" >>, "m", "F", FALSE),
               Global(<< "a" >>, "m", "C", FALSE),
               Global(<< "x", "a", "b", "c" >>, "m", "F", FALSE),
               Global(<< "a" >>, "n", "V", TRUE),
               Global(<< "b" >>, "m", "M", FALSE),
               Global(<< "a", "b" >>, "n", "F", FALSE) }
MCHash == [m \in {"m", "n"} |-> IF m = "m" THEN << "1" >> ELSE << "2" >>]
MCFiles == << [module |-> "m", header |-> TRUE], [module |-> "m", header |-> FALSE],
              [module |-> "n", header |-> TRUE] >>

outputVars == << prog, phase, step, types, headers, sources, cache, slices, rejected >>
NoProgram == /\ prog = << >> /\ phase = "none" /\ step = 0 /\ cache = {} /\ slices = << >>
             /\ types = << >> /\ headers = << >> /\ sources = << >> /\ rejected = << >>

(* A behaviour names the identifiers of the one program, or writes the     *)
(* files of another.                                                       *)
OutputInit == Init /\ (NoProgram \/ Output!Init)
OutputNext == \/ Next /\ phase = "none" /\ UNCHANGED outputVars
              \/ Output!Next /\ UNCHANGED vars
OutputSpec == OutputInit /\ [][OutputNext]_<< vars, outputVars >>

(* The files of CBackend: see there.                                       *)
DefinedBeforeUse == phase # "none" => Output!DefinedBeforeUse
SpecialsDeclared == phase # "none" => Output!SpecialsDeclared
NeverRedefined == phase # "none" => Output!NeverRedefined
DefinedBeforeUseAlways == phase # "none" => Output!DefinedBeforeUseAlways

(* What the theorems suppose of a program holds of this one.               *)
ASSUME MCWellNamed == NoDiscards /\ GlobalsWellNamed
=============================================================================
