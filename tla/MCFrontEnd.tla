----------------------------- MODULE MCFrontEnd -----------------------------
(***************************************************************************)
(* The two stages that make a tree of a file.  A behaviour takes a source  *)
(* through the lexer (every sequence of a few characters, one alphabet per *)
(* group of rules, and every word), or takes a file of tokens, written out *)
(* from its tree, through the parser.                                      *)
(***************************************************************************)
EXTENDS Lexer

CONSTANTS Names, Numbers, Strings, MaxDepth     \* see Parser
MCStrings == {"\"s\""}

VARIABLES file, tree, lost, phase, parser       \* see Syntax; file: its tokens

Examples == INSTANCE SyntaxTrees WITH tokens <- file
Files == INSTANCE Syntax WITH tokens <- file, Trees <- Examples!Trees

Escapes == {<<"0">>, <<"1", "0", "F", "F", "F", "F">>, <<"1", "1", "0", "0", "0", "0">>,
            <<"D", "F", "F", "F">>, <<"e", "0", "0", "0">>, <<"1", "1", "1", "1", "1", "1", "1">>}
MCSources ==
    {s \in SeqOf({"+", "-", "=", ">", "%", "/", "*", "a"}, 4)
       \cup SeqOf({"<", "=", "|", ".", "?", "*", "&", "\n"}, 4)
       \cup SeqOf({"/", "*", "\n", "a"}, 6) \cup SeqOf({"/", "*"}, 9)
       \cup SeqOf({"0", "1", "x", "F", ".", "_", "u"}, 5)
       \cup SeqOf({"1", "e", ".", "-", "l", "p", "x", "0"}, 4)
       \cup SeqOf({"\"", "\\", "n", "x", "\n", "'"}, 5)
       \cup SeqOf({"{", "}", "1", "u", "\\", "'"}, 5)
       \cup {<<q, "\\", "u", "{">> \o e \o <<"}", q, " ">> : q \in {"'", "\""}, e \in Escapes}
       \cup SeqOf({" ", "\t", "a", "\n", "@", "while"}, 4)
       \cup {<<w, "\n">> : w \in Words} \cup {<<"@", w, "(">> : w \in Words} :
         s # <<>> /\ Last(s) # "'"}

syntaxVars == <<file, tree, lost, phase, parser>>
NoFile == file = <<"eof">> /\ tree = Files!Null /\ lost = 0 /\ phase = "none" /\ parser = Files!Start
NoSource == source = <<>> /\ z = [i |-> 1, line |-> 1, column |-> 1] /\ tokens = <<Token("eof", 1, 1, 1, 1, 0)>>

FrontEndInit == (Init /\ NoFile) \/ (NoSource /\ Files!Init)
FrontEndNext == (Next /\ phase = "none" /\ UNCHANGED syntaxVars) \/ (Files!Next /\ UNCHANGED vars)
FrontEndSpec == FrontEndInit /\ [][FrontEndNext]_<<vars, syntaxVars>>

(* The files of Syntax: read as written, losing nothing, scoped by their   *)
(* blocks and emitted with the grouping of the source (Parser, codegen's   *)
(* emitExpression).                                                        *)
ReadAsWritten == Files!ReadAsWritten
NothingDropped == Files!NothingDropped
GroupedAlike == Files!GroupedAlike
=============================================================================
