--------------------------- MODULE MCModuleImports ---------------------------
(***************************************************************************)
(* Every program of three files with at most two imports per file, among   *)
(* them self-imports, cycles, diamonds, missing files and a path that is   *)
(* found in the second search directory.                                   *)
(***************************************************************************)
EXTENDS ModuleImports, TLC

CONSTANTS main, a, b, gone, nMain, nA, nB, builtinFile

MCFiles == {main, a, b, gone}
MCNames == {nMain, nA, nB}
MCNameOf == [f \in MCFiles |-> CASE f = main -> nMain [] f = a -> nA
                                 [] f = b -> nB [] OTHER -> nA]
(* gone is never on disk: <<gone, b>> is found on the second try. *)
Forms == {<<main>>, <<a>>, <<b>>, <<gone, b>>, <<b, a>>, <<gone>>}
Lists == {<<>>} \cup {<<x>> : x \in Forms} \cup {<<x, y>> : x, y \in {<<a>>, <<b>>, <<gone, b>>}}
ShortLists == {<<>>, <<<<a>>>>, <<<<b>>>>, <<<<main>>>>}
Disks == {d \in [MCFiles -> {"ok", "unreadable", "unparsable", "absent"}] :
            /\ d[gone] = "absent" /\ d[main] = "ok" /\ d[a] = "ok"
            /\ d[b] # "absent"}
MCPrograms ==
    { [imports |-> (main :> i) @@ (a :> j) @@ (b :> k) @@ (gone :> <<>>),
       disk |-> d] :
      i \in Lists, j \in Lists, k \in ShortLists, d \in Disks }
=============================================================================
