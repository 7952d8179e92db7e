-------------------------- MODULE MCTypeResolution --------------------------
(***************************************************************************)
(* Modules of three declarations for TypeResolution, with every order of   *)
(* needs between them, and a few of four for the long chains.              *)
(***************************************************************************)
EXTENDS TypeResolution

T(k, o) == [kind |-> k, of |-> o]
Struct(fs) == [kind |-> "struct", fields |-> fs]
Union(fs) == [kind |-> "union", fields |-> fs]
I32 == T("i32", 0)
U8 == T("u8", 0)

One(n, ks) == {<<T(k, o)>> : k \in ks, o \in 1..n}
All == {"val", "ptr", "opt", "arr"}

(* Three structs of one field. *)
Structs3 == {Struct(fs) : fs \in {<<I32>>, <<U8, I32>>} \cup One(3, All)}
StructModules == [1..3 -> Structs3]

(* Two needs in one declaration, unions among the declarations. *)
Pairs == {<<T(k, o), T(j, p)>> : k \in {"val", "slice"}, j \in {"val", "opt", "arr"},
                                 o \in 2..3, p \in 1..3}
MixedModules == {<<a, b, c>> : a \in {Struct(fs) : fs \in Pairs},
                               b \in {Struct(fs) : fs \in One(3, {"val", "opt", "arr"})}
                                  \cup {Union(fs) : fs \in One(3, {"val", "ptr"})},
                               c \in {Struct(<<U8>>), Union(<<U8, I32>>)}
                                  \cup {Struct(fs) : fs \in One(3, {"val", "ptr"})}}

MCPrograms == StructModules \cup MixedModules
=============================================================================
