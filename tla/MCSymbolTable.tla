--------------------------- MODULE MCSymbolTable ---------------------------
(***************************************************************************)
(* Three names in tables of two buckets (the constructor's parameter; its  *)
(* default is 4), so that the second insertion into a scope doubles it:    *)
(* the names share a bucket before and the first two part after.           *)
(***************************************************************************)
EXTENDS SymbolTable

MCNames == {"u8", "a", "b"}
MCHashOf == [n \in MCNames |-> CASE n = "u8" -> 1 [] n = "a" -> 3 [] n = "b" -> 5]
MCBuiltins == {"u8"}
=============================================================================
