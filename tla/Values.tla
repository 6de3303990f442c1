------------------------------- MODULE Values -------------------------------
(***************************************************************************)
(* The values in the cells of a row.  A value keeps its dynamic Go type,   *)
(* because a map keyed by interface{} tells int(5) from int64(5); n stands *)
(* for the payload of any type.                                            *)
(***************************************************************************)
EXTENDS Integers

GoType == {"int", "int64", "float64", "string", "bool"}
Value == [go : GoType, n : Int]

Int64(n) == [go |-> "int64", n |-> n]

IsNumber(v) == v.go \in {"int", "int64", "float64"}

\* WHERE compares numbers as float64, whatever their Go type.
Compared(v) == IF IsNumber(v) THEN [go |-> "number", n |-> v.n] ELSE v

=============================================================================
