---------------------------- MODULE AsmSemantics ----------------------------
(***************************************************************************)
(* Reference: what the assembler makes of the label names in a listing.    *)
(* This is the meaning the front ends must preserve, not a model of the    *)
(* repository's code. A listing is a sequence of instructions with fields  *)
(* op and name; a Label instruction defines its name.                      *)
(*                                                                         *)
(* GNU as: a numeric label N may be defined any number of times; a         *)
(* reference Nb names the nearest definition of N before it and Nf the     *)
(* nearest one after it. Every other name is a symbol, defined once, and   *)
(* names itself, whatever its last character.                              *)
(***************************************************************************)
EXTENDS Integers, Sequences

CONSTANTS FirstChar(_), LastChar(_), Chop(_)

IsLocalRef(n) == FirstChar(n) = "digit" /\ LastChar(n) \in {"b", "f"}

Definitions(lst, n) == {p \in DOMAIN lst : lst[p].op = "Label" /\ lst[p].name = n}

\* the listing positions the name used at position p refers to ({} if none)
Target(lst, p) ==
  LET n == lst[p].name IN
  IF IsLocalRef(n)
  THEN LET defs == Definitions(lst, Chop(n))
           before == {q \in defs : q < p}
           after  == {q \in defs : q > p}
       IN IF LastChar(n) = "b"
          THEN {q \in before : \A r \in before : r <= q}
          ELSE {q \in after : \A r \in after : q <= r}
  ELSE Definitions(lst, n)
=============================================================================
