----------------------------- MODULE ParseText -----------------------------
(***************************************************************************)
(* Text helpers shared by the models of the two nom parsers               *)
(* (verify/src/arm/parser.rs, verify/src/riscv/parser.rs). A string is a  *)
(* TLA+ string, a position is 1-based, and a parser's result is a record  *)
(* [ok, val, next]: whether it matched, the value, and the position after *)
(* what it consumed.                                                       *)
(***************************************************************************)
EXTENDS Integers, Sequences

CharsOf(str) == {SubSeq(str, i, i) : i \in 1..Len(str)}

Alpha     == CharsOf("abcdefghijklmnopqrstuvwxyzABCDEFGHIJKLMNOPQRSTUVWXYZ")
Digits    == CharsOf("0123456789")
HexDigits == Digits \cup CharsOf("abcdefABCDEF")
Blank     == {" ", "\t"}

\* the k-th character, "" past either end
Char(s, k) == IF k \in 1..Len(s) THEN SubSeq(s, k, k) ELSE ""
AtText(s, k, t) == k >= 1 /\ k + Len(t) - 1 <= Len(s) /\ SubSeq(s, k, k + Len(t) - 1) = t
StartsWith(s, t) == AtText(s, 1, t)
HasSub(s, t) == \E k \in 1..Len(s) : AtText(s, k, t)

\* take_while from k over the characters of C: the position after the run
SpanEnd(s, k, C) ==
  IF k > Len(s) THEN k
  ELSE CHOOSE j \in k..Len(s) + 1 : (\A m \in k..j-1 : Char(s, m) \in C) /\ Char(s, j) \notin C

\* str::trim
Trim(s) ==
  LET a == SpanEnd(s, 1, Blank)
      b == CHOOSE j \in a-1..Len(s) : (j = a - 1 \/ Char(s, j) \notin Blank)
                                      /\ \A m \in j+1..Len(s) : Char(s, m) \in Blank
  IN SubSeq(s, a, b)

\* the value of a one-element set: binds an intermediate result once
Pick(S) == CHOOSE v \in S : TRUE

Fail == [ok |-> FALSE, val |-> "", next |-> 0]
Ok(v, n) == [ok |-> TRUE, val |-> v, next |-> n]

\* a parser that panicked: the panic unwinds through every parser above it
Abort == [ok |-> FALSE, val |-> "abort", next |-> 0]

\* the value of a decimal or hexadecimal digit
DigitVal(c) ==
  CHOOSE v \in 0..15 : c \in {SubSeq("0123456789abcdef", v + 1, v + 1),
                               SubSeq("0123456789ABCDEF", v + 1, v + 1)}

\* two digit strings of the same length, a not above b
RECURSIVE NotAbove(_, _)
NotAbove(a, b) ==
  \/ a = ""
  \/ DigitVal(Char(a, 1)) < DigitVal(Char(b, 1))
  \/ /\ DigitVal(Char(a, 1)) = DigitVal(Char(b, 1))
     /\ NotAbove(SubSeq(a, 2, Len(a)), SubSeq(b, 2, Len(b)))

\* i64::MAX in base 10 and 16
I64Max(base) == IF base = 10 THEN "9223372036854775807" ELSE "7fffffffffffffff"

\* i64::from_str_radix(d, base) is Ok: the digits, leading zeros dropped,
\* are a number no greater than i64::MAX
FitsNarrow(d, base) ==
  LET t == SubSeq(d, SpanEnd(d, 1, {"0"}), Len(d)) IN
  Len(t) < Len(I64Max(base))

FitsI64(d, base) ==
  LET t == SubSeq(d, SpanEnd(d, 1, {"0"}), Len(d)) IN
  \/ Len(t) < Len(I64Max(base))
  \/ Len(t) = Len(I64Max(base)) /\ NotAbove(t, I64Max(base))

====
