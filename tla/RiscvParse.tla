----------------------------- MODULE RiscvParse -----------------------------
(***************************************************************************)
(* The RISC-V assembly parser of verify/src/riscv/parser.rs, on the text   *)
(* of a line. As in ArmParse, each nom parser is an operator from a string *)
(* and a position to a result [ok, val, next], and an `alt` tries its      *)
(* alternatives in order.                                                  *)
(*                                                                         *)
(* A RiscvInstruction is a record with the fields every variant may use:   *)
(* op (the variant), name (the label it defines or names), rd and rs (the  *)
(* first and second register: rd / rs1 / dst / src, and rs2 / src), sub    *)
(* (ComparisonOp, AtomicOp or ArithmeticOp, "w" for negw), size (Size in   *)
(* bytes), sem (AtomicSemantics), mem (a MemoryOperand), pred and succ     *)
(* (FenceMode) and org (the listing position, auxiliary). A register is    *)
(* [t, n]: its RegisterType (A, T, S, X or the special name) and number,   *)
(* -1 for None. An immediate is kept as whether it is zero ("0" / "n"),   *)
(* which is all the lowering tells apart. Listings are lower case.         *)
(***************************************************************************)
EXTENDS ParseText, FiniteSets, TLC

AlNum == Alpha \cup Digits

Reg(t, n) == [t |-> t, n |-> n]
NoReg == Reg("", -1)
Mem(off, base) == [off |-> off, base |-> base]
NoMem == Mem("", NoReg)

RvIns(op, nm, rd, rs, sub, size, sem, mem) ==
  [op |-> op, name |-> nm, rd |-> rd, rs |-> rs, sub |-> sub, size |-> size,
   sem |-> sem, mem |-> mem, pred |-> "", succ |-> "", org |-> 0]

Unhandled == RvIns("Unhandled", "", NoReg, NoReg, "", 0, "", NoMem)

\* an operand: k is its kind, reg / mem its register or memory operand, str
\* the fence mode, the label, or the zero-ness of an immediate
Opd(k, r, m, str) == [k |-> k, reg |-> r, mem |-> m, str |-> str]

\* the value of a string of decimal digits
RECURSIVE Num(_)
Num(d) == IF d = "" THEN 0
          ELSE 10 * Num(SubSeq(d, 1, Len(d) - 1))
               + CHOOSE v \in 0..9 : SubSeq("0123456789", v + 1, v + 1) = Char(d, Len(d))

IsNumber(d) == d # "" /\ \A i \in 1..Len(d) : Char(d, i) \in Digits

-----------------------------------------------------------------------------
(* Operands                                                                *)

\* parse_register: an alphanumeric word; zero, ra, sp, a0-a7, t0-t6, s0-s9
\* (one digit), x<u8>; a8, a9, t7-t9 are taken as x registers
PRegister(s, k) ==
  Pick({IF e = k THEN Fail
        ELSE Pick({IF w \in {"zero", "ra", "sp"} THEN Ok(Reg(w, -1), e)
                   ELSE IF Len(w) = 2 /\ Char(w, 1) \in {"a", "t", "s"} /\ Char(w, 2) \in Digits
                   THEN LET n == Num(Char(w, 2))
                            lim == IF Char(w, 1) = "a" THEN 7 ELSE IF Char(w, 1) = "t" THEN 6 ELSE 11
                        IN Ok(Reg(IF n <= lim THEN Char(w, 1) ELSE "x", n), e)
                   ELSE IF Char(w, 1) = "x" /\ IsNumber(SubSeq(w, 2, Len(w)))
                           /\ Num(SubSeq(w, 2, Len(w))) <= 255
                   THEN Ok(Reg("x", Num(SubSeq(w, 2, Len(w)))), e)
                   ELSE Fail
                   : w \in {SubSeq(s, k, e - 1)}})
        : e \in {SpanEnd(s, k, AlNum)}})

\* parse_immediate: optional '#' and '-', hex or decimal digits; a decimal
\* number fails when the rest of the input contains a 'b' or an 'f'
PImmediate(s, k) ==
  LET j1 == IF Char(s, k) = "#" THEN k + 1 ELSE k
      j2 == IF Char(s, j1) = "-" THEN j1 + 1 ELSE j1
      Zero(a, b) == IF \A i \in a..b - 1 : Char(s, i) = "0" THEN "0" ELSE "n"
  IN IF (AtText(s, j2, "0x") \/ AtText(s, j2, "0X")) /\ Char(s, j2 + 2) \in HexDigits
     THEN Pick({IF FitsI64(SubSeq(s, j2 + 2, e - 1), 16) THEN Ok(Zero(j2 + 2, e), e) ELSE Abort
                : e \in {SpanEnd(s, j2 + 2, HexDigits)}})
     ELSE IF Char(s, j2) \in Digits
     THEN Pick({IF \E i \in e..Len(s) : Char(s, i) \in {"b", "f"} THEN Fail
                ELSE IF FitsI64(SubSeq(s, j2, e - 1), 10) THEN Ok(Zero(j2, e), e) ELSE Abort
                : e \in {SpanEnd(s, j2, Digits)}})
     ELSE Fail

\* parse_memory_operand: an immediate offset, then (register)
PMemory(s, k) ==
  Pick({IF i = Abort THEN Abort
        ELSE IF ~i.ok \/ Char(s, i.next) # "(" THEN Fail
        ELSE Pick({IF r.ok /\ Char(s, r.next) = ")" THEN Ok(Mem(i.val, r.val), r.next + 1) ELSE Fail
                   : r \in {PRegister(s, i.next + 1)}})
        : i \in {PImmediate(s, k)}})

\* parse_label: letters, digits, '_', '.', '$'
PLabel(s, k) ==
  Pick({IF e = k THEN Fail ELSE Ok(SubSeq(s, k, e - 1), e)
        : e \in {SpanEnd(s, k, AlNum \cup {"_", ".", "$"})}})

\* parse_operand_label: also '@'; not 0x..., and a name starting with a
\* digit must end in 'f' or 'b'
POperandLabel(s, k) ==
  Pick({IF e = k \/ StartsWith(l, "0x") \/ StartsWith(l, "0X")
           \/ (Char(l, 1) \in Digits /\ Char(l, Len(l)) \notin {"f", "b"})
        THEN Fail ELSE Ok(l, e)
        : e \in {SpanEnd(s, k, AlNum \cup {"_", ".", "$", "@"})},
          l \in {SubSeq(s, k, SpanEnd(s, k, AlNum \cup {"_", ".", "$", "@"}) - 1)}})

\* parse_fence_mode_operand: the first tag that matches
PFenceMode(s, k) ==
  IF AtText(s, k, "iorw") THEN Ok("InputOutputReadWrite", k + 4)
  ELSE IF AtText(s, k, "ow") THEN Ok("OutputWrite", k + 2)
  ELSE IF AtText(s, k, "rw") THEN Ok("ReadWrite", k + 2)
  ELSE IF AtText(s, k, "r") THEN Ok("Read", k + 1)
  ELSE IF AtText(s, k, "w") THEN Ok("Write", k + 1)
  ELSE Fail

\* parse_operand: memory, register, fence mode, immediate, label
POperand(s, k) ==
  Pick({IF m = Abort THEN Abort
        ELSE IF m.ok THEN Ok(Opd("mem", NoReg, m.val, ""), m.next)
        ELSE Pick({IF r.ok THEN Ok(Opd("reg", r.val, NoMem, ""), r.next)
                   ELSE Pick({IF f.ok THEN Ok(Opd("fence", NoReg, NoMem, f.val), f.next)
                              ELSE Pick({IF i.ok THEN Ok(Opd("imm", NoReg, NoMem, i.val), i.next)
                                         ELSE Pick({IF l.ok THEN Ok(Opd("label", NoReg, NoMem, l.val), l.next)
                                                    ELSE Fail : l \in {POperandLabel(s, k)}})
                                         : i \in {PImmediate(s, k)}})
                              : f \in {PFenceMode(s, k)}})
                   : r \in {PRegister(s, k)}})
        : m \in {PMemory(s, k)}})

\* separated_list0((space0, ',', space0), preceded(space0, parse_operand)):
\* the operands and the position after the last one
RECURSIVE MoreOperands(_, _, _)
MoreOperands(s, n, acc) ==
  LET j == SpanEnd(s, n, Blank) IN
  IF Char(s, j) # "," THEN Ok(acc, n)
  ELSE Pick({IF o = Abort THEN Abort
             ELSE IF o.ok THEN MoreOperands(s, o.next, Append(acc, o.val)) ELSE Ok(acc, n)
             : o \in {POperand(s, SpanEnd(s, j + 1, Blank))}})

POperands(s, k) ==
  Pick({IF o = Abort THEN Abort
        ELSE IF o.ok THEN MoreOperands(s, o.next, <<o.val>>) ELSE Ok(<<>>, k)
        : o \in {POperand(s, SpanEnd(s, k, Blank))}})

-----------------------------------------------------------------------------
(* Directives, labels, instruction names                                   *)

\* "<name>, <anything>" of .size and .type
SymbolDirective(s, k) ==
  Pick({IF b > k /\ l.ok /\ Char(s, l.next) = "," THEN Ok("dir", Len(s) + 1) ELSE Fail
        : b \in {SpanEnd(s, k, Blank)}, l \in {PLabel(s, SpanEnd(s, k, Blank))}})

\* an optional ", <digits>" of .p2align
OptNumber(s, k) ==
  IF Char(s, k) = "," THEN SpanEnd(s, SpanEnd(s, k + 1, Blank), Digits) ELSE k

\* parse_directive: '.' and one of six directives
PDirective(s) ==
  LET b(k) == SpanEnd(s, k, Blank)
  IN IF Char(s, 1) # "." THEN Fail
     ELSE IF AtText(s, 2, "cfi_startproc") THEN Ok("dir", 15)
     ELSE IF AtText(s, 2, "cfi_endproc") THEN Ok("dir", 13)
     ELSE IF AtText(s, 2, "size") /\ SymbolDirective(s, 6).ok THEN Ok("dir", Len(s) + 1)
     ELSE IF AtText(s, 2, "align") /\ b(7) > 7 /\ Char(s, b(7)) \in Digits
     THEN Ok("dir", SpanEnd(s, b(7), Digits))
     ELSE IF AtText(s, 2, "p2align") /\ b(9) > 9 /\ Char(s, b(9)) \in Digits
     THEN Ok("dir", OptNumber(s, OptNumber(s, SpanEnd(s, b(9), Digits))))
     ELSE IF AtText(s, 2, "type") /\ SymbolDirective(s, 6).ok THEN Ok("dir", Len(s) + 1)
     ELSE Fail

\* parse_label_def: a label and ':'
PLabelDef(s) ==
  Pick({IF l.ok /\ Char(s, l.next) = ":"
        THEN Ok(RvIns("Label", l.val, NoReg, NoReg, "", 0, "", NoMem), l.next + 1)
        ELSE Fail : l \in {PLabel(s, 1)}})

\* parse_instruction_name: letters, digits and '.'
NameEnd(s) == SpanEnd(s, 1, AlNum \cup {"."})

-----------------------------------------------------------------------------
(* map_instruction                                                         *)

NoArm == [Unhandled EXCEPT !.op = "NoArm"]

Kinds(ops) == [i \in DOMAIN ops |-> ops[i].k]

Zero == Reg("zero", -1)

CmpOf == [beq |-> "Eq", bne |-> "Ne", blt |-> "Lt", bge |-> "Ge",
          bltu |-> "Ltu", bgeu |-> "Geu", bgtu |-> "Gtu", bleu |-> "Leu"]

\* the arms of the match on the mnemonic, up to the default arm; NoArm
\* where the mnemonic is not one of them
MapNamed(n, ops) ==
  LET K == Kinds(ops)
      R(i) == ops[i].reg
      L(i) == ops[i].str
      Or(ok, ins) == IF ok THEN ins ELSE Unhandled
  IN CASE n \in DOMAIN CmpOf ->
            Or(K = <<"reg", "reg", "label">>, RvIns("Branch", L(3), R(1), R(2), CmpOf[n], 0, "", NoMem))
       [] n = "not" -> Or(K = <<"reg", "reg">>, RvIns("Not", "", R(1), R(2), "", 0, "", NoMem))
       [] n \in {"neg", "negw"} ->
            Or(K = <<"reg", "reg">>, RvIns("Neg", "", R(1), R(2), IF n = "negw" THEN "w" ELSE "", 0, "", NoMem))
       [] n = "li" -> Or(K = <<"reg", "imm">>, RvIns("LoadImmidate", "", R(1), NoReg, "", 0, "", NoMem))
       [] n \in {"bnez", "beqz"} ->
            Or(K = <<"reg", "label">>,
               RvIns("Branch", L(2), R(1), Zero, IF n = "bnez" THEN "Nez" ELSE "Eq", 0, "", NoMem))
       [] n = "jal" -> Or(K = <<"reg", "label">>, RvIns("Jump", L(2), R(1), NoReg, "", 0, "", NoMem))
       [] n = "j" -> Or(K = <<"label">>, RvIns("Jump", L(1), Zero, NoReg, "", 0, "", NoMem))
       [] n = "jr" -> Or(K = <<"reg">>, RvIns("Jump", "", Reg(R(1).t, -1), NoReg, "", 0, "", NoMem))
       [] n = "call" -> Or(K = <<"label">>, RvIns("Call", L(1), NoReg, NoReg, "", 0, "", NoMem))
       [] n = "la" -> Or(K = <<"reg", "label">>, RvIns("LoadAddress", L(2), R(1), NoReg, "", 0, "", NoMem))
       [] n = "fence" ->
            Or(K = <<"fence", "fence">>,
               [RvIns("Fence", "", NoReg, NoReg, "", 0, "", NoMem) EXCEPT !.pred = L(1), !.succ = L(2)])
       [] n = "ret" /\ ops = <<>> -> RvIns("Return", "", NoReg, NoReg, "", 0, "", NoMem)
       [] n \in {"mv", "sext.w"} ->
            Or(K = <<"reg", "reg">>,
               RvIns(IF n = "mv" THEN "Move" ELSE "SignExtendWord", "", R(1), R(2), "", 0, "", NoMem))
       [] OTHER -> NoArm

SizeOf == [b |-> 1, h |-> 2, w |-> 4, d |-> 8]
SemOf  == ("" :> "None") @@ [aq |-> "Acquire", rl |-> "Release", aqrl |-> "AcquireRelease"]
AmoOf  == [swap |-> "Swap", add |-> "Add", and |-> "And", or |-> "Or", xor |-> "Xor",
           max |-> "Max", min |-> "Min"]

\* is_load_instruction, is_unsigned_load_instruction, is_store_instruction,
\* and the arms of the default case that use them
MapLoadStore(n, ops) ==
  LET ok == Kinds(ops) = <<"reg", "mem">>
      Ld(op, sz) == IF ok THEN RvIns(op, "", ops[1].reg, NoReg, "", sz, "", ops[2].mem) ELSE Unhandled
  IN CASE n \in {"lb", "lh", "lw", "ld"} -> Ld("Load", SizeOf[SubSeq(n, 2, 2)])
       [] n \in {"lbu", "lhu", "lwu", "ldu"} -> Ld("UnsignedLoad", SizeOf[SubSeq(n, 2, 2)])
       [] n \in {"sb", "sh", "sw", "sd"} -> Ld("Store", SizeOf[SubSeq(n, 2, 2)])
       [] OTHER -> NoArm

\* the parts of name.split('.'): the text before the first '.', between the
\* first and the second, and between the second and the third
Part(n, i) ==
  LET dots == {k \in 1..Len(n) : Char(n, k) = "."}
      D(j) == CHOOSE k \in dots : Cardinality({m \in dots : m <= k}) = j
      from == IF i = 1 THEN 1 ELSE D(i - 1) + 1
      to   == IF Cardinality(dots) >= i THEN D(i) - 1 ELSE Len(n)
  IN SubSeq(n, from, to)

\* lr.<size>[.<sem>], sc.<size>[.<sem>], amo<op>.<size>[.<sem>]
MapAtomic(n, ops) ==
  LET base == Part(n, 1)
      sz   == Part(n, 2)
      sem  == IF Cardinality({k \in 1..Len(n) : Char(n, k) = "."}) >= 2 THEN Part(n, 3) ELSE ""
      K    == Kinds(ops)
      A(op, sub, k, rd, rs, m) ==
        IF K = k THEN RvIns(op, "", rd, rs, sub, SizeOf[sz], SemOf[sem], m) ELSE Unhandled
  IN IF \A k \in 1..Len(n) : Char(n, k) # "." THEN Unhandled
     ELSE IF sz \notin DOMAIN SizeOf \/ sem \notin DOMAIN SemOf THEN Unhandled
     ELSE IF base = "lr" THEN A("LoadReserved", "", <<"reg", "mem">>, ops[1].reg, NoReg, ops[2].mem)
     ELSE IF base = "sc"
     THEN A("StoreConditional", "", <<"reg", "reg", "mem">>, ops[1].reg, ops[2].reg, ops[3].mem)
     ELSE IF StartsWith(base, "amo") /\ SubSeq(base, 4, Len(base)) \in DOMAIN AmoOf
     THEN A("Atomic", AmoOf[SubSeq(base, 4, Len(base))], <<"reg", "reg", "mem">>,
            ops[1].reg, ops[2].reg, ops[3].mem)
     ELSE Unhandled

ArithOf == [add |-> "Add", sub |-> "Sub", mul |-> "Mul", and |-> "And", or |-> "Or",
            xor |-> "Xor", sll |-> "Sll", srl |-> "Srl", sra |-> "Sra"]

\* str::trim_end_matches(t): drop every trailing copy of t
RECURSIVE TrimEnd(_, _)
TrimEnd(n, t) ==
  IF Len(n) >= Len(t) /\ SubSeq(n, Len(n) - Len(t) + 1, Len(n)) = t
  THEN TrimEnd(SubSeq(n, 1, Len(n) - Len(t)), t) ELSE n

\* the rest of the default arm: <op>w, <op>iw, then the register-register
\* and register-immediate forms
MapArithmetic(n, ops) ==
  LET K == Kinds(ops)
      RR(b, sz) == IF K = <<"reg", "reg", "reg">>
                   THEN RvIns("ArithmeticRR", "", ops[1].reg, ops[2].reg, ArithOf[b], sz, "", NoMem)
                   ELSE Unhandled
      RI(b, sz) == IF K = <<"reg", "reg", "imm">>
                   THEN RvIns("ArithmeticRI", "", ops[1].reg, ops[2].reg, ArithOf[b], sz, "", NoMem)
                   ELSE Unhandled
      EndsW  == Len(n) >= 1 /\ Char(n, Len(n)) = "w"
      EndsIW == Len(n) >= 2 /\ SubSeq(n, Len(n) - 1, Len(n)) = "iw"
  IN IF EndsW /\ TrimEnd(n, "w") \in DOMAIN ArithOf THEN RR(TrimEnd(n, "w"), 4)
     ELSE IF EndsIW /\ TrimEnd(n, "iw") \in DOMAIN ArithOf \ {"sub", "mul"}
     THEN RI(TrimEnd(n, "iw"), 4)
     ELSE IF n \in DOMAIN ArithOf THEN RR(n, 0)
     ELSE IF n \in {"addi", "andi", "ori", "xori", "slli", "srli", "srai"}
     THEN RI(SubSeq(n, 1, Len(n) - 1), 0)
     ELSE Unhandled

\* map_instruction
MapInstruction(n, ops) ==
  Pick({IF named.op # "NoArm" THEN named
        ELSE Pick({IF ls.op # "NoArm" THEN ls
                   ELSE IF StartsWith(n, "lr") \/ StartsWith(n, "sc") \/ StartsWith(n, "amo")
                   THEN MapAtomic(n, ops)
                   ELSE MapArithmetic(n, ops)
                   : ls \in {MapLoadStore(n, ops)}})
        : named \in {MapNamed(n, ops)}})

\* parse_instruction: a name, the operands, map_instruction
PInstruction(s) ==
  IF NameEnd(s) = 1 THEN Fail
  ELSE Pick({IF o = Abort THEN Abort ELSE Ok(MapInstruction(SubSeq(s, 1, NameEnd(s) - 1), o.val), o.next)
             : o \in {POperands(s, NameEnd(s))}})

\* the line up to its first '#'
NoComment(line) ==
  IF \E k \in 1..Len(line) : Char(line, k) = "#"
  THEN SubSeq(line, 1, (CHOOSE k \in 1..Len(line) : Char(line, k) = "#"
                                    /\ \A m \in 1..k-1 : Char(line, m) # "#") - 1)
  ELSE line

\* parse_line: nothing for an empty line, else a label definition, a
\* directive or an instruction, whichever succeeds first, and Unhandled
\* unless it consumed the whole line; op "None" stands for Ok(None)
ParseLine(line) ==
  Pick({IF t = "" THEN [Unhandled EXCEPT !.op = "None"]
        ELSE Pick({IF ld.ok THEN IF ld.next = Len(t) + 1 THEN ld.val ELSE Unhandled
                   ELSE IF d.ok
                   THEN IF d.next = Len(t) + 1
                        THEN RvIns("Directive", "", NoReg, NoReg, "", 0, "", NoMem) ELSE Unhandled
                   ELSE Pick({IF i = Abort THEN [Unhandled EXCEPT !.op = "Abort"]
                              ELSE IF i.ok /\ i.next = Len(t) + 1 THEN i.val ELSE Unhandled
                              : i \in {PInstruction(t)}})
                   : ld \in {PLabelDef(t)}, d \in {PDirective(t)}})
        : t \in {Trim(NoComment(line))}})

\* the unwrap of parse_immediate panicked on a line of the listing (op
\* "Abort"): parse_riscv_assembly does not return
ParsePanics(lst) == \E p \in DOMAIN lst : lst[p].op = "Abort"

\* parse_riscv_assembly on a listing of lines: the lines that are not empty,
\* org numbering their positions
ParseAsm(lines) ==
  Pick({[p \in DOMAIN ins |-> [ins[p] EXCEPT !.org = p]]
        : ins \in {SelectSeq([p \in DOMAIN lines |-> ParseLine(lines[p])], LAMBDA x : x.op # "None")}})
====
