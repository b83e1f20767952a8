----------------------------- MODULE ArmParse ------------------------------
(***************************************************************************)
(* The ARMv8 assembly parser of verify/src/arm/parser.rs, on the text of a *)
(* line. Each nom parser is an operator from a string and a position to a *)
(* result: ok, the value and the position after it (Ok / Fail); an `alt`  *)
(* is a chain of IFs in the alternatives' order, since the first one that *)
(* succeeds wins. An ArmInstruction is a record: op (the enum variant),    *)
(* name (the Label operand it defines or targets, "" when that operand is *)
(* not a Label), cond ("none" or "c"), org (position in the listing,       *)
(* auxiliary), mop (MemoryOp), attrs (MemoryAttrs, size in bytes), lse     *)
(* (LSEop), sub (arithmetic / shift / move op or fence type) and ops (the *)
(* operands the variant keeps, as records [k, rt, name]). Register         *)
(* numbers, immediate values and case are abstracted away (listings are    *)
(* lower case, registers numbered below 256).                              *)
(***************************************************************************)
EXTENDS ParseText

LabelChar == Alpha \cup Digits \cup {"_", ".", "$"}
RegTypes  == {"x", "w", "v", "q", "d", "s", "h", "b"}

Opnd(k, rt, nm) == [k |-> k, rt |-> rt, name |-> nm]

NoAttrs == [size |-> 0, excl |-> FALSE, acq |-> FALSE, rel |-> FALSE]

Ins(op, nm, c, mop, attrs, lse, sub, ops) ==
  [op |-> op, name |-> nm, cond |-> c, org |-> 0, mop |-> mop, attrs |-> attrs,
   lse |-> lse, sub |-> sub, ops |-> ops]

ArmI(op, n, c, o) == [Ins(op, n, c, "", NoAttrs, "", "", <<>>) EXCEPT !.org = o]

Err == ArmI("Err", "", "none", 0)

-----------------------------------------------------------------------------
(* Operands                                                                *)

\* parse_register: "sp", or a register type followed by digits
PRegister(s, k) ==
  IF AtText(s, k, "sp") THEN Ok("sp", k + 2)
  ELSE IF Char(s, k) \in RegTypes /\ Char(s, k + 1) \in Digits
  THEN Ok(Char(s, k), SpanEnd(s, k + 1, Digits))
  ELSE Fail

\* parse_immediate: optional '#', optional '-', hex or decimal digits; the
\* unwrap of i64::from_str_radix panics on digits beyond i64::MAX
PImmediate(s, k) ==
  LET j1 == IF Char(s, k) = "#" THEN k + 1 ELSE k
      j2 == IF Char(s, j1) = "-" THEN j1 + 1 ELSE j1
      Num(a, base) ==
        Pick({IF FitsI64(SubSeq(s, a, e - 1), base) THEN Ok("imm", e) ELSE Abort
              : e \in {SpanEnd(s, a, IF base = 16 THEN HexDigits ELSE Digits)}})
  IN IF (AtText(s, j2, "0x") \/ AtText(s, j2, "0X")) /\ Char(s, j2 + 2) \in HexDigits
     THEN Num(j2 + 2, 16)
     ELSE IF Char(s, j2) \in Digits THEN Num(j2, 10)
     ELSE Fail

\* parse_label: a letter, '_' or '.', then letters, digits, '_', '.', '$'
PLabel(s, k) ==
  IF Char(s, k) \in Alpha \cup {"_", "."}
  THEN LET e == SpanEnd(s, k, LabelChar) IN Ok(SubSeq(s, k, e - 1), e)
  ELSE Fail

\* parse_fence_mode
PFenceMode(s, k) ==
  IF AtText(s, k, "sy") THEN Ok("SY", k + 2)
  ELSE IF AtText(s, k, "ld") THEN Ok("LD", k + 2)
  ELSE Fail

\* parse_addressing_mode: [Xn], [Xn, #imm]! or [Xn, #imm]; the post-indexed
\* form starts with the [Xn] the first alternative already accepts
PAddressing(s, k) ==
  IF Char(s, k) # "[" THEN Fail
  ELSE Pick({IF ~r.ok THEN Fail
             ELSE IF Char(s, r.next) = "]" THEN Ok(r.val, r.next + 1)
             ELSE Pick({IF Char(s, r.next) # "," THEN Fail
                        ELSE IF i = Abort THEN Abort
                        ELSE IF i.ok /\ Char(s, i.next) = "]"
                        THEN Ok(r.val, IF Char(s, i.next + 1) = "!" THEN i.next + 2 ELSE i.next + 1)
                        ELSE Fail : i \in {PImmediate(s, SpanEnd(s, r.next + 1, Blank))}})
             : r \in {PRegister(s, k + 1)}})

\* parse_operand, alternatives in order; a shifted register starts with the
\* register the third alternative accepts, so it is never reached
POperand(s, k) ==
  Pick({IF m = Abort THEN Abort
        ELSE IF m.ok THEN Ok(Opnd("mem", m.val, ""), m.next)
        ELSE IF i = Abort THEN Abort
        ELSE IF i.ok THEN Ok(Opnd("imm", "", ""), i.next)
        ELSE IF r.ok THEN Ok(Opnd("reg", r.val, ""), r.next)
        ELSE IF l.ok THEN Ok(Opnd("label", "", l.val), l.next)
        ELSE IF f.ok THEN Ok(Opnd("fence", "", f.val), f.next)
        ELSE Fail
        : m \in {PAddressing(s, k)}, i \in {PImmediate(s, k)}, r \in {PRegister(s, k)},
          l \in {PLabel(s, k)}, f \in {PFenceMode(s, k)}})

\* separated_list0((',', space0), preceded(space0, parse_operand)): the list
\* ends at the first separator not followed by an operand, or with Abort
\* where an operand parser panicked
RECURSIVE MoreOperands(_, _, _)
MoreOperands(s, n, acc) ==
  IF Char(s, n) # "," THEN acc
  ELSE Pick({IF o = Abort THEN Append(acc, Abort)
             ELSE IF o.ok THEN MoreOperands(s, o.next, Append(acc, o.val)) ELSE acc
             : o \in {POperand(s, SpanEnd(s, n + 1, Blank))}})

POperands(s, k) ==
  Pick({IF o = Abort THEN <<Abort>>
        ELSE IF o.ok THEN MoreOperands(s, o.next, <<o.val>>) ELSE <<>>
        : o \in {POperand(s, SpanEnd(s, k, Blank))}})

-----------------------------------------------------------------------------
(* Instructions: each parser takes the name and the operands               *)

ParseArithmetic(n, ops) ==
  IF Len(ops) >= 2 /\ n \in {"add", "sub", "mul", "and", "orr", "eor"}
  THEN Ins("Arithmetic", "", "none", "", NoAttrs, "", n, SubSeq(ops, 1, IF Len(ops) >= 3 THEN 3 ELSE 2))
  ELSE Err

ParseShift(n, ops) ==
  IF Len(ops) = 2 /\ n \in {"lsl", "lsr", "asr"}
  THEN Ins("Shift", "", "none", "", NoAttrs, "", n, ops)
  ELSE Err

ParseMove(n, ops) ==
  IF Len(ops) = 2 /\ n \in {"mov", "mvn", "neg"}
  THEN Ins("Move", "", "none", "", NoAttrs, "", n, ops)
  ELSE Err

ParsePair(n, ops) ==
  IF /\ n \in {"stp", "ldp"} /\ Len(ops) = 3
     /\ ops[1].k = "reg" /\ ops[2].k = "reg" /\ ops[3].k = "mem" /\ ops[1].rt = ops[2].rt
  THEN Ins("MemoryPair", "", "none", IF n = "ldp" THEN "Load" ELSE "Store", NoAttrs, "", "", ops)
  ELSE Err

\* parse_memory_size_from_suffix, in bytes
SizeFromSuffix(sfx, ops) ==
  IF sfx = "b" THEN 1
  ELSE IF sfx = "h" THEN 2
  ELSE IF \E i \in DOMAIN ops : ops[i].k = "reg" /\ ops[i].rt = "w" THEN 4
  ELSE 8

\* faulty variant: the size of an exclusive store read from all operands
\* (the status register included)
ParseMemoryAttrsAllOps(mop, n, ops) ==
  [size |-> SizeFromSuffix(Char(n, Len(n)), ops),
   excl |-> HasSub(n, "xr"), acq |-> HasSub(n, "a"), rel |-> HasSub(n, "l")]

\* parse_memory_attrs
ParseMemoryAttrs(mop, n, ops) ==
  LET excl == HasSub(n, "xr") IN
  [size |-> SizeFromSuffix(Char(n, Len(n)), IF mop = "Store" /\ excl THEN Tail(ops) ELSE ops),
   excl |-> excl, acq |-> HasSub(n, "a"), rel |-> HasSub(n, "l")]

LsePrefixes == {"ldadd", "ldeor", "ldclr", "ldset", "ldumax", "stadd", "steor",
                "stclr", "stset", "stumax", "swp", "cas"}

LseOp(n) ==
  IF HasSub(n, "add") THEN "add" ELSE IF HasSub(n, "eor") THEN "eor"
  ELSE IF HasSub(n, "clr") THEN "clr" ELSE IF HasSub(n, "set") THEN "set"
  ELSE IF HasSub(n, "max") THEN "max" ELSE IF HasSub(n, "swp") THEN "swp"
  ELSE "cas"

MemOp(n) ==
  IF StartsWith(n, "ld") \/ StartsWith(n, "l") THEN "Load"
  ELSE IF StartsWith(n, "swp") \/ StartsWith(n, "cas") THEN "Rmw"
  ELSE IF StartsWith(n, "st") \/ StartsWith(n, "s") THEN "Store"
  ELSE ""

\* parse_memory_instruction: exclusive store, LSE, or a plain access
ParseMemory(n, ops) ==
  Pick({IF Len(ops) < 2 \/ mop = "" THEN Err
     ELSE IF (HasSub(n, "stlxr") \/ HasSub(n, "stxr")) /\ Len(ops) >= 3
     THEN Ins("MemoryExclusive", "", "none", mop, attrs, "", "", SubSeq(ops, 1, 3))
     ELSE IF \E p \in LsePrefixes : StartsWith(n, p)
     THEN IF StartsWith(n, "ld") \/ StartsWith(n, "swp") \/ StartsWith(n, "cas")
          THEN IF Len(ops) >= 3
               THEN Ins("MemoryLSE", "", "none", mop, attrs, LseOp(n), "", SubSeq(ops, 1, 3))
               ELSE Err
          ELSE Ins("MemoryLSE", "", "none", mop, attrs, LseOp(n), "", <<ops[1], ops[1], ops[2]>>)
     ELSE Ins("Memory", "", "none", mop, attrs, "", "", SubSeq(ops, 1, 2))
     : mop \in {MemOp(n)}, attrs \in {ParseMemoryAttrs(MemOp(n), n, ops)}})

CondCodes == {"eq", "ne", "cs", "cc", "mi", "pl", "vs", "vc", "hi", "hs", "ls",
              "lo", "ge", "lt", "gt", "le", "al", "nv"}

\* parse_condition_code, with the leading '.' stripped
IsCondCode(t) == (IF Char(t, 1) = "." THEN SubSeq(t, 2, Len(t)) ELSE t) \in CondCodes

\* the name of a Label operand, "" for any other operand
Target(o) == IF o.k = "label" THEN o.name ELSE ""

\* parse_branch_instruction
ParseBranch(n, ops) ==
  CASE n \in {"bl", "br", "blr"} ->
         IF Len(ops) = 1
         THEN ArmI(IF n = "bl" THEN "BranchLink" ELSE IF n = "br" THEN "BranchRegister"
                   ELSE "BranchLinkRegister", Target(ops[1]), "none", 0)
         ELSE Err
    [] n = "ret" -> ArmI("Return", "", "none", 0)
    [] n \in {"cbz", "cbnz"} ->
         IF Len(ops) = 2 THEN ArmI("Branch", Target(ops[2]), "c", 0) ELSE Err
    [] n \in {"tbz", "tbnz"} ->
         IF Len(ops) = 3 THEN ArmI("TestBitBranch", Target(ops[3]), "c", 0) ELSE Err
    [] OTHER ->
         IF Len(ops) # 1 THEN Err
         ELSE IF n = "b" THEN ArmI("Branch", Target(ops[1]), "none", 0)
         ELSE IF StartsWith(n, "b") /\ Len(n) > 1 /\ IsCondCode(SubSeq(n, 2, Len(n)))
         THEN ArmI("Branch", Target(ops[1]), "c", 0)
         ELSE Err

\* parse_comparison_instruction; indexing two operands panics on fewer
ParseCmp(n, ops) ==
  IF n # "cmp" THEN Err
  ELSE IF Len(ops) < 2 THEN ArmI("Panic", "", "none", 0)
  ELSE Ins("Cmp", "", "none", "", NoAttrs, "", "", SubSeq(ops, 1, 2))

\* parse_conditional_select (the condition code is abstracted)
ParseCsel(n, ops) ==
  IF n = "csel" /\ Len(ops) >= 4
  THEN Ins("Csel", "", "none", "", NoAttrs, "", "", SubSeq(ops, 1, 3))
  ELSE Err

\* parse_fence_instruction: the first FenceMode operand, SY when none
ParseFence(n, ops) ==
  LET modes == {i \in DOMAIN ops : ops[i].k = "fence"} IN
  IF n # "dmb" THEN Err
  ELSE Ins("Dmb", "", "none", "", NoAttrs, "",
           IF modes = {} THEN "SY"
           ELSE ops[CHOOSE i \in modes : \A j \in modes : i <= j].name, <<>>)

\* parse_instruction: the name, the operands, the rest of the line dropped,
\* then the first of the instruction parsers that accepts them
ParseInstruction(s) ==
  Pick({IF e = 1 THEN Err
        ELSE Pick({IF \E j \in DOMAIN ops : ops[j] = Abort THEN ArmI("Abort", "", "none", 0)
                   ELSE Pick({LET oks == {i \in DOMAIN alts : alts[i].op # "Err"} IN
                         IF oks = {} THEN Err ELSE alts[CHOOSE i \in oks : \A j \in oks : i <= j]
                         : alts \in {<<ParseArithmetic(n, ops), ParseShift(n, ops), ParseMove(n, ops),
                                       ParsePair(n, ops), ParseMemory(n, ops), ParseBranch(n, ops),
                                       ParseCmp(n, ops), ParseCsel(n, ops), ParseFence(n, ops)>>}})
                   : n \in {SubSeq(s, 1, e - 1)}, ops \in {POperands(s, e)}})
        : e \in {SpanEnd(s, 1, Alpha \cup {"."})}})

-----------------------------------------------------------------------------
(* Lines                                                                   *)

\* parse_label_def: a label and ':'
ParseLabelDef(s) ==
  Pick({IF l.ok /\ Char(s, l.next) = ":" THEN Ok(ArmI("Label", l.val, "none", 0), l.next + 1)
        ELSE Fail : l \in {PLabel(s, 1)}})

\* "<tag> <label>,<rest of line>" of .size and .type
SymbolDirective(s, k) ==
  Pick({IF b > k /\ l.ok /\ Char(s, l.next) = "," THEN Ok("dir", Len(s) + 1) ELSE Fail
        : b \in {SpanEnd(s, k, Blank)}, l \in {PLabel(s, SpanEnd(s, k, Blank))}})

\* an optional ", <digits>" of .p2align
OptNumber(s, k) ==
  IF Char(s, k) = "," THEN SpanEnd(s, SpanEnd(s, k + 1, Blank), Digits) ELSE k

\* parse_directive: '.' and one of six directives, whatever follows
ParseDirective(s) ==
  LET b(k) == SpanEnd(s, k, Blank)
  IN IF Char(s, 1) # "." THEN Fail
     ELSE IF AtText(s, 2, "cfi_startproc") THEN Ok("dir", 15)
     ELSE IF AtText(s, 2, "cfi_endproc") THEN Ok("dir", 13)
     ELSE IF AtText(s, 2, "size") /\ SymbolDirective(s, 6).ok THEN Ok("dir", Len(s) + 1)
     ELSE IF AtText(s, 2, "align") /\ b(7) > 7 /\ Char(s, b(7)) \in Digits
     THEN Ok("dir", SpanEnd(s, b(7), Digits))
     ELSE IF AtText(s, 2, "p2align") /\ b(9) > 9 /\ Char(s, b(9)) \in Digits
     THEN Ok("dir", OptNumber(s, OptNumber(s, SpanEnd(s, b(9), Digits))))
     ELSE IF AtText(s, 2, "type") /\ SymbolDirective(s, 6).ok THEN Ok("dir", Len(s) + 1)
     ELSE Fail

\* parse_line: the trimmed line is a label definition, a directive or an
\* instruction, whichever succeeds first; it is Unhandled unless that one
\* consumed the whole line
ParseLine(line) ==
  LET Unhandled == ArmI("Unhandled", "", "none", 0) IN
  Pick({IF t = "" THEN Unhandled
        ELSE Pick({IF ld.ok THEN IF ld.next = Len(t) + 1 THEN ld.val ELSE Unhandled
                   ELSE IF d.ok THEN IF d.next = Len(t) + 1 THEN ArmI("Directive", "", "none", 0)
                                     ELSE Unhandled
                   ELSE IF i.op # "Err" THEN i
                   ELSE Unhandled
                   : ld \in {ParseLabelDef(t)}, d \in {ParseDirective(t)}, i \in {ParseInstruction(t)}})
        : t \in {Trim(line)}})

\* the unwrap of parse_immediate panicked on a line of the listing:
\* parse_arm_assembly does not return
ParsePanics(lst) == \E p \in DOMAIN lst : lst[p].op = "Abort"

\* parse_arm_assembly on a listing of lines, org numbering the positions
ParseAsm(lines) == [p \in DOMAIN lines |-> [ParseLine(lines[p]) EXCEPT !.org = p]]
=============================================================================
