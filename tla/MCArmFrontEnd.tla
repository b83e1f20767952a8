--------------------------- MODULE MCArmFrontEnd ---------------------------
(***************************************************************************)
(* Model-checking instance of ArmFrontEnd on listings of text. A           *)
(* control-flow listing is an optional directive, then one or two          *)
(* functions: a global label followed by a body drawn from add, ret, bl to *)
(* an external symbol, b / b.ne to a label of the function, and the        *)
(* function's local labels in order. Extra adds tbz and cbnz to those      *)
(* labels, the numeric label 1 with b.ne 1f / cbnz 1b, an indirect br, and *)
(* in the second function a literal load ldr w0, .Lc ("literal"), moves   *)
(* of constants at the edge of i64 ("wide") and a release store of the    *)
(* zero register stlr wzr, [x0] ("zero"). Only listings the                *)
(* assembler accepts are kept. One more listing is the function gb whose   *)
(* body is Block: memory accesses, fences and arithmetic written from      *)
(* their ARMv8 parts, against which their lowering is checked.             *)
(***************************************************************************)
EXTENDS ArmFrontEnd, SequencesExt

CONSTANTS
  Locals1,    \* local labels of the first function, placed in this order
  Locals2,    \* local labels of the second function
  Body1Max,   \* instructions after the first function's label
  Body2Max,   \* instructions after the second function's label
  Extra,      \* the further forms that occur: a subset of ExtraForms
  Block       \* the body of gb: a sequence of instruction descriptions

ExtraForms == {"tbz", "numeric", "br", "literal", "wide", "zero"}

MCLocals1 == <<".La">>
MCLocals1B == <<".La", ".Lab">>
MCLocals2 == <<".Lc">>
MCNoExtra == {}
MCAllExtra == ExtraForms
MCZero == {"zero"}
MCPanicForms == {"literal", "wide", "zero"}

Asm == INSTANCE AsmSemantics

Labels == {"ga", "gb", "gc", ".La", ".Lab", ".Lc", "1"}

\* each line of a control-flow listing with what the ARMv8 assembler makes
\* of it: a label definition, a branch to a name (cond "none" when it is
\* unconditional), an indirect jump with no static target, a return, a
\* load of a literal, or an instruction that falls through
Asm1(op, name, cond) == [op |-> op, name |-> name, cond |-> cond]

\* moves of the largest constant i64 holds, and of the next one
WideFits == {"mov x0, #9223372036854775807", "mov x0, #0x007fffffffffffffff"}
WideOver == "mov x0, #0x8000000000000000"

\* a release store of zero, as compilers write it for an unlock
ZeroStore == "stlr wzr, [x0]"

Reading ==
  [t \in {"add x0, x0, #1", "bl ext", ".cfi_startproc"} |-> Asm1("Other", "", "")]
  @@ ("ret" :> Asm1("Return", "", "")) @@ ("br x1" :> Asm1("Jump", "", ""))
  @@ ("ldr w0, .Lc" :> Asm1("Literal", ".Lc", "")) @@ (ZeroStore :> Asm1("Zero", "", ""))
  @@ [t \in WideFits |-> Asm1("Other", "", "")] @@ (WideOver :> Asm1("Wide", "", ""))
  @@ [t \in {l \o ":" : l \in Labels} |-> Asm1("Label", SubSeq(t, 1, Len(t) - 1), "")]
  @@ [t \in {"b " \o l : l \in Labels \cup {"1f", "1b"}} |-> Asm1("Branch", SubSeq(t, 3, Len(t)), "none")]
  @@ [t \in {"b.ne " \o l : l \in Labels \cup {"1f", "1b"}} |-> Asm1("Branch", SubSeq(t, 6, Len(t)), "c")]
  @@ [t \in {"cbnz w0, " \o l : l \in Labels \cup {"1f", "1b"}} |-> Asm1("Branch", SubSeq(t, 10, Len(t)), "c")]
  @@ [t \in {"tbz w0, #1, " \o l : l \in Labels} |-> Asm1("Branch", SubSeq(t, 13, Len(t)), "c")]

Lines == DOMAIN Reading

\* every line, parsed once
Parsed == [t \in Lines |-> ParseLine(t)]

\* the assembler's reading of a listing of lines; the accesses of Block
\* fall through
Ref(lines) ==
  [p \in DOMAIN lines |-> IF lines[p] \in Lines THEN Reading[lines[p]] ELSE Asm1("Other", "", "")]

\* the lines that may come next in a function named fn whose local labels
\* are locals, k of them placed
Cands(fn, locals, k) ==
  LET lbls == {fn} \cup {locals[i] : i \in DOMAIN locals} IN
  {"add x0, x0, #1", "ret", "bl ext"}
    \cup (IF k < Len(locals) THEN {locals[k+1] \o ":"} ELSE {})
    \cup {pre \o t : t \in lbls, pre \in {"b ", "b.ne "}}
    \cup (IF "tbz" \in Extra THEN {pre \o t : t \in lbls, pre \in {"tbz w0, #1, ", "cbnz w0, "}} ELSE {})
    \cup (IF "numeric" \in Extra THEN {"1:", "b.ne 1f", "cbnz w0, 1b"} ELSE {})
    \cup (IF "br" \in Extra THEN {"br x1"} ELSE {})
    \cup (IF "literal" \in Extra /\ fn = "gc" THEN {"ldr w0, .Lc"} ELSE {})
    \cup (IF "wide" \in Extra /\ fn = "gc" THEN WideFits \cup {WideOver} ELSE {})
    \cup (IF "zero" \in Extra /\ fn = "gc" THEN {ZeroStore} ELSE {})

\* bodies of at most n lines that place locals[k+1..]; two adds in a row
\* have the control flow of one
RECURSIVE Body(_, _, _, _, _)
Body(fn, locals, n, k, prev) ==
  (IF k = Len(locals) THEN {<<>>} ELSE {})
    \cup IF n = 0 THEN {}
         ELSE UNION {{<<x>> \o s : s \in Body(fn, locals, n - 1,
                                               IF k < Len(locals) /\ x = locals[k + 1] \o ":"
                                               THEN k + 1 ELSE k, x)}
                     : x \in {x \in Cands(fn, locals, k) :
                                ~(Parsed[prev].op = "Arithmetic" /\ Parsed[x].op = "Arithmetic")}}

\* a function the assembler accepts: every numeric reference has its label
Resolved(f) ==
  \A p \in DOMAIN f : Reading[f[p]].name \in {"1b", "1f"} => Asm!Target(Ref(f), p) # {}

Function(fn, locals, n) ==
  {f \in {<<fn \o ":">> \o b : b \in Body(fn, locals, n, 0, fn \o ":")} : Resolved(f)}

-----------------------------------------------------------------------------
(* The instructions of Block, described by their ARMv8 parts: cls is load, *)
(* store, ldop / stop (LSE ld<op> / st<op>), swp, cas, fence or alu; a and *)
(* l the acquire and release suffixes, x exclusivity, sz the size suffix,  *)
(* w the data register width; op the LSE operation, barrier option or, for *)
(* alu, the whole instruction.                                             *)
Desc(cls, op, a, l, x, sz, w) == [cls |-> cls, op |-> op, a |-> a, l |-> l, x |-> x, sz |-> sz, w |-> w]

Sfx(b, t) == IF b THEN t ELSE ""

Text(d) ==
  LET r1 == d.w \o "1" IN
  CASE d.cls = "load"  -> "ld" \o Sfx(d.a, "a") \o Sfx(d.x, "x") \o "r" \o d.sz \o " " \o r1 \o ", [x0]"
    [] d.cls = "store" /\ d.x -> "st" \o Sfx(d.l, "l") \o "xr" \o d.sz \o " w2, " \o r1 \o ", [x0]"
    [] d.cls = "store" -> "st" \o Sfx(d.l, "l") \o "r" \o d.sz \o " " \o r1 \o ", [x0]"
    [] d.cls = "ldop"  -> "ld" \o d.op \o Sfx(d.a, "a") \o Sfx(d.l, "l") \o d.sz \o " " \o r1 \o ", " \o d.w \o "2, [x0]"
    [] d.cls = "stop"  -> "st" \o d.op \o Sfx(d.l, "l") \o d.sz \o " " \o r1 \o ", [x0]"
    [] d.cls \in {"swp", "cas"} -> d.cls \o Sfx(d.a, "a") \o Sfx(d.l, "l") \o d.sz \o " " \o r1 \o ", " \o d.w \o "2, [x0]"
    [] d.cls = "fence" -> "dmb " \o d.op
    [] d.cls = "alu"   -> d.op

BlockListing == <<"gb:">> \o [i \in DOMAIN Block |-> Text(Block[i])] \o <<"ret">>

MCListings ==
  {pre \o f1 \o f2 :
     pre \in {<<>>, <<".cfi_startproc">>},
     f1 \in Function("ga", Locals1, Body1Max),
     f2 \in {<<>>} \cup Function("gc", Locals2, Body2Max)}
  \cup (IF Block = <<>> THEN {} ELSE {BlockListing})

Ld(a, x, sz, w)   == Desc("load", "", a, FALSE, x, sz, w)
St(l, x, sz, w)   == Desc("store", "", FALSE, l, x, sz, w)
LdOp(op, a, l)    == Desc("ldop", op, a, l, FALSE, "", "w")
StOp(op, l)       == Desc("stop", op, FALSE, l, FALSE, "", "w")
Rmw(c, a, l, sz)  == Desc(c, "", a, l, FALSE, sz, "w")
Dmb(opt)          == Desc("fence", opt, FALSE, FALSE, FALSE, "", "")
Alu(t)            == Desc("alu", t, FALSE, FALSE, FALSE, "", "")

MCNoBlock == <<>>

\* accesses of every class, ordering and size, fences, arithmetic
MCBlock ==
  <<Ld(FALSE, FALSE, "", "x"), Ld(FALSE, FALSE, "b", "w"), Ld(TRUE, FALSE, "", "w"),
    Ld(FALSE, TRUE, "", "x"), Ld(TRUE, TRUE, "h", "w"),
    St(FALSE, FALSE, "", "x"), St(FALSE, FALSE, "h", "w"), St(TRUE, FALSE, "", "w"),
    St(FALSE, TRUE, "", "x"), St(TRUE, TRUE, "b", "w"),
    LdOp("add", TRUE, TRUE), LdOp("set", FALSE, TRUE), LdOp("eor", FALSE, TRUE),
    LdOp("clr", TRUE, TRUE), LdOp("umax", TRUE, TRUE),
    StOp("add", FALSE), StOp("add", TRUE), StOp("set", FALSE), StOp("eor", FALSE),
    Rmw("swp", FALSE, FALSE, ""), Rmw("swp", TRUE, FALSE, ""), Rmw("swp", FALSE, TRUE, "h"),
    Rmw("swp", TRUE, TRUE, ""), Rmw("cas", TRUE, FALSE, ""), Rmw("cas", TRUE, TRUE, "b"),
    Dmb("sy"), Dmb("ish"),
    Alu("add x0, x1, x2"), Alu("sub w0, w0, #1"), Alu("and x0, x0, #255"),
    Alu("mov w0, w1"), Alu("neg x0, x1"), Alu("cmp w0, #1"), Alu("csel w0, w1, w2, eq")>>

\* the same with relaxed and one-sided LSE forms, a load-only barrier, the
\* three-operand shift and flag-setting arithmetic compilers emit
MCBlockFull ==
  MCBlock \o
  <<LdOp("add", FALSE, FALSE), LdOp("set", TRUE, FALSE), Rmw("cas", FALSE, FALSE, ""),
    Rmw("cas", FALSE, TRUE, ""), StOp("clr", FALSE), Dmb("ishld"),
    Alu("lsl w0, w1, #2"), Alu("subs w0, w0, #1")>>

-----------------------------------------------------------------------------
ArmOps == {"Label", "Branch", "BranchLink", "BranchRegister", "BranchLinkRegister", "TestBitBranch",
           "Return", "Arithmetic", "Shift", "Move", "Memory", "MemoryLSE", "MemoryPair",
           "MemoryExclusive", "Cmp", "Csel", "Dmb", "Directive", "Unhandled", "Panic"}

TypeOK ==
  /\ phase \in {"extract", "transform", "done", "panic"}
  /\ epos \in 1..Len(listing) + 1
  /\ Len(cur) <= 1
  /\ \A k \in DOMAIN funcs : \A p \in DOMAIN funcs[k].instrs : funcs[k].instrs[p].op \in ArmOps
  /\ phase = "transform" => fi \in DOMAIN funcs /\ tpos \in 1..Len(funcs[fi].instrs) + 1
  /\ counter \in Nat
  /\ Len(newInstrs) = tpos - 1
  /\ Len(out) = fi - 1

\* the control flow of position p of the assembler's reading ref: an
\* indirect jump has no static successor
AsmSucc(ref, p) ==
  LET ins == ref[p] IN
  CASE ins.op \in {"Return", "Jump"} -> {}
    [] ins.op = "Branch" /\ ins.cond = "none" -> Asm!Target(ref, p)
    [] ins.op = "Branch" -> Asm!Target(ref, p) \cup {p + 1}
    [] OTHER -> {p + 1}

AsmEdges(lst, f) ==
  LET s == f.instrs[1].org IN
  UNION {{<<p - s, q - s>> : q \in AsmSucc(lst, p)} : p \in s..s + Len(f.instrs) - 1}

ReachableEdges(E) == {e \in E : e[1] \in {0} \cup Reach(E, {0})}

(***************************************************************************)
(* The front end preserves control flow: for every function, the lowered   *)
(* body resolves every branch (the core's cfg() would panic otherwise) and *)
(* its cfg, as far as it is reachable from the entry, is the function's    *)
(* control flow as the assembler reads the listing. It rests on            *)
(* transform_labels giving every reference the new name of the label the   *)
(* assembler binds it to (forward references bound when the label comes,   *)
(* backward ones looked up) and on the lowering keeping every branch.      *)
(***************************************************************************)
CfgFaithful ==
  phase = "done" =>
    \A k \in DOMAIN out :
      /\ ~MissingLabel(out[k].code)
      /\ ReachableEdges(Cfg(out[k].code)) = ReachableEdges(AsmEdges(Ref(assembly), funcs[k]))

(***************************************************************************)
(* What the core assumes of its input (spec section 6): each lowered       *)
(* function starts with its own label and its label names are distinct.    *)
(* The fresh names L<counter+1> of transform_labels and the names bound    *)
(* from forward references must never coincide.                            *)
(***************************************************************************)
LoweredWellFormed ==
  phase = "done" =>
    \A k \in DOMAIN out :
      LET c == out[k].code IN
      /\ IsLabel(c[1])
      /\ \A i, j \in DOMAIN c : IsLabel(c[i]) /\ IsLabel(c[j]) /\ c[i].name = c[j].name => i = j

(***************************************************************************)
(* extract_arm_functions cuts the listing into functions without losing or *)
(* reordering code: the functions, concatenated, are the listing from its  *)
(* first global label on, and each starts at a global label and contains   *)
(* no other.                                                               *)
(***************************************************************************)
FirstStart(lst) == {p \in DOMAIN lst : StartsFunction(lst[p]) /\ \A q \in 1..p-1 : ~StartsFunction(lst[q])}

ExtractPartition ==
  phase = "done" =>
    /\ FlattenSeq([k \in DOMAIN funcs |-> funcs[k].instrs])
         = IF FirstStart(listing) = {} THEN <<>>
           ELSE LET s == CHOOSE p \in FirstStart(listing) : TRUE IN SubSeq(listing, s, Len(listing))
    /\ \A k \in DOMAIN funcs :
         /\ StartsFunction(funcs[k].instrs[1]) /\ funcs[k].instrs[1].name = funcs[k].name
         /\ \A p \in 2..Len(funcs[k].instrs) : ~StartsFunction(funcs[k].instrs[p])

(***************************************************************************)
(* The front end aborts exactly on listings with a load of a literal       *)
(* (ldr w0, .Lc) or a store of the zero register (stlr wzr, [x0]), whose   *)
(* operand parse_register does not know and which parse as labels: then   *)
(* operand_to_boogie reaches unimplemented!(); or with a constant beyond   *)
(* i64::MAX, on which parse_immediate's unwrap panics. No other line of    *)
(* the listings (add, ret, bl, b and b.ne to labels, i64::MAX itself)      *)
(* does.                                                                   *)
(***************************************************************************)
PanicsExactly ==
  phase \in {"done", "panic"} =>
    (phase = "panic" <=> \E p \in DOMAIN assembly : Ref(assembly)[p].op \in {"Literal", "Wide", "Zero"})

(***************************************************************************)
(* A lowering failure is confined to its function (spec section 7: abort   *)
(* the processing of that function; the caller reports failures per        *)
(* function): when the run aborts, every function of the listing failed    *)
(* on its own. parse_functions lowers every function of the file before    *)
(* main filters them by name, and the panic ends the process.              *)
(***************************************************************************)
PanicConfined ==
  phase = "panic" => \A k \in DOMAIN funcs : Panics(ToBoogie(funcs[k].name, funcs[k].instrs).code)

-----------------------------------------------------------------------------
(* What an instruction of Block is, as the ARMv8 architecture reads its    *)
(* mnemonic, in the terms of the Boogie operations of the lowering.        *)

Bytes(d) == IF d.sz = "b" THEN 1 ELSE IF d.sz = "h" THEN 2 ELSE IF d.w = "w" THEN 4 ELSE 8

\* the barrier options that order loads only
LoadBarriers == {"ld", "ishld", "oshld", "nshld"}

ExpectedCall(d) ==
  LET C(nm, acq, rel) == [name |-> nm, acq |-> acq, rel |-> rel, mask |-> Ones(8 * Bytes(d)), arg |-> ""] IN
  CASE d.cls = "load"  -> C(IF d.x THEN "ldx" ELSE "ld", d.a, "-")
    [] d.cls = "store" -> C(IF d.x THEN "stx" ELSE "st", "-", d.l)
    [] d.cls = "ldop"  -> C("ld" \o d.op, d.a, d.l)
    [] d.cls = "stop"  -> C("st" \o d.op, "-", d.l)
    [] d.cls \in {"swp", "cas"} -> C(d.cls, d.a, d.l)
    [] d.cls = "fence" -> [name |-> "dmb", acq |-> "-", rel |-> "-", mask |-> NoMask,
                           arg |-> IF d.op \in LoadBarriers THEN "LD()" ELSE "SY()"]

(***************************************************************************)
(* Every memory access and barrier of a function is lowered to the global  *)
(* operation its mnemonic denotes: the operation, the acquire and release  *)
(* flags the mnemonic's a / l suffix letters set (ldar, stlr, ldaddal,     *)
(* casa, ...), the u64 mask of the access size of its b / h suffix or      *)
(* register (2^64 - 1 for a doubleword: the mask computation wraps), the   *)
(* barrier kind of its option; and an instruction that touches no memory   *)
(* is never lowered to a global access. parse_memory_instruction decides   *)
(* by the mnemonic's first letters and parse_memory_attrs by the letters   *)
(* anywhere in it (the a of add, the l of ld and clr). The block is        *)
(* lowered at all: no operand of it reaches the unimplemented!() of        *)
(* operand_to_boogie.                                                      *)
(***************************************************************************)
AccessesDecoded ==
  assembly = BlockListing =>
    /\ phase # "panic"
    /\ phase = "done" =>
         \A i \in DOMAIN Block :
           LET c == out[1].code[i + 1]
               d == Block[i]
           IN IF d.cls = "alu"
              THEN c.kind = "Unhandled" \/ (c.kind = "Instr" /\ c.effect = "Local")
              ELSE c.kind = "Instr" /\ c.effect = "Global" /\ c.call = ExpectedCall(d)
=============================================================================
