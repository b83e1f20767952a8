-------------------------- MODULE MCRiscvFrontEnd --------------------------
(***************************************************************************)
(* Model-checking instance of RiscvFrontEnd on listings of text, parsed by *)
(* ParseLine. A control-flow listing is an optional directive, then one or *)
(* two functions: a global label followed by a body drawn from add, jr ra  *)
(* (ret in the second function), the numeric local label 1 (any number of *)
(* times), the named local labels, and beqz / j to the function's label or *)
(* to a name of Refs; the second function may also tail-jump to the first *)
(* (j ga) and jump through a register (jr t0). Only listings the assembler *)
(* accepts are kept: named labels are defined once and every reference     *)
(* names exactly one label of the listing. One more listing is the         *)
(* function gd whose body is Block: memory accesses, fences, branches and  *)
(* arithmetic written from their RISC-V parts, against which their         *)
(* lowering is checked.                                                    *)
(***************************************************************************)
EXTENDS RiscvFrontEnd, SequencesExt

CONSTANTS
  Locals1,    \* named local labels of the first function
  Locals2,    \* named local labels of the second function
  Refs,       \* the names branches and jumps may use besides the function's
  Body1Max,   \* instructions after the first function's label
  Body2Max,   \* instructions after the second function's label
  Block       \* the body of gd: a sequence of instruction descriptions

\* what the assembler tells apart in a name: a leading digit
NameClass(n) == IF Char(n, 1) \in Digits THEN "digit" ELSE "other"

Asm == INSTANCE AsmSemantics WITH FirstChar <- NameClass, LastChar <- LastChar, Chop <- Chop

MCNone == {}
MCLocalA == {".La"}
MCLocalAB == {".La", ".Lab"}
MCRefs == {"1b", "1f", ".La"}
MCRefsAB == {"1b", "1f", ".La", ".Lab"}

Names == {"ga", "gc", "1", "1b", "1f", ".La", ".Lab"}

\* every line a control-flow listing is made of, parsed once
Lines ==
  {"add a0, a0, a1", "jr ra", "ret", "jr t0", "j ga", ".cfi_startproc"}
    \cup {l \o ":" : l \in Names}
    \cup {pre \o l : pre \in {"beqz a0, ", "j "}, l \in Names}

Parsed == [t \in Lines |-> ParseLine(t)]

\* the lines that may come next in the function fn
Cands(fn, locals) ==
  {"add a0, a0, a1", "1:", IF fn = "ga" THEN "jr ra" ELSE "ret"}
    \cup {l \o ":" : l \in locals}
    \cup {pre \o t : pre \in {"beqz a0, ", "j "}, t \in {fn} \cup Refs}
    \cup (IF fn = "gc" THEN {"j ga", "jr t0"} ELSE {})

\* two adds in a row have the control flow of one; after an unconditional
\* jump only a label makes sense; P is Parsed
Follows(P, prev, x) ==
  /\ ~(P[prev].op = "ArithmeticRR" /\ P[x].op = "ArithmeticRR")
  /\ P[prev].op \in {"Return", "Jump"} => P[x].op = "Label"

RECURSIVE Body(_, _, _, _, _)
Body(P, fn, locals, n, prev) ==
  {<<>>} \cup
    IF n = 0 THEN {}
    ELSE UNION {{<<x>> \o s : s \in Body(P, fn, locals, n - 1, x)}
                : x \in {x \in Cands(fn, locals) : Follows(P, prev, x)}}

Function(P, fn, locals, n) ==
  {<<fn \o ":">> \o b : b \in Body(P, fn, locals, n, fn \o ":")}

\* the parsed form of the lines f
Parse(P, f) == [p \in DOMAIN f |-> P[f[p]]]

\* named labels are defined once and every reference, except those to the
\* names of open, resolves to exactly one label
Resolves(l, open) ==
  /\ \A p, q \in DOMAIN l : /\ l[p].op = "Label" /\ l[q].op = "Label"
                           /\ l[p].name = l[q].name /\ NameClass(l[p].name) # "digit"
                           => p = q
  /\ \A p \in DOMAIN l : Renamed(l[p]) /\ l[p].name \notin open => Cardinality(Asm!Target(l, p)) = 1

\* a function (lines f, parsed l) with the names it refers to but does not
\* define and the names it defines
Unresolved(l) == {l[p].name : p \in {p \in DOMAIN l : Renamed(l[p]) /\ Asm!Target(l, p) = {}}}
Summary(f, l) == [f |-> f, need |-> Unresolved(l),
                  has |-> {l[p].name : p \in {p \in DOMAIN l : l[p].op = "Label"}}]

\* the labels has bind the names of need, for a function placed in the
\* direction dir ("f" after, "b" before)
Provides(has, need, dir) ==
  \A n \in need : IF NameClass(n) = "digit" THEN LastChar(n) = dir /\ Chop(n) \in has ELSE n \in has

\* the first function's forward references may reach into the second, the
\* second's references into the first
S1(P) == {Summary(f, Parse(P, f)) : f \in {f \in Function(P, "ga", Locals1, Body1Max) : Resolves(Parse(P, f), {"1f"})}}
S2(P) == {Summary(f, Parse(P, f)) : f \in {f \in Function(P, "gc", Locals2, Body2Max) : Resolves(Parse(P, f), Refs \cup {"ga"})}}

\* the listings of two functions whose summaries are s1 and s2
Combined(s1, s2) ==
  UNION {{pre \o a.f \o b.f : b \in {b \in s2 : Provides(b.has, a.need, "f") /\ Provides(a.has, b.need, "b")}}
           \cup (IF a.need = {} THEN {pre \o a.f} ELSE {})
         : pre \in {<<>>, <<".cfi_startproc">>}, a \in s1}

-----------------------------------------------------------------------------
(* The instructions of Block, described by their RISC-V parts: cls is      *)
(* load, store, lr, sc, amo, fence, branch (conditional), jump, call,      *)
(* label or alu; op the unsigned suffix, the AMO operation, the fence's    *)
(* predecessor set or the text before the target; sz the size letter; sem  *)
(* the ordering suffix; rd the destination register, the fence's successor *)
(* set, the target or label, or for alu the operation it denotes.          *)
Desc(cls, op, sz, sem, rd) == [cls |-> cls, op |-> op, sz |-> sz, sem |-> sem, rd |-> rd]

Sfx(sem) == IF sem = "" THEN "" ELSE "." \o sem

Text(d) ==
  CASE d.cls = "load"  -> "l" \o d.sz \o d.op \o " " \o d.rd \o ", 0(a0)"
    [] d.cls = "store" -> "s" \o d.sz \o " a1, 0(a0)"
    [] d.cls = "lr"    -> "lr." \o d.sz \o Sfx(d.sem) \o " " \o d.rd \o ", 0(a0)"
    [] d.cls = "sc"    -> "sc." \o d.sz \o Sfx(d.sem) \o " " \o d.rd \o ", a1, 0(a0)"
    [] d.cls = "amo"   -> "amo" \o d.op \o "." \o d.sz \o Sfx(d.sem) \o " " \o d.rd \o ", a1, 0(a0)"
    [] d.cls = "fence" -> IF d.op = "" THEN "fence" ELSE "fence " \o d.op \o "," \o d.rd
    [] d.cls \in {"branch", "jump", "call"} -> d.op \o d.rd
    [] d.cls = "label" -> d.rd \o ":"
    [] d.cls = "alu"   -> d.op

BlockListing == <<"gd:">> \o [k \in DOMAIN Block |-> Text(Block[k])] \o <<"ret">>

\* the listings the assembler accepts: what one function lacks the other defines
MCListings ==
  Pick({Pick({Combined(s1, s2) : s1 \in {S1(P)}, s2 \in {S2(P)}}) : P \in {Parsed @@ Parsed}})
    \cup (IF Block = <<>> THEN {} ELSE {BlockListing})

Ld(sz, u, rd)        == Desc("load", u, sz, "", rd)
St(sz)               == Desc("store", "", sz, "", "")
Lr(sz, sem, rd)      == Desc("lr", "", sz, sem, rd)
Sc(sz, sem, rd)      == Desc("sc", "", sz, sem, rd)
Amo(op, sz, sem, rd) == Desc("amo", op, sz, sem, rd)
Fence(p, s)          == Desc("fence", p, "", "", s)
Br(pre, t)           == Desc("branch", pre, "", "", t)
Jmp(pre, t)          == Desc("jump", pre, "", "", t)
CallTo(pre, t)       == Desc("call", pre, "", "", t)
Lbl(l)               == Desc("label", "", "", "", l)
Alu(t, nm)           == Desc("alu", t, "", "", nm)

MCNoBlock == <<>>

\* accesses of every class, size and ordering, writes to zero, fences,
\* numeric and named local labels with the branches and jumps to them,
\* a call, arithmetic, and immediates at the edge of i64
MCBlock ==
  <<Ld("b", "", "a0"), Ld("h", "u", "a1"), Ld("w", "", "a5"), Ld("d", "", "t0"), Ld("w", "u", "s1"),
    St("b"), St("h"), St("w"), St("d"),
    Lr("w", "", "a5"), Lr("d", "aq", "a5"), Lr("w", "aqrl", "t1"),
    Sc("w", "rl", "a4"), Sc("d", "", "a4"), Sc("w", "aq", "zero"),
    Amo("swap", "w", "aqrl", "a0"), Amo("add", "d", "", "zero"), Amo("and", "w", "aq", "a0"),
    Amo("or", "w", "rl", "a2"), Amo("xor", "d", "aqrl", "a0"), Amo("max", "w", "", "a0"),
    Amo("min", "d", "aq", "a0"),
    Fence("rw", "rw"), Fence("r", "rw"), Fence("rw", "w"), Fence("iorw", "iorw"), Fence("w", "ow"),
    Lbl("1"), Br("beq a0, a1, ", "1b"), Br("bnez a5, ", "1f"), Br("bltu a0, a1, ", "gd"),
    Br("bgeu a0, a1, ", ".L3"), Br("blt a0, a1, ", "1b"), Br("bne a0, a1, ", "1b"),
    Lbl(".L3"), Br("bge a0, a1, ", ".L3"), Br("bgtu a0, a1, ", "gd"), Br("bleu a0, a1, ", "gd"),
    Br("beqz a0, ", "1f"), Jmp("j ", ".L3"), Lbl("1"), Jmp("jal zero, ", "1b"), CallTo("call ", "ext"),
    Alu("add a0, a0, a1", "add"), Alu("addi a0, a0, -1", "addi"), Alu("andi a0, a5, 0xff", "andi"),
    Alu("sub a0, a1, a2", "sub"), Alu("slli a0, a0, 3", "slli"), Alu("li a0, 1", "li"),
    Alu("mv a0, a1", "mv"), Alu("not a0, a1", "not"), Alu("neg a0, a1", "neg"),
    Alu("negw a0, a1", "negw"), Alu("sext.w a0, a0", "sext"),
    Alu("li a0, 9223372036854775807", "li"), Alu("li a0, -9223372036854775807", "li"),
    Alu("li a0, 0x7fffffffffffffff", "li"), Alu("li a0, 0x00000000000000000001", "li")>>

\* instructions compilers and hand-written atomics emit that the block
\* above leaves out
MCBlockBad ==
  <<Amo("maxu", "w", "", "a0"), Fence("", ""), Br("bgt a0, a1, ", "gd"), Br("blez a0, ", "gd"),
    CallTo("jal ra, ", "gd"), CallTo("call ", "wake"), Alu("la a0, sym", "la"),
    Alu("addw a0, a0, a1", "addw"), Alu("mv a0, s10", "mv"),
    Lbl(".La"), Lbl(".Lab"), Br("beqz a0, ", ".Lab")>>
-----------------------------------------------------------------------------
TypeOK ==
  /\ phase \in {"extract", "transform", "done", "panic"}
  /\ epos \in 1..Len(listing) + 1
  /\ Len(cur) <= 1
  /\ phase = "transform" => fi \in DOMAIN funcs /\ i \in 0..Len(funcs[fi].instrs)
  /\ \A n \in DOMAIN backMap : backMap[n] \in 0..i-1
  /\ Len(newInstrs) <= i
  /\ Len(out) = fi - 1

\* the listing positions of the function position p belongs to
FuncOf(lst, p) ==
  LET S == {q \in DOMAIN lst : StartsFunction(lst[q])}
      s == {q \in S : q <= p /\ \A r \in S : r <= p => r <= q}
      e == {q \in S \cup {Len(lst) + 1} : q > p /\ \A r \in S : r > p => q <= r}
  IN IF s = {} THEN {} ELSE (CHOOSE q \in s : TRUE)..(CHOOSE q \in e : TRUE) - 1

\* a function that refers to code outside itself: a branch or jump to a
\* label of another function, or an indirect jump through an argument,
\* temporary, saved or numbered register
LeavesFunction(lst) ==
  \E p \in DOMAIN lst :
    \/ Renamed(lst[p]) /\ FuncOf(lst, p) # {} /\ ~(Asm!Target(lst, p) \subseteq FuncOf(lst, p))
    \/ lst[p].op = "Jump" /\ lst[p].name = "" /\ lst[p].rd.t \in {"a", "t", "s", "x"}

(***************************************************************************)
(* The front end aborts exactly on listings with a function that refers to *)
(* code outside itself. transform_labels resolves names in per-function    *)
(* maps and indexes them with [], and register_to_string unwraps the       *)
(* number jr leaves None: a tail jump to another function, a numeric       *)
(* reference whose label is in another function, or jr t0 panics, and     *)
(* nothing else does; in particular the reference is never silently bound *)
(* to some label of the wrong function.                                    *)
(***************************************************************************)
PanicsExactly ==
  phase \in {"done", "panic"} => (phase = "panic" <=> LeavesFunction(listing))

\* the asm control flow of listing position p
AsmSucc(lst, p) ==
  LET ins == lst[p] IN
  CASE ins.op = "Return" \/ (ins.op = "Jump" /\ ins.name = "") -> {}
    [] ins.op = "Jump"   -> Asm!Target(lst, p)
    [] ins.op = "Branch" -> Asm!Target(lst, p) \cup {p + 1}
    [] OTHER -> {p + 1}

\* the listing position of the first instruction of function k
FuncStart(lst, k) == SortedSeq({q \in DOMAIN lst : StartsFunction(lst[q])})[k]

AsmEdges(lst, k, f) ==
  LET s == FuncStart(lst, k) IN
  UNION {{<<p - s, q - s>> : q \in AsmSucc(lst, p)} : p \in s..s + Len(f.instrs) - 1}

ReachableEdges(E) == {e \in E : e[1] \in {0} \cup Reach(E, {0})}

(***************************************************************************)
(* The front end preserves control flow: every lowered function resolves   *)
(* all its branches and its cfg, as far as reachable from the entry, is    *)
(* the function's control flow as the assembler reads it. For the numeric *)
(* label 1, defined several times, 1b must become the name of the nearest  *)
(* definition before and 1f of the nearest one after: back_map keeps the  *)
(* latest index, fwd_map the first index after the current instruction.    *)
(***************************************************************************)
CfgFaithful ==
  phase = "done" =>
    \A k \in DOMAIN out :
      /\ ~MissingLabel(out[k].code)
      /\ ReachableEdges(Cfg(out[k].code)) = ReachableEdges(AsmEdges(listing, k, funcs[k]))

-----------------------------------------------------------------------------
(* What an instruction of Block is, as the RISC-V ISA reads its mnemonic,  *)
(* in the terms of the Boogie operations of the lowering.                  *)

Bytes == [b |-> 1, h |-> 2, w |-> 4, d |-> 8]

\* a write to x0 is discarded
Dst(r) == IF r = "zero" THEN Dummy ELSE r

\* the memory operations a fence set orders: r (reads) and w (writes);
\* i and o are device input and output
ModeBits(m) == <<Flag(\E k \in 1..Len(m) : Char(m, k) = "r"), Flag(\E k \in 1..Len(m) : Char(m, k) = "w")>>

AmoName == [swap |-> "Swap", add |-> "Add", and |-> "And", or |-> "Or", xor |-> "Xor",
            max |-> "Max", min |-> "Min", maxu |-> "Maxu", minu |-> "Minu"]

ExpectedCall(d) ==
  LET C(nm, dst, arg) ==
        [name |-> nm, out |-> dst, mask |-> IF d.sz = "" THEN NoMask ELSE Ones(8 * Bytes[d.sz]), arg |-> arg,
         aq |-> IF d.cls \in {"lr", "sc", "amo"} THEN Flag(d.sem \in {"aq", "aqrl"}) ELSE "-",
         rl |-> IF d.cls \in {"lr", "sc", "amo"} THEN Flag(d.sem \in {"rl", "aqrl"}) ELSE "-"]
  IN CASE d.cls = "load"  -> C(IF d.op = "u" THEN "ldu" ELSE "ld", Dst(d.rd), <<>>)
       [] d.cls = "store" -> C("sb", Dummy, <<>>)
       [] d.cls = "lr"    -> C("lr", Dst(d.rd), <<>>)
       [] d.cls = "sc"    -> C("sc", Dst(d.rd), <<>>)
       [] d.cls = "amo"   -> C("atomic", Dst(d.rd), <<"Atomic" \o AmoName[d.op] \o "()">>)
       [] d.cls = "fence" ->
            C("fence", Dummy, IF d.op = "" THEN ModeBits("iorw") \o ModeBits("iorw")
                              ELSE ModeBits(d.op) \o ModeBits(d.rd))

\* the new names of the labels the assembler binds position p of gd to
\* (gd is the first and only function of its listing)
NewTargets(p) == {LabelName(q - 1) : q \in Asm!Target(listing, p)}

Decoded(c, d, p) ==
  CASE d.cls \in {"load", "store", "lr", "sc", "amo", "fence"} ->
         c.kind = "Instr" /\ c.effect = "Global" /\ c.call = ExpectedCall(d)
    [] d.cls = "branch" -> c.kind = "Branch" /\ c.cond # TrueCond /\ c.targets = NewTargets(p)
    [] d.cls = "jump"   -> c.kind = "Branch" /\ c.cond = TrueCond /\ c.targets = NewTargets(p)
    [] d.cls = "call"   -> c.kind = "Instr" /\ c.effect = "Local" /\ c.call.name = "call"
    [] d.cls = "label"  -> c.kind = "Label"
    [] d.cls = "alu"    -> c.kind = "Instr" /\ c.effect = "Local" /\ c.call.name = d.rd

(***************************************************************************)
(* Every instruction of a function is lowered to what its mnemonic         *)
(* denotes: a memory access or fence to the global operation with the      *)
(* u64 mask of its size letter (all ones for d: the computation wraps),   *)
(* the aq / rl flags of its ordering suffix, the destination register      *)
(* (dummy for zero) and the fence sets or AMO                              *)
(* operation; a branch to a conditional goto and j / jal x0 to a goto, to  *)
(* the label the assembler binds; a call (call, jal ra) to a call; an      *)
(* instruction that touches no memory to a local operation of its own      *)
(* width. An instruction the parser leaves Unhandled is dropped from the   *)
(* Boogie code, so any mnemonic map_instruction lacks shows up here. And   *)
(* the block is processed at all: neither the parser (an immediate the     *)
(* unwrap of i64::from_str_radix rejects) nor the lowering panics on it.   *)
(***************************************************************************)
InstructionsDecoded ==
  listing[1].name = "gd" =>
    /\ phase # "panic"
    /\ phase = "done" => \A k \in DOMAIN Block : Decoded(out[1].code[k + 1], Block[k], k + 1)
====
