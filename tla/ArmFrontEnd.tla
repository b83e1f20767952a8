---------------------------- MODULE ArmFrontEnd ----------------------------
(***************************************************************************)
(* The ARMv8 front end as parse_functions (vatomic/verify/src/main.rs      *)
(* 56-63) runs it on a parsed listing: extract_arm_functions with no name  *)
(* filter, then for each function transform_labels followed by to_boogie   *)
(* (arm_instruction_to_boogie on every instruction).                       *)
(*                                                                         *)
(* A listing is the assembly text as a sequence of lines, parsed by       *)
(* ArmParse (parse_arm_assembly) into the records described there. The    *)
(* iterator of main.rs is lazy, so function k is transformed and lowered  *)
(* before function k+1 is looked at, and the unimplemented!() panic of    *)
(* the lowering ends the whole run (phase "panic").                       *)
(***************************************************************************)
EXTENDS BoogieCode, ArmParse, TLC, U64

CONSTANTS
  Listings        \* assembly listings: sequences of lines

VARIABLES
  assembly,    \* the input of parse_functions: the lines of the listing
  listing,     \* parsed: the output of parse_arm_assembly
  epos,        \* extract_arm_functions: next listing position (1-based)
  funcs,       \* extract_arm_functions: functions: [name, instrs]
  cur,         \* extract_arm_functions: current_function, <<>> for None
  phase,       \* "extract", "transform", "done", "panic"
  fi,          \* the function transform_labels / to_boogie works on
  tpos,        \* transform_labels: next instruction (1-based)
  labelMap,    \* transform_labels: label_map
  forwardMap,  \* transform_labels: forward_map
  counter,     \* transform_labels: counter
  newInstrs,   \* transform_labels: new_instructions
  out          \* the BoogieFunctions: [name, code]

vars == <<assembly, listing, epos, funcs, cur, phase, fi, tpos, labelMap, forwardMap,
          counter, newInstrs, out>>

NoMap == [n \in {} |-> ""]

\* the character tests of transform.rs on a name: starts_with('.'),
\* ends_with('b' | 'f'), &name[..name.len() - 1]
FirstChar(n) == IF Char(n, 1) = "." THEN "." ELSE IF Char(n, 1) \in Digits THEN "digit" ELSE "alpha"
LastChar(n)  == Char(n, Len(n))
Chop(n)      == SubSeq(n, 1, Len(n) - 1)

\* format!("L{}", counter + 1)
FreshName(ctr) == "L" \o ToString(ctr + 1)

\* HashMap::insert and HashMap::remove
Insert(m, k, v) == [x \in DOMAIN m \cup {k} |-> IF x = k THEN v ELSE m[x]]
RemoveKey(m, k) == [x \in DOMAIN m \ {k} |-> m[x]]

-----------------------------------------------------------------------------
(* transform_labels, one instruction: from the maps and counter to the new *)
(* name and the updated maps and counter.                                  *)
TL(nm, lm, fm, ctr) == [name |-> nm, lm |-> lm, fm |-> fm, ctr |-> ctr]

\* faulty variant: a fresh name without `counter += 1`
LabelStepNoIncrement(n, lm, fm, ctr) ==
  IF n \in DOMAIN fm
  THEN TL(fm[n], Insert(lm, n, fm[n]), RemoveKey(fm, n), ctr)
  ELSE TL(FreshName(ctr), Insert(lm, n, FreshName(ctr)), fm, ctr)

\* ArmInstruction::Label: bind a pending forward reference or take a fresh name
LabelStep(n, lm, fm, ctr) ==
  IF n \in DOMAIN fm
  THEN TL(fm[n], Insert(lm, n, fm[n]), RemoveKey(fm, n), ctr)
  ELSE TL(FreshName(ctr), Insert(lm, n, FreshName(ctr)), fm, ctr + 1)

\* faulty variant: a named label is only looked up among forward references
BranchStepNoBackward(n, lm, fm, ctr) ==
  LET base == Chop(n) IN
  CASE LastChar(n) = "b" ->
         IF base \in DOMAIN lm THEN TL(lm[base], lm, fm, ctr)
         ELSE TL(FreshName(ctr), Insert(lm, base, FreshName(ctr)), fm, ctr + 1)
    [] LastChar(n) = "f" ->
         IF base \in DOMAIN fm THEN TL(fm[base], lm, fm, ctr)
         ELSE TL(FreshName(ctr), lm, Insert(fm, base, FreshName(ctr)), ctr + 1)
    [] OTHER ->
         IF n \in DOMAIN fm THEN TL(fm[n], lm, fm, ctr)
         ELSE TL(FreshName(ctr), lm, Insert(fm, n, FreshName(ctr)), ctr + 1)

\* ArmInstruction::Branch(_, Operand::Label(name)): "b"/"f" suffix shorthand,
\* otherwise a named label looked up backward then forward
BranchStep(n, lm, fm, ctr) ==
  LET base == Chop(n) IN
  CASE LastChar(n) = "b" ->
         IF base \in DOMAIN lm THEN TL(lm[base], lm, fm, ctr)
         ELSE TL(FreshName(ctr), Insert(lm, base, FreshName(ctr)), fm, ctr + 1)
    [] LastChar(n) = "f" ->
         IF base \in DOMAIN fm THEN TL(fm[base], lm, fm, ctr)
         ELSE TL(FreshName(ctr), lm, Insert(fm, base, FreshName(ctr)), ctr + 1)
    [] OTHER ->
         IF n \in DOMAIN lm THEN TL(lm[n], lm, fm, ctr)
         ELSE IF n \in DOMAIN fm THEN TL(fm[n], lm, fm, ctr)
         ELSE TL(FreshName(ctr), lm, Insert(fm, n, FreshName(ctr)), ctr + 1)

\* BranchLink and TestBitBranch with a Label operand: no suffix handling
CallStep(n, lm, fm, ctr) ==
  IF n \in DOMAIN lm THEN TL(lm[n], lm, fm, ctr)
  ELSE IF n \in DOMAIN fm THEN TL(fm[n], lm, fm, ctr)
  ELSE TL(FreshName(ctr), lm, Insert(fm, n, FreshName(ctr)), ctr + 1)

\* only a Label operand is renamed (name "" stands for any other operand)
RenameStep(ins, lm, fm, ctr) ==
  CASE ins.op = "Label"  -> LabelStep(ins.name, lm, fm, ctr)
    [] ins.op = "Branch" /\ ins.name # "" -> BranchStep(ins.name, lm, fm, ctr)
    [] ins.op \in {"BranchLink", "TestBitBranch"} /\ ins.name # "" -> CallStep(ins.name, lm, fm, ctr)
    [] OTHER -> TL(ins.name, lm, fm, ctr)

-----------------------------------------------------------------------------
(* arm_instruction_to_boogie. A BoogieInstruction::Instr is a record with  *)
(* the side effect and the call it emits: name, the acquire and release    *)
(* flags it passes ("-" for a flag it does not pass), the mask of the     *)
(* access size (NoMask where none is passed) and the fence argument.       *)
(* Register and immediate texts are left out. A panic (unimplemented!) is  *)
(* an instruction of kind "Panic".                                          *)
Call(nm, eff, acq, rel, mask, arg, k) ==
  [kind |-> "Instr", effect |-> eff, org |-> k,
   call |-> [name |-> nm, acq |-> acq, rel |-> rel, mask |-> mask, arg |-> arg]]

\* faulty variant: 2u64.saturating_pow in place of overflowing_pow
MemorySizeMaskSat(bytes) == U64Dec(U64Pow2Sat(8 * bytes))

\* MemorySize::bytes and MemorySize::mask: 2^(8 * bytes) - 1 in u64
MemorySizeMask(bytes) == U64Dec(U64Pow2(8 * bytes))

\* the variants whose operands operand_to_boogie converts
Converted == {"Arithmetic", "Move", "Memory", "MemoryExclusive", "MemoryLSE", "Cmp", "Csel"}

UnimplementedLabelOperand(ins) ==
  \/ ins.op = "Panic"
  \/ ins.op = "Memory" /\ ins.mop = "Rmw"
  \/ ins.op = "MemoryExclusive" /\ ins.mop # "Store"
  \/ ins.op = "MemoryLSE" /\ ins.mop = "Rmw" /\ ins.lse \notin {"swp", "cas"}
  \/ ins.op \in Converted /\ \E i \in DOMAIN ins.ops : ins.ops[i].k \notin {"reg", "imm", "mem", "label"}

\* the cases of the lowering that reach unimplemented!()
Unimplemented(ins) ==
  \/ ins.op = "Panic"
  \/ ins.op = "Memory" /\ ins.mop = "Rmw"
  \/ ins.op = "MemoryExclusive" /\ ins.mop # "Store"
  \/ ins.op = "MemoryLSE" /\ ins.mop = "Rmw" /\ ins.lse \notin {"swp", "cas"}
  \/ ins.op \in Converted /\ \E i \in DOMAIN ins.ops : ins.ops[i].k \notin {"reg", "imm", "mem"}

LseName(l) == IF l = "max" THEN "umax" ELSE l

ArmToBoogie(ins, k) ==
  LET a == ins.attrs IN
  IF Unimplemented(ins) THEN [kind |-> "Panic", org |-> k]
  ELSE CASE ins.op = "Label" -> LabelI(ins.name, k)
    [] ins.op = "Branch" /\ ins.name # "" ->
         BranchI({ins.name}, IF ins.cond = "none" THEN TrueCond ELSE ins.cond, k)
    [] ins.op = "Dmb"    -> Call("dmb", "Global", "-", "-", NoMask, ins.sub \o "()", k)
    [] ins.op = "Return" -> ReturnI(k)
    [] ins.op = "Arithmetic" -> Call(IF ins.sub = "and" THEN "andd" ELSE ins.sub, "Local", "-", "-", NoMask, "", k)
    [] ins.op = "Move" -> Call(ins.sub, "Local", "-", "-", NoMask, "", k)
    [] ins.op = "Cmp"  -> Call("cmp", "Local", "-", "-", NoMask, "", k)
    [] ins.op = "Csel" -> Call("csel", "Local", "-", "-", NoMask, "", k)
    [] ins.op = "Memory" /\ ins.mop = "Load" ->
         Call(IF a.excl THEN "ldx" ELSE "ld", "Global", a.acq, "-", MemorySizeMask(a.size), "", k)
    [] ins.op = "Memory" /\ ins.mop = "Store" -> Call("st", "Global", "-", a.rel, MemorySizeMask(a.size), "", k)
    [] ins.op = "MemoryExclusive" -> Call("stx", "Global", "-", a.rel, MemorySizeMask(a.size), "", k)
    [] ins.op = "MemoryLSE" /\ ins.mop = "Load" ->
         Call("ld" \o LseName(ins.lse), "Global", a.acq, a.rel, MemorySizeMask(a.size), "", k)
    [] ins.op = "MemoryLSE" /\ ins.mop = "Store" ->
         Call("st" \o LseName(ins.lse), "Global", "-", a.rel, MemorySizeMask(a.size), "", k)
    [] ins.op = "MemoryLSE" /\ ins.mop = "Rmw" -> Call(ins.lse, "Global", a.acq, a.rel, MemorySizeMask(a.size), "", k)
    [] ins.op = "Directive" -> [kind |-> "Comment", org |-> k]
    [] OTHER -> [kind |-> "Unhandled", org |-> k]

\* ToBoogie for ArmFunction: the name is kept, every instruction lowered
ToBoogie(name, instrs) ==
  [name |-> name, code |-> [p \in DOMAIN instrs |-> ArmToBoogie(instrs[p], p - 1)]]

Panics(code) == \E p \in DOMAIN code : code[p].kind = "Panic"

-----------------------------------------------------------------------------
\* a Label that starts a new function: !name.starts_with(".")
StartsFunction(ins) == ins.op = "Label" /\ FirstChar(ins.name) # "."

Init ==
  /\ assembly \in Listings
  /\ listing = ParseAsm(assembly)
  /\ epos = 1
  /\ funcs = <<>>
  /\ cur = <<>>
  /\ phase = IF ParsePanics(listing) THEN "panic" ELSE "extract"
  /\ fi = 1
  /\ tpos = 1
  /\ labelMap = NoMap
  /\ forwardMap = NoMap
  /\ counter = 0
  /\ newInstrs = <<>>
  /\ out = <<>>

\* extract_arm_functions: one iteration of `for instr in parsed`
ExtractStep ==
  /\ phase = "extract"
  /\ epos <= Len(listing)
  /\ LET ins == listing[epos] IN
     IF StartsFunction(ins)
     THEN /\ funcs' = funcs \o cur
          /\ cur' = <<[name |-> ins.name, instrs |-> <<ins>>]>>
     ELSE /\ cur' = [k \in DOMAIN cur |-> [cur[k] EXCEPT !.instrs = Append(@, ins)]]
          /\ UNCHANGED funcs
  /\ epos' = epos + 1
  /\ UNCHANGED <<assembly, listing, phase, fi, tpos, labelMap, forwardMap, counter,
                 newInstrs, out>>

\* faulty variant: the last function is not pushed
ExtractDoneNoFlush ==
  /\ phase = "extract"
  /\ epos > Len(listing)
  /\ funcs' = funcs
  /\ cur' = <<>>
  /\ phase' = IF funcs' = <<>> THEN "done" ELSE "transform"
  /\ UNCHANGED <<assembly, listing, epos, fi, tpos, labelMap, forwardMap, counter,
                 newInstrs, out>>

\* extract_arm_functions: push the last function and return (names = None)
ExtractDone ==
  /\ phase = "extract"
  /\ epos > Len(listing)
  /\ funcs' = funcs \o cur
  /\ cur' = <<>>
  /\ phase' = IF funcs' = <<>> THEN "done" ELSE "transform"
  /\ UNCHANGED <<assembly, listing, epos, fi, tpos, labelMap, forwardMap, counter,
                 newInstrs, out>>

\* transform_labels: one iteration of `for instr in &function.instructions`
TransformStep ==
  /\ phase = "transform"
  /\ tpos <= Len(funcs[fi].instrs)
  /\ LET ins == funcs[fi].instrs[tpos]
         r   == RenameStep(ins, labelMap, forwardMap, counter)
     IN /\ newInstrs' = Append(newInstrs, [ins EXCEPT !.name = r.name])
        /\ labelMap' = r.lm
        /\ forwardMap' = r.fm
        /\ counter' = r.ctr
  /\ tpos' = tpos + 1
  /\ UNCHANGED <<assembly, listing, epos, funcs, cur, phase, fi, out>>

\* faulty variant: new_instructions carried over to the next function
LowerFunctionKeepInstrs ==
  /\ phase = "transform"
  /\ tpos > Len(funcs[fi].instrs)
  /\ LET f == ToBoogie(funcs[fi].name, newInstrs) IN
     IF Panics(f.code)
     THEN /\ phase' = "panic"
          /\ UNCHANGED <<out, fi, tpos, labelMap, forwardMap, counter>>
     ELSE /\ out' = Append(out, f)
          /\ fi' = fi + 1
          /\ phase' = IF fi = Len(funcs) THEN "done" ELSE "transform"
          /\ tpos' = 1
          /\ labelMap' = NoMap
          /\ forwardMap' = NoMap
          /\ counter' = 0
  /\ UNCHANGED <<assembly, listing, epos, funcs, cur, newInstrs>>

\* transform_labels returns, to_boogie lowers the function (or panics); the
\* next function starts with fresh maps (a new call of transform_labels)
LowerFunction ==
  /\ phase = "transform"
  /\ tpos > Len(funcs[fi].instrs)
  /\ LET f == ToBoogie(funcs[fi].name, newInstrs) IN
     IF Panics(f.code)
     THEN /\ phase' = "panic"
          /\ UNCHANGED <<out, fi, tpos, labelMap, forwardMap, counter, newInstrs>>
     ELSE /\ out' = Append(out, f)
          /\ fi' = fi + 1
          /\ phase' = IF fi = Len(funcs) THEN "done" ELSE "transform"
          /\ tpos' = 1
          /\ labelMap' = NoMap
          /\ forwardMap' = NoMap
          /\ counter' = 0
          /\ newInstrs' = <<>>
  /\ UNCHANGED <<assembly, listing, epos, funcs, cur>>

Next ==
  \/ ExtractStep
  \/ ExtractDone
  \/ TransformStep
  \/ LowerFunction

Spec == Init /\ [][Next]_vars
=============================================================================
