--------------------------- MODULE RiscvFrontEnd ---------------------------
(***************************************************************************)
(* The RISC-V front end as parse_functions (vatomic/verify/src/main.rs     *)
(* 65-73) runs it on a parsed listing: extract_riscv_functions with no     *)
(* name filter, then for each function transform_labels followed by        *)
(* to_boogie (riscv_instruction_to_boogie on every instruction).           *)
(*                                                                         *)
(* Listings are assembly texts, parsed by RiscvParse (parse_riscv_assembly)*)
(* into the records described there. A Jump has name "" where its *)
(* label is None (jr). The iterator of main.rs is lazy, so function k is   *)
(* transformed and lowered before function k+1 is looked at; a panic of   *)
(* either step ends the run (phase "panic"), and so does a panic of the    *)
(* parser, before any function is looked at.                              *)
(***************************************************************************)
EXTENDS BoogieCode, RiscvParse, TLC, U64

CONSTANTS
  Listings        \* assembly listings: sequences of lines

VARIABLES
  listing,   \* parsed: the output of parse_riscv_assembly
  epos,      \* extract_riscv_functions: next listing position (1-based)
  funcs,     \* extract_riscv_functions: functions: [name, instrs]
  cur,       \* extract_riscv_functions: current_function, <<>> for None
  phase,     \* "extract", "transform", "done", "panic"
  fi,        \* the function transform_labels / to_boogie works on
  i,         \* transform_labels: index of the instruction mapped next (0-based)
  backMap,   \* transform_labels: back_map
  newInstrs, \* transform_labels: the mapped instructions so far
  out        \* the BoogieFunctions: [name, code]

vars == <<listing, epos, funcs, cur, phase, fi, i, backMap, newInstrs, out>>

NoMap == [n \in {} |-> 0]

\* the character tests of transform.rs on a name
LastChar(n) == Char(n, Len(n))
Chop(n)     == SubSeq(n, 1, Len(n) - 1)

\* to_label_name!(i)
LabelName(k) == "L" \o ToString(k)

\* a Label that starts a new function: its first char is alphabetic or '_'
StartsFunction(ins) == ins.op = "Label" /\ Char(ins.name, 1) \in Alpha \cup {"_"}

\* faulty variant: fwd_map keeps the last index of a label (insert instead
\* of entry().or_insert)
FwdMapLast(instrs, k) ==
  LET after == {p \in k+1..Len(instrs)-1 : instrs[p+1].op = "Label"} IN
  [n \in {instrs[p+1].name : p \in after} |->
     CHOOSE p \in after : instrs[p+1].name = n /\ \A q \in after : instrs[q+1].name = n => q <= p]

\* fwd_map at index i: for every label after i, its first index
FwdMap(instrs, k) ==
  LET after == {p \in k+1..Len(instrs)-1 : instrs[p+1].op = "Label"} IN
  [n \in {instrs[p+1].name : p \in after} |->
     CHOOSE p \in after : instrs[p+1].name = n /\ \A q \in after : instrs[q+1].name = n => p <= q]

\* faulty variant: "b" and "f" select the wrong map
GetLabelIndexSwapped(fwd, back, label) ==
  IF LastChar(label) \in {"f", "b"}
  THEN LET m == IF LastChar(label) = "b" THEN fwd ELSE back
       IN IF Chop(label) \in DOMAIN m THEN m[Chop(label)] ELSE -1
  ELSE IF label \in DOMAIN back THEN back[label]
  ELSE IF label \in DOMAIN fwd THEN fwd[label]
  ELSE -1

\* get_label_index: the index the name resolves to, -1 where the code panics
\* (indexing a HashMap with a missing key)
GetLabelIndex(fwd, back, label) ==
  IF LastChar(label) \in {"f", "b"}
  THEN LET m == IF LastChar(label) = "f" THEN fwd ELSE back
       IN IF Chop(label) \in DOMAIN m THEN m[Chop(label)] ELSE -1
  ELSE IF label \in DOMAIN back THEN back[label]
  ELSE IF label \in DOMAIN fwd THEN fwd[label]
  ELSE -1

\* transform_labels renames the label of a Label, a Branch and a Jump with
\* Some(label)
Renamed(ins) == ins.op = "Branch" \/ (ins.op = "Jump" /\ ins.name # "")

-----------------------------------------------------------------------------
(* riscv_instruction_to_boogie. A BoogieInstruction::Instr is a record     *)
(* with the side effect and the call it emits: the operation name, the     *)
(* destination register, the acquire and release flags it passes ("-" for *)
(* none), the u64 mask of the access size (NoMask where none is passed)   *)
(* and the other arguments that are not registers or immediates. A panic   *)
(* of the lowering is an instruction of kind "Panic".                      *)
BInstr(nm, eff, dst, aq, rl, mask, arg, k) ==
  [kind |-> "Instr", effect |-> eff, org |-> k,
   call |-> [name |-> nm, out |-> dst, aq |-> aq, rl |-> rl, mask |-> mask, arg |-> arg]]

\* Size::bytes and Size::mask: 2^(8 * bytes) - 1 in u64
SizeMaskOf(bytes) == U64Dec(U64Pow2(8 * bytes))

Dummy == "dummy"  \* DUMMY_REG (lib.rs)

\* register_to_string: a numbered register with number None panics (unwrap)
RegPanics(r) == r.t \in {"a", "t", "s", "x"} /\ r.n = -1
RegStr(r) == IF r.t \in {"a", "t", "s", "x"} THEN r.t \o ToString(r.n) ELSE r.t

Flag(b) == IF b THEN "true" ELSE "false"
Aq(sem) == Flag(sem \in {"Acquire", "AcquireRelease"})
Rl(sem) == Flag(sem \in {"Release", "AcquireRelease"})

\* fence_mode_to_boogie: (read, write)
FenceBits(m) ==
  CASE m = "Read" -> <<"true", "false">>
    [] m = "Write" -> <<"false", "true">>
    [] m = "ReadWrite" -> <<"true", "true">>
    [] m = "OutputWrite" -> <<"false", "true">>
    [] m = "InputOutputReadWrite" -> <<"true", "true">>

\* the ArithmeticOp names of the RR and RI arms
ArithName(op) == CHOOSE b \in DOMAIN ArithOf : ArithOf[b] = op

\* riscv_instruction_to_boogie_direct
RiscvToBoogieDirect(ins, k) ==
  LET rd == RegStr(ins.rd)
      Glb(nm, dst, aq, rl, arg) == BInstr(nm, "Global", dst, aq, rl, SizeMaskOf(ins.size), arg, k)
      Loc(nm, dst) == BInstr(nm, "Local", dst, "-", "-", NoMask, <<>>, k)
  IN CASE ins.op = "Label"  -> LabelI(ins.name, k)
       [] ins.op = "Fence"  ->
            BInstr("fence", "Global", Dummy, "-", "-", NoMask, FenceBits(ins.pred) \o FenceBits(ins.succ), k)
       [] ins.op = "Branch" -> BranchI({ins.name}, ins.sub, k)
       [] ins.op = "Load"   -> Glb("ld", rd, "-", "-", <<>>)
       [] ins.op = "UnsignedLoad" -> Glb("ldu", rd, "-", "-", <<>>)
       [] ins.op = "Store"  -> Glb("sb", Dummy, "-", "-", <<>>)
       [] ins.op = "LoadReserved" -> Glb("lr", rd, Aq(ins.sem), Rl(ins.sem), <<>>)
       [] ins.op = "StoreConditional" -> Glb("sc", rd, Aq(ins.sem), Rl(ins.sem), <<>>)
       [] ins.op = "Atomic" -> Glb("atomic", rd, Aq(ins.sem), Rl(ins.sem), <<"Atomic" \o ins.sub \o "()">>)
       [] ins.op = "Call"   -> BInstr("call", "Local", Dummy, "-", "-", NoMask, <<ins.name>>, k)
       [] ins.op = "LoadAddress" -> BInstr("la", "Global", rd, "-", "-", NoMask, <<ins.name>>, k)
       [] ins.op = "LoadImmidate" -> Loc("li", rd)
       [] ins.op = "Move"   -> Loc("mv", rd)
       [] ins.op = "ArithmeticRR" -> Loc(ArithName(ins.sub), rd)
       [] ins.op = "ArithmeticRI" /\ ins.sub = "Mul" -> [kind |-> "Panic", org |-> k]
       [] ins.op = "ArithmeticRI" -> Loc(ArithName(ins.sub) \o "i", rd)
       [] ins.op = "Not"    -> Loc("not", rd)
       [] ins.op = "Neg"    -> Loc(IF ins.sub = "w" THEN "negw" ELSE "neg", rd)
       [] ins.op = "SignExtendWord" -> Loc("sext", rd)
       [] ins.op = "Jump" /\ ins.name # "" -> BranchI({ins.name}, TrueCond, k)
       [] ins.op = "Jump" /\ RegPanics(ins.rd) -> [kind |-> "Panic", org |-> k]
       [] ins.op = "Jump" /\ rd = "ra" -> ReturnI(k)
       [] ins.op = "Jump"   -> Loc("jr", rd)
       [] ins.op = "Return" -> ReturnI(k)
       [] ins.op = "Directive" -> [kind |-> "Comment", org |-> k]
       [] ins.op = "Unhandled" -> [kind |-> "Unhandled", org |-> k]

\* faulty variant: the destination zero is passed on as it is
RiscvToBoogieKeepZero(ins, k) == RiscvToBoogieDirect(ins, k)

\* riscv_instruction_to_boogie: an Instr writing register zero writes DUMMY_REG
RiscvToBoogie(ins, k) ==
  Pick({IF b.kind = "Instr" /\ b.call.out = "zero" THEN [b EXCEPT !.call.out = Dummy] ELSE b
        : b \in {RiscvToBoogieDirect(ins, k)}})

ToBoogie(name, instrs) ==
  [name |-> name, code |-> [p \in DOMAIN instrs |-> RiscvToBoogie(instrs[p], p - 1)]]

Panics(code) == \E p \in DOMAIN code : code[p].kind = "Panic"

-----------------------------------------------------------------------------
Init ==
  /\ \E lines \in Listings : listing = ParseAsm(lines)
  /\ epos = 1
  /\ funcs = <<>>
  /\ cur = <<>>
  /\ phase = IF ParsePanics(listing) THEN "panic" ELSE "extract"
  /\ fi = 1
  /\ i = 0
  /\ backMap = NoMap
  /\ newInstrs = <<>>
  /\ out = <<>>

\* extract_riscv_functions: one iteration of `for instr in parsed`
ExtractStep ==
  /\ phase = "extract"
  /\ epos <= Len(listing)
  /\ LET ins == listing[epos] IN
     IF StartsFunction(ins)
     THEN /\ funcs' = funcs \o cur
          /\ cur' = <<[name |-> ins.name, instrs |-> <<ins>>]>>
     ELSE /\ cur' = [k \in DOMAIN cur |-> [cur[k] EXCEPT !.instrs = Append(@, ins)]]
          /\ UNCHANGED funcs
  /\ epos' = epos + 1
  /\ UNCHANGED <<listing, phase, fi, i, backMap, newInstrs, out>>

\* extract_riscv_functions: push the last function and return (names = None)
ExtractDone ==
  /\ phase = "extract"
  /\ epos > Len(listing)
  /\ funcs' = funcs \o cur
  /\ cur' = <<>>
  /\ phase' = IF funcs' = <<>> THEN "done" ELSE "transform"
  /\ UNCHANGED <<listing, epos, fi, i, backMap, newInstrs, out>>

\* transform_labels: the closure of `.map(|(i, (instr, remaining))| ...)`
TransformStep ==
  /\ phase = "transform"
  /\ i < Len(funcs[fi].instrs)
  /\ LET instrs == funcs[fi].instrs
         ins    == instrs[i+1]
         idx    == GetLabelIndex(FwdMap(instrs, i), backMap, ins.name)
     IN CASE ins.op = "Label" ->
               /\ backMap' = [n \in DOMAIN backMap \cup {ins.name} |->
                                IF n = ins.name THEN i ELSE backMap[n]]
               /\ newInstrs' = Append(newInstrs, [ins EXCEPT !.name = LabelName(i)])
               /\ UNCHANGED phase
          [] Renamed(ins) /\ idx = -1 ->
               /\ phase' = "panic"
               /\ UNCHANGED <<backMap, newInstrs>>
          [] Renamed(ins) ->
               /\ newInstrs' = Append(newInstrs, [ins EXCEPT !.name = LabelName(idx)])
               /\ UNCHANGED <<backMap, phase>>
          [] OTHER ->
               /\ newInstrs' = Append(newInstrs, ins)
               /\ UNCHANGED <<backMap, phase>>
  /\ i' = i + 1
  /\ UNCHANGED <<listing, epos, funcs, cur, fi, out>>

\* faulty variant: back_map carried over to the next function
LowerFunctionKeepBackMap ==
  /\ phase = "transform"
  /\ i = Len(funcs[fi].instrs)
  /\ LET f == ToBoogie(funcs[fi].name, newInstrs) IN
     IF Panics(f.code)
     THEN /\ phase' = "panic"
          /\ UNCHANGED <<out, fi, i, newInstrs>>
     ELSE /\ out' = Append(out, f)
          /\ fi' = fi + 1
          /\ phase' = IF fi = Len(funcs) THEN "done" ELSE "transform"
          /\ i' = 0
          /\ newInstrs' = <<>>
  /\ UNCHANGED <<listing, epos, funcs, cur, backMap>>

\* transform_labels returns, to_boogie lowers the function (or panics)
LowerFunction ==
  /\ phase = "transform"
  /\ i = Len(funcs[fi].instrs)
  /\ LET f == ToBoogie(funcs[fi].name, newInstrs) IN
     IF Panics(f.code)
     THEN /\ phase' = "panic"
          /\ UNCHANGED <<out, fi, i, backMap, newInstrs>>
     ELSE /\ out' = Append(out, f)
          /\ fi' = fi + 1
          /\ phase' = IF fi = Len(funcs) THEN "done" ELSE "transform"
          /\ i' = 0
          /\ backMap' = NoMap
          /\ newInstrs' = <<>>
  /\ UNCHANGED <<listing, epos, funcs, cur>>

Next ==
  \/ ExtractStep
  \/ ExtractDone
  \/ TransformStep
  \/ LowerFunction

Spec == Init /\ [][Next]_vars
=============================================================================
