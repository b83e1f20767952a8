# TLA+ models of the asm-to-Boogie loop unroller

This directory holds TLA+ models of the verification-condition generator under
`src/`. The generator parses ARM or RISC-V assembly of the vatomic primitives,
lowers it to architecture-neutral `BoogieInstruction`s, optionally unrolls the
loops (`-u`), and writes a Boogie procedure. The models cover:
- the core: the control-flow analysis, the unrolling transformation and the
  emission of the procedure body (`src/verify/src/loops.rs`,
  `src/verify/src/generate.rs`), as `generate_boogie_file` calls them;
- the ARM front end, from assembly text through the parser, function
  extraction and label transform to the lowering;
- the RISC-V front end, from assembly text through the parser, function
  extraction and label transform to the lowering;
- the template stage that decides, from a function's name, what each
  generated file assumes (`src/vatomic/verify/src/lib.rs`).

## 1. Inventory

### Parts of the system and how they interact

| part | source | role |
|---|---|---|
| parsers | `verify/src/{arm,riscv}/parser.rs` | nom parsers from assembly text to `ArmInstruction` / `RiscvInstruction` |
| function extraction, label transform | `vatomic/verify/src/{arm,riscv}/transform.rs` | split the listing into functions (each starts with its own label), drop directives, rename labels (`1b`/`1f` local labels to `L<n>`) |
| lowering | `verify/src/arm/mod.rs`, `vatomic/verify/src/riscv/mod.rs` | one `BoogieInstruction` per machine instruction: `Label`, `Instr`, `Branch(targets, cond)`, `Return`, `Unhandled`, `Comment` |
| CFG builder | `loops.rs` `cfg`, `all_labels` | edges between instruction indices; an unconditional `Branch` makes the following code unreachable until the next `Label` |
| loop discovery | `loops.rs` `top_level_loops`, `all_loops`, `loop_headers`, `collect_loops` | Tarjan SCCs; `all_loops` peels nesting levels by deleting the incoming edges of each round's entry headers |
| normalizer | `loops.rs` `insert_loop_fallthrough_back_edges`, `insert_loop_exit_labels` | explicit `goto` for fallthrough back edges, labels `X<k>` at fallthrough exits, a final `Return` |
| duplicator | `loops.rs` `duplicate_loops` | appends a FORCED and a FINAL copy of each top-level loop and repairs the edges into the headers |
| emitter | `generate.rs` `boogie_to_string` | one Boogie statement per instruction, with three assertions after each loop-header label |
| file generation | `lib.rs` `generate_boogie_file`, `classify_function` | picks templates by function name and writes the files |
| CLI | `vatomic/verify/src/main.rs` | arguments, reading the listing, writing the output |

Data flows in one direction: parse, then extract and transform labels, then
lower, then unroll (if `-u`), then emit. Everything runs in a single thread.
The hard behaviours are therefore not interleavings but input shapes: the
order in which the passes see loops, names that are computed once and used
after the code has changed, fallthrough versus explicit edges, and
boundaries (an exit at the end of the code, a loop through the entry).

### State and operations of the core

- `code: Vec<BoogieInstruction>` (`changed_code` of `unroll`) is the only
  state. Each pass reads it and rewrites it.
- `duplicate_loops` keeps `loops`, `graph` and `labels` fixed across its
  iterations, plus the running `loop_id`.
- The operations are the three passes of `unroll`, the loop iterations of
  `duplicate_loops`, and `boogie_to_string`. The error paths are the panics
  in `cfg` (missing label), `insert_loop_fallthrough_back_edges` (header not
  a label), `duplicate_loops` (missing key, unlabelled exit, unlabelled
  header) and `boogie_to_string` (`unreachable!` for a non-label header).

### What must hold (the properties)

1. The emitted body, read as Boogie reads it, only takes control-flow steps
   that the input function could take (refinement).
2. It keeps every instruction the input could reach reachable.
3. Every `goto` names exactly one label.
4. After unrolling, no top-level loop header of the input lies on a cycle.
5. One pass through the forced copy ends in the final copy.
6. Every loop left in the emitted body carries the loop-header assertions.
7. `insert_loop_exit_labels` is idempotent (spec section 8).

Points 1 to 3 are the soundness of the generated verification condition: a
dropped edge or an unreachable instruction makes Boogie prove the function
vacuously. Points 4 to 6 are what the unrolling is for. Points 4 and 5 fail when a
conditional branch names the header right after it (finding 3), so they
are checked on the inputs without such a branch.

## 2. Modules

| module | models | state / operators |
|---|---|---|
| `BoogieCode` | `BoogieInstruction`, `cfg`, `all_labels`, `top_level_loops`, `all_loops`, `loop_headers`, `collect_loops` | instructions as records; `Cfg(c)` is the edge set; `TopLevelLoops`, `PeelRounds` (each round's loops with that round's graph), `LoopHeaders` |
| `Unroll` | `insert_loop_fallthrough_back_edges`, `insert_loop_exit_labels`, `find_exit_name`, `transform_label`, `transformed`, one iteration of `duplicate_loops` | functions from code to code, and the panic conditions of each |
| `Emit` | `boogie_to_string` | `BoogieToString(c)` gives statements with kind, label, goto targets and whether the assertions follow; `BSucc` is the control flow Boogie gives them |
| `ControlFlow` | the abstract specification: a pc that moves along `Cfg(prog)` | `prog`, `pc` |
| `Generate` | `generate_boogie_file` to `unroll` to `boogie_to_string`, then a Boogie execution of the result | `input`, `unrollLoop`, `code`, `phase`, `todo`, `graph`, `labels`, `loopId`, `stmts`, `bpc` and the auxiliary `duplicated` and `forced` |
| `MCGenerate` | the inputs, the properties and the refinement | |
| `AsmSemantics` | reference, not code: what GNU as binds a label name to (`Nb`/`Nf` numeric locals, symbols otherwise) | `Target(lst, p)` |
| `ArmParse` | `parse_arm_assembly` (`verify/src/arm/parser.rs`): nom parsers for operands, the nine instruction families in `alt` order, label definitions, directives, `parse_line` | pure operators over strings; `ParseLine(t)` is the `ArmInstruction` as a record |
| `ArmFrontEnd` | `extract_arm_functions`, `transform_labels` (`vatomic/verify/src/arm/transform.rs`), `arm_instruction_to_boogie` (`verify/src/arm/mod.rs`) | `assembly` (the text), `listing`, `epos`, `funcs`, `cur`, `phase`, `fi`, `tpos`, `labelMap`, `forwardMap`, `counter`, `newInstrs`, `out` |
| `MCArmFrontEnd` | listings of text lines with the assembler's reading of each (`Reading`), a block of memory instructions, the properties | |
| `ParseText` | character helpers shared by both parser models (`take_while`, `str::trim`), and the i64 range check of `i64::from_str_radix` | `SpanEnd`, `Trim`, `FitsI64`, the result record `[ok, val, next]` and `Abort` |
| `RiscvParse` | `parse_riscv_assembly` (`verify/src/riscv/parser.rs`): registers, immediates, memory operands, fence modes and labels in `parse_operand`'s `alt` order, directives, label definitions, every arm of `map_instruction`, `parse_line` | pure operators over strings; `ParseLine(t)` is the `RiscvInstruction` as a record |
| `RiscvFrontEnd` | `parse_functions` for riscv (`vatomic/verify/src/main.rs` 65-73): `parse_riscv_assembly`, `extract_riscv_functions`, `transform_labels`, `get_label_index` (`vatomic/verify/src/riscv/transform.rs`), `riscv_instruction_to_boogie`, `register_to_string`, `fence_mode_to_boogie` (`vatomic/verify/src/riscv/mod.rs`) | `listing`, `epos`, `funcs`, `cur`, `phase`, `fi`, `i`, `backMap`, `newInstrs`, `out` |
| `MCRiscvFrontEnd` | listings of text lines the assembler accepts, a block of every memory, fence, branch and ALU form, the properties | |
| `Templates` | `main` in directory mode and `generate_boogie_file`, `classify_function`, `get_templates_for_type`, `get_assumptions`, `atomic_types` (`vatomic/verify/src/lib.rs`) | `phase`, `functions`, `fi`, `todo`, `files`: per function the written templates, each as its assumptions and its two u64 masks |
| `MCTemplates` | the whole vatomic API by name, and what each name means | |
| `U64` | u64 arithmetic shared by the masks of `generate_boogie_file` (`lib.rs` 331-336), `MemorySize::mask` (ARM `mod.rs` 153-155) and `Size::mask` (RISC-V `mod.rs` 38-40) | a u64 as a function from bit positions 0..63 to {0,1}: `U64Pow2`, `U64Dec` (wrapping), and the reference `Ones(n)` |

### Front ends

Both front ends are one action per loop iteration of the Rust code:
`ExtractStep` is one pass of `for instr in parsed`, `ExtractDone` the push
after the loop, `TransformStep` one instruction of `transform_labels`, and
`LowerFunction` the end of `transform_labels` followed by `to_boogie`.
ARM listings are built from text lines and parsed by `ArmParse`'s
`ParseLine`, so the parser, the label transform and the lowering run on the
same input. The parser follows nom exactly: `alt` takes the first
alternative that succeeds, `separated_list0` stops at the first separator
not followed by an operand, and `parse_line` returns `Unhandled` unless the
alternative consumed the whole trimmed line. The lowering of a memory
instruction is a record `call` with the Boogie procedure's name, its
acquire and release flags, the access size, the u64 mask passed as
`{mask}bv64` (`MemorySizeMask`, on RISC-V `SizeMaskOf`) and the barrier
argument. The mask is computed as the code computes it: `2^(8*bytes)` with
`overflowing_pow`, which is 0 for a doubleword, then a wrapping decrement;
`AccessesDecoded` and `InstructionsDecoded` compare it with all ones over
the access's bits.
`Unimplemented` is the `unimplemented!` panic of `operand_to_boogie`.
When a lowered function contains it, `LowerFunction` moves to phase
`panic`: the process ends there, since `parse_functions` lowers every
function of the file before `main` selects any by name.
A parser that panics (the `unwrap` of `i64::from_str_radix` on an immediate
wider than i64) returns `Abort`, which every parser above it passes on, and
`parse_line` yields an `Abort` instruction. `Init` then starts in phase
`panic` (`ParsePanics`), since the panic ends `parse_*_assembly` before
extraction begins.

Each parser binds its intermediate results once (`Pick({e : x \in {...}})`)
instead of in a LET. Under TLC's coverage mode, LET values are not cached,
and re-evaluating them makes the nested parsers exponential.

### Templates

A name is decoded by the regexes of `lib.rs`, modelled as operators with the
regex crate's leftmost-first semantics. `MCTemplates` states what a name
means independently of those regexes: it builds each API function from its
parts (width, kind, operator, condition, order) and derives the expected
templates and assumptions from the parts. The masks are u64 bit vectors, so
`(1 << 64) - 1` wraps as it does in Rust.

### Correspondence

- Positions are 0-based, as in the Rust code: `At(c, i)` is `code[i]`. Vertex
  `Len(c)` is the point after the last instruction.
- Every instruction carries an auxiliary field `org`: the input position it
  stands for. An inserted `goto` takes the `org` of the header it precedes;
  an exit label takes the `org` of the instruction it labels; the appended
  `Return` stands for the end of the input; copies keep the `org` of their
  original. `org` drives the refinement mapping and no code reads it.
- Each pass of `unroll` is one action of `Generate`: `InsertBackEdges`,
  `InsertExitLabels`, `StartDuplicate` (the preamble of `duplicate_loops`),
  `DuplicateNext` (one loop iteration, with the graph and label map of the
  preamble, exactly as the code keeps them), `UnrollDone` and `EmitCode`.
  Every action models the whole call, including its panic: a panic takes
  the model to phase `"panic"`, where it stops.
- petgraph's `tarjan_scc` returns components in reverse topological order.
  `TarjanOrders` allows every order of the loops in which no earlier loop
  reaches a later one. The order of unrelated loops is left open; it only
  affects `loop_id`.
- `BoogieStep` executes the emitted body: `goto` jumps to a label,
  `if (c) { goto }` either jumps or falls through, and `return` and
  `assume false; return;` end the procedure.
- Labels are strings built the way the code formats them:
  `<label>_<id>_FORCED_ITER` and `X<k>`. Name collisions are therefore real
  in the model.
- Faulty variants (`ForcedCopyNoBlocker`, `FinalCopyBlockExits`,
  `TransformLabelNoSuffix`, `MayFallthroughNoBranch`, `AllLoopsTopOnly`,
  `InsertLoopExitLabelsAscending`, ...) sit next to the operators they vary.
  Each one replaces its operator in turn, and some property must then fail.

### Refinement

`MCGenerate` instantiates `ControlFlow` with `prog <- input` and
`pc <- OrgOf(bpc)` while the body runs (0 before). `ControlFlowRefined`
(`Orig!Spec`) says that every step of the Boogie execution of the emitted,
possibly unrolled, body is either a stutter (an inserted `goto`, an exit
label, a jump between copies of the same instruction) or an edge of the
input's CFG.

## 3. Runs

All runs use `MCGenerate` with the function label `F`, the further labels
`A` and `X1` (`X1` also collides with the first name `find_exit_name`
tries), the conditions `{"true", "c"}`, and every input the lowering could
produce up to the bound. An input is the function label followed by up to
`MaxFree` instructions from {`Instr`, `Return`, the next label, `Branch([t], cond)`
for every label `t`}. Two consecutive `Instr` are folded into one, because
they have the same control flow. Every branch target resolves (spec section
6). `Unhandled` and `Comment` have the control flow of `Instr`.

| run | cfg | expect | what it shows |
|---|---|---|---|
| `unroll_sound` | `MCGenerate.cfg` | pass | All eight properties, for all 10,157 inputs of up to 5 free instructions in which no branch names the label right after it, with and without `-u`. The inputs with such a branch are left out (`NoopBranches = "none"`): on them the forced copy falls into its own header copy (`noop_branch`, finding 3), so the header copies stay on a cycle and `HeadersBroken` fails as well. 169,453 states, about 25 s. |
| `entry_loop` | `MCEntryLoop.cfg` | violation | `EveryLoopAsserted`: `[F: goto F]` gets no assertions. |
| `duplicate_panic` | `MCDuplicatePanic.cfg` | violation | `NoPanic`: two chained loops make `duplicate_loops` panic (inputs with a loop through the entry excluded). |
| `noop_branch` | `MCNoopBranch.cfg` | violation | `ForcedPassAdvances`: `if c goto A; A:` inside a loop lets the forced copy fall into its own header copy. |
| `original_body` | `MCOriginalBody.cfg` | violation | `OriginalBodyUnreachable`: `F: A: goto A` still runs the original loop after unrolling. |
| `arm_frontend` | `MCArmFrontEnd.cfg` | pass | ARM extraction, label transform and lowering keep the assembler's control flow, yield well-formed functions and partition the listing. A block of 34 correctly decoded memory instructions is lowered to the right calls. `PanicsExactly`: the run aborts exactly on listings with a literal load, a zero-register store or an immediate wider than i64. 1,430,419 states, about 85 s with coverage. |
| `arm_lost_edges` | `MCArmLostEdges.cfg` | violation | `CfgFaithful`: `b .Lab` goes to `.La`; the edges of `tbz` and of `cbnz w0, 1b` are lost; `br x1` falls through. Each of the four forms violates the property on its own. |
| `arm_panic_confined` | `MCArmPanic.cfg` | violation | `PanicConfined`: `stlr wzr, [x0]` in `gc` aborts the run after `ga` was lowered without error. |
| `arm_decode` | `MCArmDecode.cfg` | violation | `AccessesDecoded`: `ldadd`, `ldseta`, `cas`, `casl`, `stclr`, `dmb ishld`, `lsl` and `subs` are lowered to the wrong memory operation or ordering. |
| `riscv_frontend` | `MCRiscvFrontEnd.cfg` | pass | On 35,732 accepted listings, the RISC-V front end panics exactly on the listings with a function that leaves itself (`PanicsExactly`: a tail jump, a numeric reference into another function, `jr t0`). It keeps every function's control flow, including `1b`/`1f` with label 1 defined several times (`CfgFaithful`). It lowers each instruction of a 56-line block to the Boogie operation its mnemonic denotes (`InstructionsDecoded`), `li` with immediates at the i64 boundary included. 580,231 states, about 60 s with coverage. |
| `riscv_decode` | `MCRiscvDecode.cfg` | violation | `InstructionsDecoded`: `amomaxu.w`, bare `fence`, `bgt`, `blez`, `call wake`, `mv a0, s10` are dropped; `jal ra, gd` becomes a goto; `la` is Global; `addw` is `add`; `beqz .Lab` goes to `.La`. The final state of the trace shows each of them. |
| `templates` | `MCTemplates.cfg` | pass | Every vatomic API function gets the templates and assumptions its name means, and the masks of its width. 7,876 states, about 20 s. |

The core runs (the first five) use the following bound. The bound of 5 free instructions is the smallest at which two loops can be
chained with a live branch between them (the panic). It also covers nested
loops, loops with two entry headers, exits at the end of the code, and
programs that already contain `X1`. Going up to 6 multiplies the inputs by
about 8. `CHECK_DEADLOCK FALSE` is set because the pipeline really stops: at
a panic, and when the emitted procedure returns.

The ARM front-end run bounds the first function to a label and 4
instructions, and the second to 2. This allows a forward and a backward
reference to the same local label, a label defined after its use, and both
functions in one listing. The instructions are `add`, `ret`, `bl`, a label
definition, `b`/`b.ne` to every label, and in `gc` the literal load
`ldr w0, .Lc`, the zero-register store `stlr wzr, [x0]` and three wide moves: `mov x0, #9223372036854775807` and `#0x007fffffffffffffff` (the largest i64, once with leading zeros) and `#0x8000000000000000` (one past it). `arm_lost_edges` adds `tbz`/`cbnz` to every label, the
numeric label `1:` with `b.ne 1f` and `cbnz w0, 1b`, and `br x1`, and
uses the local label `.Lab`. Only listings the assembler accepts (every
`1b`/`1f` has a label) are kept. `MCArmFrontEnd`'s `Reading` gives, for
each line, what the assembler makes of it; `CfgFaithful` compares the
lowered cfg with the control flow of that reading.
Two `add`s in a row are folded into one. The RISC-V listings are text: an
optional `.cfi_startproc`, a function `ga` of a label and up to 3 lines, and
an optional function `gc` of a label and up to 2 lines. The lines are `add`,
`jr ra` / `ret`, the numeric label `1` (definable any number of times),
`.La:`, and `beqz`/`j` to the function, `1b`, `1f` and `.La`; `gc` may also
tail-jump with `j ga` and jump through `jr t0`. Only listings the assembler
accepts are kept, built from per-function summaries of what each function
defines and leaves open. Init parses each listing with `ParseAsm`. One more
listing is the function `gd` whose body is the block of `InstructionsDecoded`:
every load and store size, `lr`/`sc`/AMO with each ordering, writes to `zero`,
fences, every supported branch, `j`, `jal zero`, `call`, and ALU forms, with `li` of the largest and smallest decimal and hex immediates that fit i64 (one with leading zeros). The block of
`AccessesDecoded` lists every load, store, exclusive, LSE, swap, CAS and
barrier form once in the sizes and orderings that matter.

There is no fairness and there are no liveness properties. Every behaviour is
finite (the pipeline is a fixed sequence of passes, and the Boogie execution
only matters through its safety), so the safety properties and the
refinement say everything.

### Findings

1. A loop through instruction 0 has no entry header, because the function
   entry is not a CFG edge. It therefore gets neither assertions nor
   unrolling. Spec section 8's end-to-end scenario starts with exactly such a
   loop.
2. `duplicate_loops` panics (`labels[label]`, loops.rs 268) when an
   upstream loop branches into a downstream loop's header. The downstream
   loop is processed first, and its entry repair renames the branch inside the
   upstream loop.
3. `may_fallthrough` (loops.rs 182) also exempts a conditional branch to
   the header. Spec 4.4 only exempts an unconditional one, and the forced
   pass then does not advance to the final copy.
4. Entry repair rewrites only branches, so a fallthrough entry keeps the
   original loop reachable. Spec 4.5 says the copies supersede it.

5. ARM `transform_labels` strips the last letter of every branch target
   ending in `b` or `f` (transform.rs 90). The parser never produces numeric
   labels, so a real label such as `.Lab` is redirected to `.La` or to a
   name no label has.
6. `tbz`/`tbnz` are lowered to `Unhandled` (mod.rs 442), so their branch
   edge is lost, and with it the retry loops that use them.
7. RISC-V `get_label_index` has the same suffix rule (transform.rs 96).
   It redirects `.Lab` to `.La`, or panics when `.La` is not yet defined.
   Shown by `riscv_decode`, with the RISC-V decoding findings below.
8. `parse_memory_attrs` (parser.rs 434) sets acquire when the mnemonic
   contains an `a` anywhere, and release when it contains an `l`. Relaxed
   `ldadd` is then verified as acquire-release, `cas` as acquire and
   `stclr` as release.
9. `parse_fence_mode` knows only the options `sy` and `ld` (parser.rs
   124-130), and `parse_operand` tries a label before it (parser.rs 210),
   so even `ld` is read as a label. Every option, `ishld` included, falls
   back to `FenceType::SY`: `dmb ishld` is lowered as a full barrier.
10. `parse_memory_instruction` decides by the first letter (parser.rs 461).
   Three-operand `lsl` becomes a load and `subs` a store.
11. RISC-V `map_instruction` has no `amomaxu`/`amominu` (parser.rs 691), no
   bare `fence` (520), and none of the branch pseudo-instructions `bgt`,
   `ble`, `bgez`, `bltz`, `blez`, `bgtz` (279). Each is `Unhandled` and drops
   out of the Boogie code.
12. RISC-V `parse_operand` tries a fence mode before a label, and the tags
   match prefixes (parser.rs 143): `call wake` is dropped.
13. `parse_register` accepts `s<N>` only with one digit (parser.rs 39), so
   `s10` and `s11` are labels and their instructions are dropped.
14. `jal ra, f` is lowered to a goto like `j` (mod.rs 509), not a call.
15. `la` is lowered as `Global` (mod.rs 352); the spec keeps `Global` for
   visible loads, stores and fences.
16. `addw` and `addiw` lose their width: `_op_suffix` is never used
   (mod.rs 456, 483).
17. ARM numeric local labels are lost: `1:` is not a label (parser.rs 81)
   and `1b` parses as the immediate 1, so `cbnz w0, 1b` is lowered to
   `Unhandled` and the retry loop becomes straight-line code.
18. ARM `br x1` is lowered to `Unhandled`, a fallthrough (mod.rs 442); spec
   section 3 has `Branch([], true)` for a branch with no static target.
19. A line whose operand lowers to a label (the zero-register store of
   finding 21, or a literal load `ldr w0, .Lc`) reaches `unimplemented!()`
   in `operand_to_boogie` (mod.rs 480). Since `parse_functions` lowers
   every function of the file before `main` filters by name (main.rs 63,
   205-209), one such line aborts the run for every function. Spec section
   7 confines a fatal error to its function. Shown by `arm_panic_confined`:
   `ga` is lowered, then `stlr wzr, [x0]` in `gc` ends the run.
   `PanicsExactly` of `arm_frontend` checks that the literal load aborts
   the run in the same way.
20. Both parsers read an immediate's magnitude with
   `i64::from_str_radix(...).unwrap()` and negate it afterwards (RISC-V
   parser.rs 95, ARM parser.rs 66). `li a0, 0xffffffffffffffff` (-1 to the
   assembler) and `li a0, -9223372036854775808` (i64::MIN) panic and abort
   the parse of the whole file, as does ARM `mov x0, #0x8000000000000000`.
   `PanicsExactly` of `arm_frontend`, which passes, checks that
   `mov x0, #0x8000000000000000` aborts the run while `#0x7fffffffffffffff`
   does not; `riscv_frontend`'s `PanicsExactly` states the same boundary for
   `li`, and its `FitsNarrow` mutant fails at the largest `li` that fits.
21. ARM `parse_register` (parser.rs 31-45) accepts `sp` and a register
   letter followed by digits only. The zero registers `wzr`/`xzr` therefore
   parse as a `Label` operand, and lowering `stlr wzr, [x0]` (a release
   store of zero, common in unlock paths) reaches `unimplemented!()` in
   `operand_to_boogie` (mod.rs 480): the whole run panics. Shown by
   `arm_panic_confined` (finding 19).

## 4. What is not modelled

- **Immediate values**: both parsers keep an immediate as whether it is
  zero and whether its magnitude fits i64 (`FitsI64`, digit strings compared
  against `i64::MAX` after leading zeros). Nothing else the lowering checks
  depends on the value.
- **Operand texts**: the lowered call keeps its operation, ordering, size,
  mask and barrier, not the register and address strings. So whether a
  register name is declared by the templates (`all_registers`, main.rs
  33-44), the `x1+8` form of an offset address, and ARM's `-Nbv64` text of
  a negative immediate (mod.rs 466) are not checked: they concern Boogie's
  typing of the emitted text, and the templates that declare the registers
  are not part of the repository.
- **Text substitution into the templates**, `generate_debug_file`, and the
  argument checking and file I/O of the CLI.
- **Instruction semantics** (`execute`, registers, memory ordering): this is
  Boogie's job, outside the generator. Instructions are abstracted to their
  control flow and, on ARM, to the Boogie call they lower to.
- **Composition** of the front ends with `Generate`: the front-end
  properties `CfgFaithful` and `LoweredWellFormed` state exactly the input
  assumptions `Generate` makes, so the two halves are checked separately.
