---------------------------- MODULE MCGenerate ----------------------------
(***************************************************************************)
(* Model-checking instance of Generate. The inputs are every instruction   *)
(* sequence the lowering can hand over, up to a bound: the function's own  *)
(* label first (extract_*_functions keeps it as instruction 0), then up to *)
(* MaxFree instructions drawn from Instr, Return, the next fresh label of  *)
(* Names, and Branch({t}, cond) to any label t of the function (the        *)
(* lowering only produces single-target branches) with cond in Conds.      *)
(* Two Instr in a row are folded into one: they have the same control flow.*)
(***************************************************************************)
EXTENDS Generate

CONSTANTS
  EntryName,     \* name of the function's own label
  Names,         \* sequence of further label names, used in order
  Conds,         \* branch conditions: TrueCond and one opaque condition
  MaxFree,       \* instructions after the function label
  NoopBranches,  \* "none": no Branch names the label right after it;
                 \* "some": at least one does
  EntryLoops     \* whether instruction 0 may lie on a loop

MCNames == <<"A", "X1">>

AllNames == {EntryName} \cup {Names[k] : k \in DOMAIN Names}

\* the instructions that may come next when k of the m further labels are
\* placed; branches only name labels the function will have (spec section 6:
\* every branch target resolves)
Cands(k, m) ==
  {InstrI("Global", 0), ReturnI(0)}
    \cup (IF k < m THEN {LabelI(Names[k+1], 0)} ELSE {})
    \cup {BranchI({t}, cd, 0) : t \in {EntryName} \cup {Names[i] : i \in 1..m},
                                cd \in Conds}

\* a Branch naming the label that follows it
NoopPair(prev, x) ==
  prev.kind = "Branch" /\ x.kind = "Label" /\ x.name \in prev.targets

Allowed(prev, x) ==
  /\ ~(prev.kind = "Instr" /\ x.kind = "Instr")
  /\ NoopBranches = "some" \/ ~NoopPair(prev, x)

HasNoop(c) == \E i \in 1..Len(c)-1 : NoopPair(c[i], c[i+1])

\* the continuations of at most n instructions that place the remaining
\* labels Names[k+1..m]
RECURSIVE Gen(_, _, _, _)
Gen(n, k, m, prev) ==
  (IF k = m THEN {<<>>} ELSE {}) \cup
    IF n = 0 THEN {}
    ELSE UNION {{<<x>> \o s : s \in Gen(n-1, IF IsLabel(x) THEN k+1 ELSE k, m, x)}
                : x \in {x \in Cands(k, m) : Allowed(prev, x)}}

Numbered(c) == [p \in DOMAIN c |-> [c[p] EXCEPT !.org = p-1]]

MCPrograms ==
  {c \in {Numbered(<<LabelI(EntryName, 0)>> \o s) :
            s \in UNION {Gen(MaxFree, 0, m, LabelI(EntryName, 0)) : m \in 0..Len(Names)}} :
     /\ NoopBranches = "some" => HasNoop(c)
     /\ EntryLoops \/ 0 \notin Reach(Cfg(c), {0})}

-----------------------------------------------------------------------------
\* the position of the emitted body stands for this input position
OrgOf(p) == IF p = Len(stmts) THEN Len(input) ELSE stmts[p+1].org

Instructions ==
  [kind : {"Label"}, name : STRING, org : Nat]
    \cup [kind : {"Instr"}, effect : {"Global", "Local"}, org : Nat]
    \cup [kind : {"Branch"}, targets : SUBSET STRING, cond : Conds, org : Nat]
    \cup [kind : {"Return"}, org : Nat]

TypeOK ==
  /\ unrollLoop \in BOOLEAN
  /\ phase \in Phases
  /\ code \in Seq(Instructions)
  /\ \A i \in Positions(code) : At(code, i).org \in 0..Len(input)
  /\ todo \in Seq(SUBSET Nat)
  /\ loopId \in Nat
  /\ duplicated \subseteq Nat
  /\ bpc \in 0..Len(stmts)

(***************************************************************************)
(* Refinement: every path Boogie can take through the emitted body, read   *)
(* through org, is a path of the input function's control-flow graph.      *)
(* Inserted gotos, exit labels, the appended Return and both loop copies   *)
(* may only stutter or take steps the input could take. This is what makes *)
(* a proof about the emitted body a proof about the input function.        *)
(***************************************************************************)
Orig == INSTANCE ControlFlow WITH
          prog <- input,
          pc <- IF phase = "run" THEN OrgOf(bpc) ELSE 0

ControlFlowRefined == Orig!Spec

\* the run starts: the emitted body is complete and Boogie is at its entry
AtEntry == phase = "run" /\ bpc = 0

(***************************************************************************)
(* Unrolling loses no code: every input instruction reachable from the     *)
(* function entry is reachable in the emitted body through some copy       *)
(* (the refinement gives the converse). A dropped exit of the final copy,  *)
(* or an entry edge not repaired, makes code after a loop unreachable and  *)
(* the verifier would prove it vacuously.                                  *)
(***************************************************************************)
ReachabilityPreserved ==
  AtEntry =>
    {OrgOf(p) : p \in {0} \cup Reach(BEdges(stmts), {0})}
      = {0} \cup Reach(Cfg(input), {0})

(***************************************************************************)
(* Every goto of the emitted body names exactly one label: duplicated and  *)
(* fresh labels (the _FORCED_ITER / _FINAL_ITER copies, X<k> exit labels)  *)
(* never collide with each other or with the input's labels.               *)
(***************************************************************************)
LabelsResolve ==
  AtEntry =>
    \A p \in DOMAIN stmts : \A t \in stmts[p].targets :
      Cardinality({q \in DOMAIN stmts : stmts[q].kind = "label"
                                        /\ stmts[q].name = t}) = 1

(***************************************************************************)
(* After unrolling no loop goes round through a copy of a header of one of *)
(* the input's top-level loops: each copy is traversed at most once, the   *)
(* forced copy hands over to the final copy and the final copy only exits. *)
(* (Loops nested inside a copy remain; loops.rs documents that.) It holds  *)
(* on inputs where no branch names the label right after it: the exemption *)
(* of loops.rs 182 leaves a cycle through the forced header copy there.   *)
(***************************************************************************)
InputHeaders ==
  UNION {EntryHeaders(Cfg(input), l) : l \in CollectLoops(input)}

HeadersBroken ==
  (phase = "emit" /\ unrollLoop) =>
    LET E == Cfg(code) IN
    \A p \in Positions(code) :
      (IsLabel(At(code, p)) /\ At(code, p).org \in InputHeaders) => p \notin Reach(E, {p})

(***************************************************************************)
(* One pass through the forced copy ends in the final copy (spec 4.5 step  *)
(* 1): no edge inside a loop's forced copy leads to the forced copy of one *)
(* of its headers. It rests on insert_loop_fallthrough_back_edges making   *)
(* every fallthrough into a header an explicit branch, which the forced    *)
(* copy retargets to the final copy.                                       *)
(***************************************************************************)
ForcedPassAdvances ==
  (phase = "emit" /\ unrollLoop) =>
    \A r \in forced : \A e \in Cfg(code) : ~(e[1] \in r.body /\ e[2] \in r.heads)

(***************************************************************************)
(* The loop-header assertions of boogie_to_string cover every loop of the  *)
(* emitted body: each cycle reachable from the entry passes an asserted    *)
(* label, except a cycle through the entry itself, whose component has no  *)
(* incoming edge and hence, by the definition of a header, no header.      *)
(***************************************************************************)
Asserted(s) == {p \in DOMAIN s : s[p].asserts} \* 1-based
UnassertedCycles(s) ==
  LET E == BEdges(s)
      E2 == RemoveIncoming(E, {p - 1 : p \in Asserted(s)})
  IN {p \in Reach(E, {0}) \cup {0} : p \in Reach(E2, {p})}

AssertionsCoverLoops ==
  AtEntry => UnassertedCycles(stmts) \subseteq Scc(BEdges(stmts), 0)

(***************************************************************************)
(* insert_loop_exit_labels is idempotent (spec section 8): run again on    *)
(* its own output it changes nothing, i.e. after one run every fallthrough *)
(* exit of every loop, at every nesting level, is a label and the body     *)
(* ends in a Return.                                                       *)
(***************************************************************************)
ExitLabelsIdempotent ==
  phase = "duplicate" => InsertLoopExitLabels(code, Len(input)) = code

-----------------------------------------------------------------------------
(* Statements of the specification (spec.md) that the code does not meet;  *)
(* each is checked by a run expected to find a violation.                  *)

(***************************************************************************)
(* Spec section 8: every loop of the emitted body gets the loop-header     *)
(* assertions. A loop through instruction 0 has no entry header (the       *)
(* function entry is no cfg edge), so loop_headers misses it.              *)
(***************************************************************************)
EveryLoopAsserted == AtEntry => UnassertedCycles(stmts) = {}

(***************************************************************************)
(* unroll() never panics on a program the lowering produces (spec 4.5).    *)
(* duplicate_loops iterates in Tarjan postorder and reads labels[label]    *)
(* from a map computed before the first iteration; the entry repair of one *)
(* loop renames a branch inside a loop processed later.                    *)
(***************************************************************************)
NoPanic == phase # "panic"

(***************************************************************************)
(* Spec section 4.5: after duplication the original loop body is          *)
(* unreachable, entries being redirected to the forced/final copies. The   *)
(* repair only rewrites Branch instructions, so a fallthrough entry still  *)
(* runs the original body.                                                 *)
(***************************************************************************)
OriginalBodyUnreachable ==
  (AtEntry /\ unrollLoop) =>
    ({0} \cup Reach(BEdges(stmts), {0})) \cap duplicated = {}

=============================================================================
