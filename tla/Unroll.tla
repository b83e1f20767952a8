------------------------------- MODULE Unroll -------------------------------
(***************************************************************************)
(* The transformation passes of unroll() in verify/src/loops.rs, each a    *)
(* function of the instruction sequence:                                   *)
(*   insert_loop_fallthrough_back_edges, insert_loop_exit_labels, and one  *)
(*   iteration of the per-loop body of duplicate_loops.                    *)
(* The Generate module sequences them as steps of a state machine.         *)
(* Label names are strings built the way the code formats them:            *)
(* transform_label gives "<label>_<id>_<suffix>", find_exit_name "X<k>".   *)
(***************************************************************************)
EXTENDS BoogieCode, SequencesExt, TLC

\* Vec::insert at 0-based index i
Insert0(c, i, x) == InsertAt(c, i+1, x)

\* insert the <<index, instruction>> pairs of S, highest index first
RECURSIVE InsertDescending(_, _)
InsertDescending(c, S) ==
  IF S = {} THEN c
  ELSE LET p == CHOOSE p \in S : \A q \in S : q[1] <= p[1]
       IN InsertDescending(Insert0(c, p[1], p[2]), S \ {p})

-----------------------------------------------------------------------------
(***************************************************************************)
(* insert_loop_fallthrough_back_edges (loops.rs 163-197). For a member j   *)
(* of a top-level loop whose successor position j+1 is an entry header,    *)
(* the code requires code[j+1] to be a Label (else it panics) and inserts  *)
(* an explicit `goto label` after j unless code[j] is a Branch that names  *)
(* the label or is unconditional.                                          *)
(***************************************************************************)
\* faulty variant: no branch may fall through
MayFallthroughNoBranch(ins, label) == ins.kind # "Branch"

MayFallthrough(ins, label) ==
  ins.kind = "Branch" => (label \notin ins.targets /\ ins.cond # TrueCond)

\* <<loop, j>> pairs visited with j+1 an entry header of the loop
HeaderFollowers(c) ==
  LET E == Cfg(c) IN
  UNION {{<<l, j>> : j \in {j \in l : j+1 \in EntryHeaders(E, l)}} : l \in CollectLoops(c)}

BackEdgePanic(c) == \E p \in HeaderFollowers(c) : ~IsLabel(At(c, p[2]+1))

InsertLoopFallthroughBackEdges(c) ==
  LET js == {p[2] : p \in {p \in HeaderFollowers(c) :
                             MayFallthrough(At(c, p[2]), At(c, p[2]+1).name)}}
  IN InsertDescending(c, {<<j+1, BranchI({At(c, j+1).name}, TrueCond, At(c, j+1).org)>>
                            : j \in js})

-----------------------------------------------------------------------------
(***************************************************************************)
(* insert_loop_exit_labels (loops.rs 199-231). The exits are the           *)
(* fallthrough targets i+1 of edges leaving a loop of any all_loops round, *)
(* read on that round's graph. A Return is appended unless the sequence    *)
(* already ends in one; then, from the highest exit down, every exit that  *)
(* is not already a Label gets a fresh label "X<k>".                       *)
(***************************************************************************)
LoopExits(c) ==
  {e[2] : e \in UNION {{e \in r.edges : e[1] \in r.loop /\ e[2] \notin r.loop
                                         /\ e[2] = e[1] + 1}
                       : r \in PeelRounds(Cfg(c), Vertices(c))}}

ExitName(k) == "X" \o ToString(k)

\* find_exit_name: increment count until "X<count>" is not a label
RECURSIVE FindExitIndex(_, _)
FindExitIndex(count, labels) ==
  IF ExitName(count + 1) \notin labels THEN count + 1
  ELSE FindExitIndex(count + 1, labels)

\* the Return appended to a sequence that does not end in one stands for
\* the point after the input's last instruction
WithReturn(c, end) ==
  IF Len(c) > 0 /\ At(c, Len(c)-1).kind = "Return" THEN c
  ELSE Append(c, ReturnI(end))

RECURSIVE LabelExits(_, _, _, _)
LabelExits(c, xs, count, labels) ==
  IF xs = <<>> THEN c
  ELSE LET x == Head(xs) IN
       IF IsLabel(At(c, x)) THEN LabelExits(c, Tail(xs), count, labels)
       ELSE LET k == FindExitIndex(count, labels)
            IN LabelExits(Insert0(c, x, LabelI(ExitName(k), At(c, x).org)),
                          Tail(xs), k, labels)

\* faulty variant: exits labelled in ascending order, so that each insertion
\* shifts the exits still to be labelled
InsertLoopExitLabelsAscending(c, end) ==
  LabelExits(WithReturn(c, end), SortedSeq(LoopExits(c)), 0, DOMAIN AllLabels(c))

InsertLoopExitLabels(c, end) ==
  LabelExits(WithReturn(c, end), Reverse(SortedSeq(LoopExits(c))), 0,
             DOMAIN AllLabels(c))

-----------------------------------------------------------------------------
(***************************************************************************)
(* One iteration of duplicate_loops (loops.rs 233-340) for loop l with     *)
(* loop_id id. E and labels are the graph and label map that               *)
(* duplicate_loops computes once, before its first iteration; c is the     *)
(* code as earlier iterations left it.                                     *)
(***************************************************************************)
ForcedSuffix == "FORCED_ITER"
FinalSuffix  == "FINAL_ITER"

\* faulty variant: the suffix left out of the format string
TransformLabelNoSuffix(l, id, sfx) == l \o "_" \o ToString(id)

TransformLabel(l, id, sfx) == l \o "_" \o ToString(id) \o "_" \o sfx

Transformed(ins, name, targets) ==
  CASE ins.kind = "Branch" -> [ins EXCEPT !.targets = targets]
    [] ins.kind = "Label"  -> [ins EXCEPT !.name = name]
    [] OTHER               -> ins

\* what transformed() hands to the label and to the branch transformer
NameOf(ins)    == IF IsLabel(ins) THEN ins.name ELSE ""
TargetsOf(ins) == IF ins.kind = "Branch" THEN ins.targets ELSE {}

\* an edge i -> i+1 leaving the loop ("indirect loop exit")
IndirectExit(E, l, i) == <<i, i+1>> \in E /\ i+1 \notin l

\* labels[label] on a name the map lacks panics
DuplicatePanic(c, l, E, labels) ==
  LET hs == EntryHeaders(E, l) IN
  \/ \E i \in l : At(c, i).kind = "Branch" /\ ~(At(c, i).targets \subseteq DOMAIN labels)
  \/ \E i \in l : IndirectExit(E, l, i) /\ ~IsLabel(At(c, i+1))
  \/ \E h \in hs : ~IsLabel(At(c, h))

\* The copy of loop l with suffix sfx, members in ascending order: labels
\* renamed, each branch target t replaced by the set tgt[t], and every
\* indirect exit i followed by exit[i].
CopyLoop(c, l, E, id, sfx, tgt, exit) ==
  LET s == SortedSeq(l)
      Part(i) ==
        LET ins == At(c, i) IN
        <<Transformed(ins, TransformLabel(NameOf(ins), id, sfx),
                      UNION {tgt[t] : t \in TargetsOf(ins)})>>
          \o (IF IndirectExit(E, l, i) THEN <<exit[i]>> ELSE <<>>)
  IN FlattenSeq([k \in 1..Len(s) |-> Part(s[k])])

Exits(E, l) == {i \in l : IndirectExit(E, l, i)}

\* where a branch target t of a forced-copy instruction goes
ForcedTarget(t, id, l, hs, labels) ==
  IF labels[t] \in hs THEN {TransformLabel(t, id, FinalSuffix)}
  ELSE IF labels[t] \in l THEN {TransformLabel(t, id, ForcedSuffix)}
  ELSE {}

\* Faulty variants of ForcedCopy, each a plausible slip in loops.rs 264-285;
\* the properties of MCGenerate must tell each from the code:
\*   the exit blocker written as a conditional assumption,
\*   the exit blocker left out,
\*   a branch to a header kept inside the forced copy.
ForcedCopyFalseBlocker(c, l, id, E, labels) ==
  CopyLoop(c, l, E, id, ForcedSuffix,
           [t \in DOMAIN labels |-> ForcedTarget(t, id, l, EntryHeaders(E, l), labels)],
           [i \in Exits(E, l) |-> BranchI({}, "false", At(c, i+1).org)])

ForcedCopyNoBlocker(c, l, id, E, labels) ==
  LET s == SortedSeq(l)
      tgt == [t \in DOMAIN labels |-> ForcedTarget(t, id, l, EntryHeaders(E, l), labels)]
      Copy(ins) == Transformed(ins, TransformLabel(NameOf(ins), id, ForcedSuffix),
                               UNION {tgt[t] : t \in TargetsOf(ins)})
  IN [k \in 1..Len(s) |-> Copy(At(c, s[k]))]

ForcedCopyHeaderForced(c, l, id, E, labels) ==
  CopyLoop(c, l, E, id, ForcedSuffix,
           [t \in DOMAIN labels |-> IF labels[t] \in l THEN {TransformLabel(t, id, ForcedSuffix)}
                                    ELSE {}],
           [i \in Exits(E, l) |-> BranchI({}, TrueCond, At(c, i+1).org)])

\* first step: headers go to the final copy, members stay forced, exits blocked
ForcedCopy(c, l, id, E, labels) ==
  CopyLoop(c, l, E, id, ForcedSuffix,
           [t \in DOMAIN labels |-> ForcedTarget(t, id, l, EntryHeaders(E, l), labels)],
           [i \in Exits(E, l) |-> BranchI({}, TrueCond, At(c, i+1).org)])

\* where a branch target t of a final-copy instruction goes
FinalTarget(t, id, l, hs, labels) ==
  IF labels[t] \in hs THEN {}
  ELSE IF labels[t] \in l THEN {TransformLabel(t, id, FinalSuffix)}
  ELSE {t}

\* faulty variant: the final copy blocks its fallthrough exits, as the
\* forced copy does
FinalCopyBlockExits(c, l, id, E, labels) ==
  CopyLoop(c, l, E, id, FinalSuffix,
           [t \in DOMAIN labels |-> FinalTarget(t, id, l, EntryHeaders(E, l), labels)],
           [i \in Exits(E, l) |-> BranchI({}, TrueCond, At(c, i+1).org)])

\* second step: back edges dropped, members stay final, exits kept
FinalCopy(c, l, id, E, labels) ==
  CopyLoop(c, l, E, id, FinalSuffix,
           [t \in DOMAIN labels |-> FinalTarget(t, id, l, EntryHeaders(E, l), labels)],
           [i \in Exits(E, l) |-> BranchI({At(c, i+1).name}, TrueCond, At(c, i+1).org)])

\* third step: for each header h and each edge j -> h of the graph, the
\* targets of code[j] naming h become the forced copy's label, and also the
\* final copy's when j lies outside the loop (back branches are not kept)
RepairEntries(c, l, id, E) ==
  LET hs == EntryHeaders(E, l)
      Repl(j, t) ==
        IF \E h \in hs : <<j, h>> \in E /\ At(c, h).name = t
        THEN {TransformLabel(t, id, ForcedSuffix)}
               \cup (IF j \notin l THEN {TransformLabel(t, id, FinalSuffix)} ELSE {})
        ELSE {t}
  IN [p \in DOMAIN c |->
        IF p-1 \in Pred(E, hs)
        THEN Transformed(c[p], NameOf(c[p]), UNION {Repl(p-1, t) : t \in TargetsOf(c[p])})
        ELSE c[p]]

DuplicateLoop(c, l, id, E, labels) ==
  RepairEntries(c \o ForcedCopy(c, l, id, E, labels) \o FinalCopy(c, l, id, E, labels),
                l, id, E)
=============================================================================
