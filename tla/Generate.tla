------------------------------ MODULE Generate ------------------------------
(***************************************************************************)
(* The core of generate_boogie_file (vatomic/verify/src/lib.rs 243-245):   *)
(* the function body is unrolled when the -u flag is given (unroll() in    *)
(* verify/src/loops.rs) and emitted by boogie_to_string. Each pass of      *)
(* unroll and each iteration of duplicate_loops is one step; a panic of    *)
(* the code ends the run in phase "panic". The emitted procedure is then   *)
(* executed the way Boogie reads it (BoogieStep), so that properties can   *)
(* speak about the paths the verifier will explore.                        *)
(***************************************************************************)
EXTENDS Unroll, Emit

CONSTANT Programs   \* input instruction sequences, as the lowering produces them

VARIABLES
  input,       \* function.instructions
  unrollLoop,  \* the -u command-line flag
  code,        \* changed_code: the sequence under transformation
  phase,       \* which call of the pipeline runs next
  todo,        \* duplicate_loops: loops not yet duplicated, in iteration order
  graph,       \* duplicate_loops: cfg of the code before the first iteration
  labels,      \* duplicate_loops: all_labels of the code before the first iteration
  loopId,      \* duplicate_loops: loop_id of the next iteration
  duplicated,  \* positions of the loops duplicate_loops iterated over (auxiliary)
  forced,      \* per duplicated loop: positions of its forced copy and of the
               \* copies of its headers in it (auxiliary)
  stmts,       \* the emitted Boogie body
  bpc          \* position of the Boogie execution in stmts

vars == <<input, unrollLoop, code, phase, todo, graph, labels, loopId,
          duplicated, forced, stmts, bpc>>

Phases == {"backedges", "exitlabels", "duplicate", "dupLoop", "emit", "run", "panic"}

(***************************************************************************)
(* tarjan_scc lists components in postorder: a loop comes before every     *)
(* loop that can reach it. The order of loops that cannot reach each other *)
(* depends on petgraph's DFS and is left open; it only affects loop_id.    *)
(***************************************************************************)
TarjanOrders(c) ==
  LET E == Cfg(c) IN
  {s \in SetToSeqs(CollectLoops(c)) :
     \A i, j \in DOMAIN s : i < j => Reach(E, s[i]) \cap s[j] = {}}

\* where the forced copy of loop l lands: the positions of the copy and of
\* the copies of l's entry headers in it
ForcedLayout(c, l, id, E, lbls) ==
  LET fc    == ForcedCopy(c, l, id, E, lbls)
      hdrs  == {TransformLabel(At(c, h).name, id, ForcedSuffix) : h \in EntryHeaders(E, l)}
  IN [body  |-> {Len(c) + k - 1 : k \in DOMAIN fc},
      heads |-> {Len(c) + k - 1 : k \in {k \in DOMAIN fc : IsLabel(fc[k]) /\ fc[k].name \in hdrs}}]

Init ==
  /\ input \in Programs
  /\ unrollLoop \in BOOLEAN
  /\ code = input
  /\ phase = IF unrollLoop THEN "backedges" ELSE "emit"
  /\ todo = <<>>
  /\ graph = {}
  /\ labels = [l \in {} |-> 0]
  /\ loopId = 0
  /\ duplicated = {}
  /\ forced = {}
  /\ stmts = <<>>
  /\ bpc = 0

Panic ==
  /\ phase' = "panic"
  /\ UNCHANGED <<input, unrollLoop, code, todo, graph, labels, loopId,
                 duplicated, forced, stmts, bpc>>

\* unroll: insert_loop_fallthrough_back_edges(&mut changed_code)
InsertBackEdges ==
  /\ phase = "backedges"
  /\ IF MissingLabel(code) \/ BackEdgePanic(code) THEN Panic
     ELSE /\ code' = InsertLoopFallthroughBackEdges(code)
          /\ phase' = "exitlabels"
          /\ UNCHANGED <<input, unrollLoop, todo, graph, labels, loopId,
                         duplicated, forced, stmts, bpc>>

\* unroll: insert_loop_exit_labels(&mut changed_code)
InsertExitLabels ==
  /\ phase = "exitlabels"
  /\ IF MissingLabel(code) THEN Panic
     ELSE /\ code' = InsertLoopExitLabels(code, Len(input))
          /\ phase' = "duplicate"
          /\ UNCHANGED <<input, unrollLoop, todo, graph, labels, loopId,
                         duplicated, forced, stmts, bpc>>

\* duplicate_loops: collect_loops, cfg and all_labels before the loop
StartDuplicate ==
  /\ phase = "duplicate"
  /\ IF MissingLabel(code) THEN Panic
     ELSE /\ todo' \in TarjanOrders(code)
          /\ graph' = Cfg(code)
          /\ labels' = AllLabels(code)
          /\ loopId' = 0
          /\ duplicated' = UNION CollectLoops(code)
          /\ phase' = "dupLoop"
          /\ UNCHANGED <<input, unrollLoop, code, forced, stmts, bpc>>

\* duplicate_loops: one iteration of `for (loop_id, the_loop) in loops`
DuplicateNext ==
  /\ phase = "dupLoop"
  /\ todo # <<>>
  /\ IF DuplicatePanic(code, Head(todo), graph, labels) THEN Panic
     ELSE /\ code' = DuplicateLoop(code, Head(todo), loopId, graph, labels)
          /\ forced' = forced \cup {ForcedLayout(code, Head(todo), loopId, graph, labels)}
          /\ todo' = Tail(todo)
          /\ loopId' = loopId + 1
          /\ UNCHANGED <<input, unrollLoop, phase, graph, labels, duplicated,
                         stmts, bpc>>

\* duplicate_loops and unroll return
UnrollDone ==
  /\ phase = "dupLoop"
  /\ todo = <<>>
  /\ phase' = "emit"
  /\ UNCHANGED <<input, unrollLoop, code, todo, graph, labels, loopId,
                 duplicated, forced, stmts, bpc>>

\* boogie_to_string(&instructions)
EmitCode ==
  /\ phase = "emit"
  /\ IF MissingLabel(code) \/ EmitPanic(code) THEN Panic
     ELSE /\ stmts' = BoogieToString(code)
          /\ bpc' = 0
          /\ phase' = "run"
          /\ UNCHANGED <<input, unrollLoop, code, todo, graph, labels, loopId,
                         duplicated, forced>>

\* one statement of the emitted procedure, as Boogie executes it
BoogieStep ==
  /\ phase = "run"
  /\ bpc' \in BSucc(stmts, bpc)
  /\ UNCHANGED <<input, unrollLoop, code, phase, todo, graph, labels, loopId,
                 duplicated, forced, stmts>>

Next ==
  \/ InsertBackEdges
  \/ InsertExitLabels
  \/ StartDuplicate
  \/ DuplicateNext
  \/ UnrollDone
  \/ EmitCode
  \/ BoogieStep

Spec == Init /\ [][Next]_vars
=============================================================================
