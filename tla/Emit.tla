-------------------------------- MODULE Emit --------------------------------
(***************************************************************************)
(* boogie_to_string (verify/src/generate.rs): one Boogie statement per     *)
(* instruction. The text is abstracted to the statement's kind, its label  *)
(* or goto targets, and whether the three loop-header assertions follow a  *)
(* label; org is carried over from the instruction.                        *)
(* BSucc gives the control flow Boogie assigns to the emitted statements.  *)
(***************************************************************************)
EXTENDS BoogieCode

Stmt(k, n, a, ts, o) == [kind |-> k, name |-> n, asserts |-> a, targets |-> ts, org |-> o]

\* unreachable!() when a loop header is not a Label
EmitPanic(c) == \E i \in LoopHeaders(c) : ~IsLabel(At(c, i))

HeaderNames(c) == {At(c, i).name : i \in LoopHeaders(c)}

EmitOne(ins, hdrs) ==
  CASE ins.kind = "Label" ->
         Stmt("label", ins.name, ins.name \in hdrs, {}, ins.org)
    [] ins.kind = "Instr" ->
         Stmt(IF ins.effect = "Global" THEN "execute" ELSE "execute_local",
              "", FALSE, {}, ins.org)
    [] ins.kind = "Branch" /\ ins.cond = TrueCond ->
         IF ins.targets = {} THEN Stmt("assume_false_return", "", FALSE, {}, ins.org)
         ELSE Stmt("goto", "", FALSE, ins.targets, ins.org)
    [] ins.kind = "Branch" ->
         IF ins.targets = {} THEN Stmt("assume_not", "", FALSE, {}, ins.org)
         ELSE Stmt("if_goto", "", FALSE, ins.targets, ins.org)
    [] ins.kind = "Return" -> Stmt("return", "", FALSE, {}, ins.org)
    [] OTHER -> Stmt("comment", "", FALSE, {}, ins.org)

BoogieToString(c) ==
  LET hdrs == HeaderNames(c) IN [p \in DOMAIN c |-> EmitOne(c[p], hdrs)]

-----------------------------------------------------------------------------
(* Boogie's reading of the emitted body: goto resolves a label by name;    *)
(* running past the last statement returns from the procedure.            *)
BLabel(s, t) == CHOOSE p \in 0..Len(s)-1 : s[p+1].kind = "label" /\ s[p+1].name = t

BSucc(s, p) ==
  IF p = Len(s) THEN {}
  ELSE LET st == s[p+1] IN
       CASE st.kind \in {"goto", "if_goto"} ->
              {BLabel(s, t) : t \in st.targets}
                \cup (IF st.kind = "if_goto" THEN {p+1} ELSE {})
         [] st.kind \in {"return", "assume_false_return"} -> {}
         [] OTHER -> {p+1}

BEdges(s) == UNION {{<<p, q>> : q \in BSucc(s, p)} : p \in 0..Len(s)}
=============================================================================
