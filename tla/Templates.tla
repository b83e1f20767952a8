----------------------------- MODULE Templates -----------------------------
(***************************************************************************)
(* The template stage of vatomic/verify: main (main.rs) in directory mode  *)
(* keeps the lowered functions whose name the functions file lists and     *)
(* calls generate_boogie_file (lib.rs) on each. That function classifies   *)
(* the function by its name, picks the templates of the class, decodes     *)
(* from the name the rmw operator, the await condition, the memory         *)
(* orderings and the atomic type, and writes one file per template with    *)
(* the assumptions that template needs.                                    *)
(*                                                                         *)
(* Names are strings and the regexes of lib.rs are operators on them with  *)
(* the regex crate's leftmost-first semantics. The text a file is built    *)
(* from is abstracted to what the assumptions say: a set of <<variable,    *)
(* value>> pairs, and the two valid_mask bit vectors. A u64 is a function  *)
(* from bit positions 0..63 to {0, 1}, so that wrapping arithmetic keeps   *)
(* its width. The emitted body (boogie_to_string, unroll) is the core's    *)
(* and is left out here.                                                   *)
(***************************************************************************)
EXTENDS Integers, Sequences, FiniteSetsExt, Functions, TLC, U64

CONSTANTS
  Parsed,      \* the possible outputs of parse_functions: sequences of names
  Wanted,      \* the names read_function_names returns
  ArchWidth    \* arch.width(): "Wide" or "Thin"

\* s contains t at position k (1-based)
At(s, k, t) == k >= 1 /\ k + Len(t) - 1 <= Len(s) /\ SubSeq(s, k, k + Len(t) - 1) = t

\* str::contains
HasSub(s, t) == \E k \in 1..Len(s) : At(s, k, t)

Char(s, k) == SubSeq(s, k, k)

-----------------------------------------------------------------------------
(* The tables of lib.rs                                                    *)

FENCE_ORDERING ==
  ("" :> "order_fence_sc") @@ ("_acq" :> "order_fence_acq")
    @@ ("_rel" :> "order_fence_rel") @@ ("_rlx" :> "order_rlx")

ORDERING ==
  ("" :> <<"order_acq_sc", "order_rel_sc">>) @@ ("_acq" :> <<"order_acq", "order_rlx">>)
    @@ ("_rel" :> <<"order_rlx", "order_rel">>) @@ ("_rlx" :> <<"order_rlx", "order_rlx">>)

AWAIT_OP == [c \in {"eq", "neq", "lt", "le", "gt", "ge"} |-> c]

RMW_OP ==
  [cmpxchg |-> "cmpset", add |-> "add_op", sub |-> "sub_op", xchg |-> "set_op",
   set |-> "set_op", dec |-> "dec_op", inc |-> "inc_op", min |-> "min_op",
   max |-> "max_op", and |-> "and_op", xor |-> "xor_op", or |-> "or_op"]

ATOMIC_TYPE ==
  ("64" :> "V64") @@ ("sz" :> "VSZ") @@ ("ptr" :> "VPTR") @@ ("32" :> "V32")
    @@ ("16" :> "V16") @@ ("8" :> "V8") @@ ("" :> "VFENCE")

-----------------------------------------------------------------------------
(* The regexes of lib.rs                                                   *)

\* the alternatives of RMW_RE's group "type", in the order they are tried
RmwTypes == <<"add", "sub", "set", "cmpxchg", "min", "max", "xchg", "dec", "inc",
              "and", "xor", "or">>

NoMatch == [found |-> FALSE, getPrefix |-> FALSE, type |-> "", getSuffix |-> FALSE]

\* RMW_RE "(get_)?(type)(_get)?" matched at k: the optional groups are greedy
\* and the first alternative that matches wins
RmwMatchAt(s, k) ==
  LET typesAt(j) == {x \in DOMAIN RmwTypes : At(s, j, RmwTypes[x])}
      withGet    == At(s, k, "get_") /\ typesAt(k + 4) # {}
      start      == IF withGet THEN k + 4 ELSE k
  IN IF typesAt(start) = {} THEN NoMatch
     ELSE LET t == RmwTypes[Min(typesAt(start))] IN
          [found |-> TRUE, getPrefix |-> withGet, type |-> t,
           getSuffix |-> At(s, start + Len(t), "_get")]

\* RMW_RE.captures: the leftmost match
RmwCaptures(s) ==
  LET ks == {k \in 1..Len(s) : RmwMatchAt(s, k).found} IN
  IF ks = {} THEN NoMatch ELSE RmwMatchAt(s, Min(ks))

\* AWAIT_RE "await_([^_]+)": group 1 of the leftmost match, "" if none
AwaitGroup(s) ==
  LET ks == {k \in 1..Len(s) : At(s, k, "await_") /\ k + 6 <= Len(s) /\ Char(s, k + 6) # "_"}
  IN IF ks = {} THEN <<>>
     ELSE LET b == Min(ks) + 6
              e == Max({j \in b..Len(s) : \A x \in b..j : Char(s, x) # "_"})
          IN <<SubSeq(s, b, e)>>

\* ORDERING_RE "(_rlx|_acq|_rel|)$": the suffix, or the empty match at the end
OrderingCapture(s) ==
  IF Len(s) >= 4 /\ SubSeq(s, Len(s) - 3, Len(s)) \in {"_rlx", "_acq", "_rel"}
  THEN SubSeq(s, Len(s) - 3, Len(s)) ELSE ""

\* the alternatives of WIDTH_RE, in the order they are tried
WidthAlts == <<"8", "16", "32", "sz", "ptr", "64">>

\* atomic_types: the leftmost WIDTH_RE match looked up in ATOMIC_TYPE
AtomicTypes(s) ==
  LET ks == {k \in 1..Len(s) : \E x \in DOMAIN WidthAlts : At(s, k, WidthAlts[x])} IN
  IF ks = {} THEN "VFENCE"
  ELSE ATOMIC_TYPE[WidthAlts[Min({x \in DOMAIN WidthAlts : At(s, Min(ks), WidthAlts[x])})]]

-----------------------------------------------------------------------------
(* Classification and templates                                            *)

\* FunctionClass: kind Read, Write, Await, AwaitRmw, Rmw or Fence; ret is the
\* ReturnType of Await and Rmw
Class(kind, ret) == [kind |-> kind, ret |-> ret]

\* classify_function: the substring tests in the code's order
ClassifyFunction(s) ==
  IF HasSub(s, "read") THEN Class("Read", "none")
  ELSE IF HasSub(s, "write") THEN Class("Write", "none")
  ELSE IF HasSub(s, "await")
       THEN IF RmwCaptures(s).found THEN Class("AwaitRmw", "none")
            ELSE Class("Await", IF HasSub(s, "eq") THEN "NoReturn" ELSE "Return")
  ELSE IF HasSub(s, "fence") THEN Class("Fence", "none")
  ELSE Class("Rmw", IF \E t \in {"get", "cmpxchg", "xchg"} : HasSub(s, t)
                    THEN "Return" ELSE "NoReturn")

\* faulty variant: a misspelt template name for Write
GetTemplatesForTypeTypo(c) ==
  CASE c.kind = "Read"  -> <<"read_only.bpl", "read.bpl">>
    [] c.kind = "Write" -> <<"write.bpl", "must-store.bpl">>
    [] c.kind = "Await" /\ c.ret = "NoReturn" -> <<"await.bpl">>
    [] c.kind = "Await" -> <<"read_only.bpl", "read.bpl", "await.bpl">>
    [] c.kind = "Rmw" /\ c.ret = "NoReturn" -> <<"write.bpl", "rmw.bpl">>
    [] c.kind = "Rmw" -> <<"read.bpl", "write.bpl", "rmw.bpl">>
    [] c.kind = "AwaitRmw" -> <<"read.bpl", "write.bpl", "rmw.bpl", "await.bpl">>
    [] c.kind = "Fence" -> <<"fence.bpl">>

\* get_templates_for_type
GetTemplatesForType(c) ==
  CASE c.kind = "Read"  -> <<"read_only.bpl", "read.bpl">>
    [] c.kind = "Write" -> <<"write.bpl", "must_store.bpl">>
    [] c.kind = "Await" /\ c.ret = "NoReturn" -> <<"await.bpl">>
    [] c.kind = "Await" -> <<"read_only.bpl", "read.bpl", "await.bpl">>
    [] c.kind = "Rmw" /\ c.ret = "NoReturn" -> <<"write.bpl", "rmw.bpl">>
    [] c.kind = "Rmw" -> <<"read.bpl", "write.bpl", "rmw.bpl">>
    [] c.kind = "AwaitRmw" -> <<"read.bpl", "write.bpl", "rmw.bpl", "await.bpl">>
    [] c.kind = "Fence" -> <<"fence.bpl">>

\* wide_arch_widths and thin_arch_widths, selected by type_width
TypeWidth(t, aw) ==
  CASE t = "V8"  -> 1
    [] t = "V16" -> 2
    [] t = "V32" -> 4
    [] aw = "Thin" /\ t \in {"VSZ", "VPTR"} -> 4
    [] OTHER -> 8

\* get_assumptions: what the template assumes, as <<variable, value>> pairs
GetAssumptions(t, lo, so, op, ret, cond) ==
  CASE t = "fence.bpl" -> {<<"fence_order", lo>>}
    [] t = "read.bpl"  -> {<<"load_order", lo>>, <<"ret", ret>>}
    [] t = "write.bpl" -> {<<"store_order", so>>}
    [] t = "await.bpl" -> {<<"cond", cond>>}
    [] t = "rmw.bpl"   -> {<<"op", op>>}
    [] OTHER -> {}

-----------------------------------------------------------------------------
(* The masks of generate_boogie_file (u64 arithmetic in U64)               *)

\* pointer_size and register_size: 2^(8 * width) - 1 in u64
SizeMask(bytes) == U64Dec(U64Pow2(8 * bytes))

-----------------------------------------------------------------------------
(* The parameters generate_boogie_file decodes from the name               *)

\* faulty variant: read_ret taken from the "get_" group instead of "_get"
ReadRetPrefix(m) ==
  IF m.found /\ m.type \in DOMAIN RMW_OP /\ m.getPrefix THEN RMW_OP[m.type] ELSE "ret_old"

\* read_ret: the rmw operator when the name ends its rmw with "_get"
ReadRet(m) ==
  IF m.found /\ m.type \in DOMAIN RMW_OP /\ m.getSuffix THEN RMW_OP[m.type] ELSE "ret_old"

\* rmw_op, taken through a lambda with swapped arguments for AwaitRmw
RmwOp(m, c) ==
  LET op == IF m.found /\ m.type \in DOMAIN RMW_OP THEN RMW_OP[m.type] ELSE "" IN
  IF m.found /\ c.kind = "AwaitRmw"
  THEN "(lambda x, y1, y2: bv64 :: " \o op \o "[x, y2, y1])" ELSE op

\* await_cond
AwaitCond(s) ==
  LET g == AwaitGroup(s) IN
  IF g # <<>> /\ g[1] \in DOMAIN AWAIT_OP THEN AWAIT_OP[g[1]] ELSE ""

\* (load_order, store_order)
Orders(s, c) ==
  IF c.kind = "Fence" THEN <<FENCE_ORDERING[OrderingCapture(s)], "">>
  ELSE ORDERING[OrderingCapture(s)]

\* the bit8[...] / bit16[...] narrowing of the sub-word types
Narrow(at, x) ==
  CASE at = "V8"  -> "bit8[" \o x \o "]"
    [] at = "V16" -> "bit16[" \o x \o "]"
    [] OTHER -> x

\* everything generate_boogie_file computes before its template loop
Params(s, aw) ==
  LET c  == ClassifyFunction(s)
      m  == RmwCaptures(s)
      at == AtomicTypes(s)
  IN [class     |-> c,
      templates |-> GetTemplatesForType(c) \o <<"registers.bpl">>,
      atomic    |-> at,
      rmwOp     |-> Narrow(at, RmwOp(m, c)),
      readRet   |-> Narrow(at, ReadRet(m)),
      cond      |-> Narrow(at, AwaitCond(s)),
      lo        |-> Orders(s, c)[1],
      so        |-> Orders(s, c)[2],
      ptrMask   |-> SizeMask(TypeWidth("VPTR", aw)),
      valMask   |-> SizeMask(TypeWidth(at, aw))]

\* one generated file: its assumptions and the masks of its valid_mask lines
\* (address: pointer_size; input1, input2 and #value_mask: register_size)
FileOf(p, t) ==
  [assume  |-> GetAssumptions(t, p.lo, p.so, p.rmwOp, p.readRet, p.cond),
   ptrMask |-> p.ptrMask,
   valMask |-> p.valMask]

-----------------------------------------------------------------------------
(* main in directory mode, with generate_boogie_file on every function     *)

VARIABLES
  parsed,     \* the functions parse_functions returned, by name
  functions,  \* boogie_functions: those name_re matches
  fi,         \* the function generate_boogie_file works on
  params,     \* what it has computed before the template loop
  todo,       \* the templates the loop has still to write
  files,      \* the output directory: function name -> [template -> file]
  phase       \* "start" (next function), "templates" (in the loop), "done"

vars == <<parsed, functions, fi, params, todo, files, phase>>

\* name_re = ^(n1|n2|...)$ over the function names, which have no regex
\* metacharacters: a match is membership in the list
IsWanted(n) == n \in Wanted

NoParams == [class |-> Class("none", "none"), templates |-> <<>>]

Init ==
  /\ parsed \in Parsed
  /\ functions = SelectSeq(parsed, IsWanted)
  /\ fi = 1
  /\ params = NoParams
  /\ todo = <<>>
  /\ files = [n \in {} |-> [t \in {} |-> ""]]
  /\ phase = IF functions = <<>> THEN "done" ELSE "start"

\* generate_boogie_file up to its template loop: classify, decode the name,
\* create the function's directory
StartFunction ==
  /\ phase = "start"
  /\ LET n == functions[fi] IN
     /\ params' = Params(n, ArchWidth)
     /\ todo' = params'.templates
     /\ files' = IF n \in DOMAIN files THEN files
                 ELSE files @@ (n :> [t \in {} |-> ""])
  /\ phase' = "templates"
  /\ UNCHANGED <<parsed, functions, fi>>

\* one iteration of `for template in templates`: fs::write replaces the file
WriteTemplate ==
  /\ phase = "templates"
  /\ todo # <<>>
  /\ LET n == functions[fi]
         t == Head(todo)
     IN files' = [files EXCEPT ![n] = [x \in DOMAIN @ \cup {t} |->
                                         IF x = t THEN FileOf(params, t) ELSE @[x]]]
  /\ todo' = Tail(todo)
  /\ UNCHANGED <<parsed, functions, fi, params, phase>>

\* generate_boogie_file returns; main's loop goes on with the next function
FinishFunction ==
  /\ phase = "templates"
  /\ todo = <<>>
  /\ fi' = fi + 1
  /\ phase' = IF fi = Len(functions) THEN "done" ELSE "start"
  /\ UNCHANGED <<parsed, functions, params, todo, files>>

Next ==
  \/ StartFunction
  \/ WriteTemplate
  \/ FinishFunction

Spec == Init /\ [][Next]_vars
====
