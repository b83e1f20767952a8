--------------------------- MODULE MCTemplates ----------------------------
(***************************************************************************)
(* Model-checking instance of Templates. The functions are the vatomic API *)
(* as its names are formed: vatomic<W>_<op><ord> for the widths 8, 16, 32, *)
(* 64, sz and ptr (ptr only has read, write, xchg, cmpxchg and await on    *)
(* eq/neq), and vatomic_fence<ord>. A name is rendered from a record of    *)
(* its parts; what each generated file must assume is stated from those    *)
(* parts and the meaning of the memory orders, independently of the        *)
(* regexes and tables of lib.rs.                                           *)
(***************************************************************************)
EXTENDS Templates

Widths   == {"8", "16", "32", "64", "sz", "ptr"}
ArithOps == {"add", "sub", "and", "or", "xor", "min", "max", "inc", "dec"}
AwaitOps == {"add", "sub", "set"}
Conds    == {"eq", "neq", "lt", "le", "gt", "ge"}
AllOrds  == {"", "_acq", "_rel", "_rlx"}

Api(w, kind, op, cond, ord) == [w |-> w, kind |-> kind, op |-> op, cond |-> cond, ord |-> ord]

API ==
  {Api(w, "read", "", "", o) : w \in Widths, o \in {"", "_acq", "_rlx"}}
  \cup {Api(w, "write", "", "", o) : w \in Widths, o \in {"", "_rel", "_rlx"}}
  \cup {Api(w, k, "", "", o) : w \in Widths, k \in {"xchg", "cmpxchg"}, o \in AllOrds}
  \cup {Api(w, k, op, "", o) : w \in Widths \ {"ptr"}, k \in {"get_op", "op_get", "op"},
                               op \in ArithOps, o \in AllOrds}
  \cup {Api(w, "await", "", c, o) : w \in Widths \ {"ptr"}, c \in Conds, o \in AllOrds}
  \cup {Api("ptr", "await", "", c, o) : c \in {"eq", "neq"}, o \in AllOrds}
  \cup {Api(w, "await_op", op, c, o) : w \in Widths \ {"ptr"}, op \in AwaitOps,
                                       c \in Conds, o \in AllOrds}
  \cup {Api("", "fence", "", "", o) : o \in AllOrds}

OpText(r) ==
  CASE r.kind = "get_op"   -> "get_" \o r.op
    [] r.kind = "op_get"   -> r.op \o "_get"
    [] r.kind = "op"       -> r.op
    [] r.kind = "await"    -> "await_" \o r.cond
    [] r.kind = "await_op" -> "await_" \o r.cond \o "_" \o r.op
    [] OTHER -> r.kind

Render(r) ==
  IF r.kind = "fence" THEN "vatomic_fence" \o r.ord
  ELSE "vatomic" \o r.w \o "_" \o OpText(r) \o r.ord

ApiOf == [n \in {Render(r) : r \in API} |-> CHOOSE r \in API : Render(r) = n]

\* a listing's functions: each API function alone, and two listings that
\* also hold functions the functions file does not name
MCParsed ==
  {<<Render(r)>> : r \in API}
  \cup {<<"main", "vatomic32_read", "vatomic32_read_impl">>,
        <<"vatomic8_add_get_rel", "vatomic64_await_lt_sub", "vatomic_fence_acq">>}

MCWanted == DOMAIN ApiOf

-----------------------------------------------------------------------------
(* What a name means                                                       *)

\* the load and store order of an operation with the ordering suffix o
LoadOrder(o)  == IF o = "" THEN "order_acq_sc" ELSE IF o = "_acq" THEN "order_acq" ELSE "order_rlx"
StoreOrder(o) == IF o = "" THEN "order_rel_sc" ELSE IF o = "_rel" THEN "order_rel" ELSE "order_rlx"
FenceOrder(o) ==
  CASE o = "" -> "order_fence_sc" [] o = "_acq" -> "order_fence_acq"
    [] o = "_rel" -> "order_fence_rel" [] o = "_rlx" -> "order_rlx"

\* the Boogie operator an rmw applies: xchg stores its argument, cmpxchg
\* stores conditionally, the others are <op>_op
OpOf(r) ==
  CASE r.kind = "xchg" -> "set_op" [] r.kind = "cmpxchg" -> "cmpset"
    [] OTHER -> r.op \o "_op"

Bytes(w) == CASE w = "8" -> 1 [] w = "16" -> 2 [] w = "32" -> 4 [] OTHER -> 8

\* values of a sub-word type are taken to its width
Lift(w, x) ==
  CASE w = "8" -> "bit8[" \o x \o "]" [] w = "16" -> "bit16[" \o x \o "]" [] OTHER -> x

\* the templates of a function: reads are checked by read.bpl (with
\* read_only.bpl when nothing is written), writes by write.bpl (with
\* must_store.bpl for a plain store), modifications by rmw.bpl, waiting by
\* await.bpl; a plain await may or may not check its return value
ExpectedTemplates(r) ==
  {"registers.bpl"} \cup
  CASE r.kind = "read"     -> {"read_only.bpl", "read.bpl"}
    [] r.kind = "write"    -> {"write.bpl", "must_store.bpl"}
    [] r.kind = "op"       -> {"write.bpl", "rmw.bpl"}
    [] r.kind = "await_op" -> {"read.bpl", "write.bpl", "rmw.bpl", "await.bpl"}
    [] r.kind = "fence"    -> {"fence.bpl"}
    [] r.kind = "await"    -> {"await.bpl"}
    [] OTHER               -> {"read.bpl", "write.bpl", "rmw.bpl"}

ExpectedAssume(r, t) ==
  CASE t = "read.bpl"  ->
         {<<"load_order", LoadOrder(r.ord)>>,
          <<"ret", Lift(r.w, IF r.kind = "op_get" THEN OpOf(r) ELSE "ret_old")>>}
    [] t = "write.bpl" -> {<<"store_order", StoreOrder(r.ord)>>}
    [] t = "fence.bpl" -> {<<"fence_order", FenceOrder(r.ord)>>}
    [] t = "await.bpl" -> {<<"cond", Lift(r.w, r.cond)>>}
    [] t = "rmw.bpl"   ->
         {<<"op", Lift(r.w, IF r.kind = "await_op"
                            THEN "(lambda x, y1, y2: bv64 :: " \o OpOf(r) \o "[x, y2, y1])"
                            ELSE OpOf(r))>>}
    [] OTHER -> {}

-----------------------------------------------------------------------------
TemplateFiles == {"read_only.bpl", "read.bpl", "write.bpl", "must_store.bpl",
                  "await.bpl", "rmw.bpl", "fence.bpl", "registers.bpl"}

TypeOK ==
  /\ phase \in {"start", "templates", "done"}
  /\ fi \in 1..Len(functions) + 1
  /\ \A n \in DOMAIN files : DOMAIN files[n] \subseteq TemplateFiles
  /\ \A k \in DOMAIN todo : todo[k] \in TemplateFiles

(***************************************************************************)
(* Every file generate_boogie_file writes for an API function assumes what *)
(* the name means: its load, store or fence order, the rmw operator (a     *)
(* lambda for an await-rmw), the await condition, the value read (the old  *)
(* value, or the new one for <op>_get), each narrowed for 8 and 16 bits;   *)
(* and once main is done each function has the templates of its kind. The *)
(* name is decoded by substring tests in a fixed order and by four regexes *)
(* whose matches overlap: "eq" inside "neq", "xchg" inside "cmpxchg", "or" *)
(* inside "xor", "get" both before and after the operator.                 *)
(***************************************************************************)
DecodedAsNamed ==
  \A n \in DOMAIN files \cap DOMAIN ApiOf :
    LET r == ApiOf[n] IN
    /\ \A t \in DOMAIN files[n] : files[n][t].assume = ExpectedAssume(r, t)
    /\ phase = "done" =>
         \/ DOMAIN files[n] = ExpectedTemplates(r)
         \/ r.kind = "await" /\ DOMAIN files[n] = ExpectedTemplates(r) \cup {"read_only.bpl", "read.bpl"}

(***************************************************************************)
(* The valid_mask assumptions of every file bound the address by the       *)
(* pointer width and the inputs (and #value_mask) by the width of the      *)
(* function's type: 2^(8 * width) - 1 computed in u64, where 64-bit types  *)
(* need 2^64 to wrap to 0 and 0 - 1 to wrap to all ones.                   *)
(***************************************************************************)
ValueMasks ==
  \A n \in DOMAIN files \cap DOMAIN ApiOf : \A t \in DOMAIN files[n] :
    /\ files[n][t].ptrMask = Ones(64)
    /\ files[n][t].valMask = Ones(8 * Bytes(ApiOf[n].w))
====
