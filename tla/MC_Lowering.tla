---------------------------- MODULE MC_Lowering ----------------------------
(***************************************************************************)
(* Instances of Lowering: bodies of one or two instructions whose operands *)
(* are named values, constants, undef, or constant expressions (a binary   *)
(* operator, ptrtoint or GEP of constants), the forms expr() accepts.     *)
(* LLVM types: i1, i64, ptr, double.                                       *)
(***************************************************************************)
EXTENDS Lowering, TLC

(* The prelude signatures of the functions the lowering applies (spec     *)
(* sections 4.2 and 4.4): integer, Boolean and float domains.             *)
II == [args |-> <<"int", "int">>, res |-> "int"]
IB == [args |-> <<"int", "int">>, res |-> "bool"]
FF == [args |-> <<"float", "float">>, res |-> "float"]
FB == [args |-> <<"float", "float">>, res |-> "bool"]
Un(a, r) == [args |-> <<a>>, res |-> r]

MCSignatures ==
  [f \in {"$add", "$and", "$xor", "$trunc"} |-> II]
  @@ [f \in {"$slt", "$ult"} |-> IB]
  @@ [f \in {"$fadd"} |-> FF]
  @@ [f \in {"$foeq", "$funo"} |-> FB]
  @@ ("$i2b" :> Un("int", "bool")) @@ ("$b2i" :> Un("bool", "int"))
  @@ ("$b2p" :> Un("bool", "int")) @@ ("$fp" :> Un("int", "float"))
  @@ ("$fp2ui" :> Un("float", "int")) @@ ("$fp2si" :> Un("float", "int"))
  @@ ("$ui2fp" :> Un("int", "float")) @@ ("$si2fp" :> Un("int", "float"))
  @@ ("$p2i" :> Un("int", "int")) @@ ("$i2p" :> Un("int", "int"))
  @@ ("$pa" :> [args |-> <<"int", "int", "int">>, res |-> "int"])

(* The other functions of the module: an external g, a defined h, the     *)
(* variadic printf, malloc, a SMACK name, a variadic log whose fixed      *)
(* parameter is a double, and a defined variadic sum.                      *)
Fun(d, v, sm, ps, r) == [defined |-> d, vararg |-> v, smack |-> sm, params |-> ps, ret |-> r]

MCFunctions ==
  ("g" :> Fun(FALSE, FALSE, FALSE, <<"i64", "double">>, "i64"))
  @@ ("h" :> Fun(TRUE, FALSE, FALSE, <<"ptr">>, "void"))
  @@ ("printf" :> Fun(FALSE, TRUE, FALSE, <<"ptr">>, "i64"))
  @@ ("malloc" :> Fun(FALSE, FALSE, FALSE, <<"i64">>, "ptr"))
  @@ ("__SMACK_assume" :> Fun(FALSE, FALSE, TRUE, <<"i1">>, "void"))
  @@ ("log" :> Fun(FALSE, TRUE, FALSE, <<"double">>, "void"))
  @@ ("sum" :> Fun(TRUE, TRUE, FALSE, <<"i64">>, "i64"))

(* The prelude's procedures: $malloc and the SMACK primitives.             *)
PreludeProc(n, ps, rs) == [kind |-> "proc", name |-> n, params |-> ps, rets |-> rs, body |-> TRUE]

MCPrelude ==
  (<<"$malloc">> :> PreludeProc(<<"$malloc">>, <<"int">>, <<"int">>))
  @@ (<<"__SMACK_assume">> :> PreludeProc(<<"__SMACK_assume">>, <<"bool">>, <<>>))

(* The leaves of each type.                                                *)
Named(t) == [k |-> "arg", ty |-> t]
Undef(t) == [k |-> "undef", ty |-> t]
Leaf(t) ==
  CASE t = "i1"     -> {Named(t), [k |-> "cint", ty |-> t]}
    [] t = "i64"    -> {Named(t), [k |-> "cint", ty |-> t], Undef(t)}
    [] t = "ptr"    -> {Named(t), [k |-> "null", ty |-> t], Undef(t)}
    [] t = "double" -> {Named(t), [k |-> "cfp", ty |-> t]}

Bin(o, t, a, b)   == [k |-> "bin", op |-> o, ty |-> t, l |-> a, r |-> b]
CastOf(c, t, a)   == [k |-> "cast", c |-> c, ty |-> t, v |-> a]
ICmp(p, a, b)     == [k |-> "icmp", p |-> p, ty |-> "i1", l |-> a, r |-> b]
FCmp(p, a, b)     == [k |-> "fcmp", p |-> p, ty |-> "i1", l |-> a, r |-> b]

(* Constant-expression operands: a ptrtoint of null, an add of constants.  *)
ConstExprs ==
  {CastOf("ptrtoint", "i64", [k |-> "null", ty |-> "ptr"]),
   Bin("add", "i64", [k |-> "cint", ty |-> "i64"], Undef("i64"))}

Operand(t) == Leaf(t) \cup {c \in ConstExprs : c.ty = t}

(* A field of a struct, then an element at an undefined index.             *)
Gep == [k |-> "gep", ty |-> "ptr", base |-> Named("ptr"),
        steps |-> <<[struct |-> TRUE], [struct |-> FALSE, idx |-> Undef("i64")]>>]

Call(f, as) == [k |-> "call", f |-> f, args |-> as]

(* Calls, copies and fills the code lowers with the right types: g and h  *)
(* direct, printf with one and two arguments (a double among them),       *)
(* malloc, a SMACK primitive; memcpy and memset over regions 0 and 1.     *)
Calls ==
  {Call("g", <<Named("i64"), [k |-> "cfp", ty |-> "double"]>>),
   Call("g", <<Undef("i64"), Named("double")>>),
   Call("h", <<Named("ptr")>>), Call("h", <<Gep>>),
   Call("printf", <<Named("ptr")>>),
   Call("printf", <<Named("ptr"), Named("i64")>>),
   Call("printf", <<Named("ptr"), [k |-> "cfp", ty |-> "double"]>>),
   Call("malloc", <<Named("i64")>>),
   Call("__SMACK_assume", <<Named("i1")>>)}
  \cup {[k |-> "memcpy", dst |-> d, src |-> r,
         args |-> <<Named("ptr"), Named("ptr"), Named("i64"), [k |-> "cint", ty |-> "i64"],
                   [k |-> "cint", ty |-> "i1"]>>] : d, r \in {0, 1}}
  \cup {[k |-> "memset", dst |-> d,
         args |-> <<Named("ptr"), Undef("i64"), Named("i64"), [k |-> "cint", ty |-> "i64"],
                   [k |-> "cint", ty |-> "i1"]>>] : d \in {0, 1}}

(* Right-hand sides whose lowering the code types correctly.              *)
Supported ==
  UNION {{Bin(o, t, a, b) : a \in Operand(t), b \in Operand(t)} :
           <<o, t>> \in {<<"add", "i64">>, <<"and", "i1">>, <<"xor", "i1">>, <<"fadd", "double">>}}
  \cup {ICmp(p, a, b) : p \in {"eq", "slt"}, a \in Operand("i64"), b \in Operand("i64")}
  \cup {ICmp("ne", a, b) : a \in Operand("i1"), b \in Operand("i1")}
  \cup {FCmp("foeq", a, b) : a \in Operand("double"), b \in Leaf("double")}
  \cup {CastOf("trunc", "i1", a) : a \in Operand("i64")}
  \cup {CastOf(c, "i64", a) : c \in {"zext", "sext"}, a \in Operand("i1") \cup Operand("i64")}
  \cup {CastOf("fptosi", "i64", a) : a \in Leaf("double")}
  \cup {CastOf("sitofp", "double", a) : a \in Operand("i64")}
  \cup {CastOf("inttoptr", "ptr", a) : a \in Operand("i64")}
  \cup {Gep}

(* Right-hand sides the code has no bridging for: a Boolean converted to  *)
(* double or compared by order (clang's (double)b and b1 < b2), an undef  *)
(* Boolean operand, an i64 reinterpreted as a double, and a double passed  *)
(* to the fixed double parameter of a variadic function.                   *)
Unbridged ==
  {CastOf("uitofp", "double", a) : a \in Leaf("i1")}
  \cup {ICmp("ult", a, b) : a \in Leaf("i1"), b \in Leaf("i1")}
  \cup {Bin("and", "i1", Undef("i1"), Named("i1"))}
  \cup {CastOf("bitcast", "double", Named("i64"))}
  \cup {Call("log", <<Named("double")>>)}

OneOrTwo(S) == {<<a>> : a \in S} \cup {<<a, b>> : a, b \in S}

MCBodies == OneOrTwo(Supported) \cup OneOrTwo(Calls \cup {Gep})

(* A call of the defined variadic sum, alone or after a direct call of h. *)
MCVarargBodies ==
  {<<Call("sum", <<Named("i64")>>)>>, <<Call("sum", <<Named("i64"), Named("i64")>>)>>,
   <<Call("h", <<Named("ptr")>>), Call("sum", <<Named("i64"), Named("i64")>>)>>}

MCEdgeBodies == {<<e>> : e \in Unbridged}

=============================================================================
