------------------------------ MODULE Lowering ------------------------------
(***************************************************************************)
(* The value and call lowering of SmackRep (SmackRep.cpp): expr, lit,     *)
(* op, pred, ptrArith and the casts, with the counters uniqueUndefNum and  *)
(* uniqueFpNum threaded through every call; call, proc and arg for calls,  *)
(* memcpy and memset for the intrinsics, with the procedures they add to   *)
(* the program's declaration set; applied to the instructions of a         *)
(* function body in order, interleaved with the function loop of           *)
(* generateProgram declaring the other functions, and followed by the     *)
(* undefined-value declarations of getPrelude.                             *)
(*                                                                         *)
(* A source value is a record of kind "arg" (a named value), "cint",      *)
(* "cfp", "null", "undef", "bin" (a binary operator), "icmp", "fcmp" or   *)
(* "cast" or "gep", with its LLVM type among "i1", "i64", "ptr" and        *)
(* "double".  An instruction is such a value (the right-hand side of an    *)
(* assignment), a "call" of a function of Functions, a "memcpy" or a       *)
(* "memset" with the regions getRegion gives its pointers.                 *)
(* A target expression is a record of kind "id" (a variable of a Boogie    *)
(* type), "u" (the constant $u.n), "blit", "ilit", "fn" (an application    *)
(* of a prelude function) or "eq" / "neq"; a lowered call is a record of *)
(* kind "call" with the name of the procedure it calls and its arguments.  *)
(* A procedure name is <<f>>, <<f, n>> for indexedName(f, n), or           *)
(* <<"$memcpy", d, s>> and <<"$memset", r>> for the intrinsics.            *)
(***************************************************************************)
EXTENDS Naturals, Sequences

CONSTANTS
  Bodies,     \* the admissible sequences of instruction right-hand sides
  Signatures,  \* the prelude's function signatures: [args : Seq, res]
  Functions,   \* the other functions of the module, by name
  Prelude      \* the prelude's procedures ($malloc, __SMACK_ names): [params, rets]

VARIABLES
  body,            \* the right-hand sides lowered, in instruction order
  ip,              \* the next one
  out,             \* the Boogie expressions produced so far
  uniqueUndefNum,  \* SmackRep::uniqueUndefNum
  uniqueFpNum,     \* SmackRep::uniqueFpNum
  undefDecls,      \* the $u.i getPrelude declares, once rendered
  decls,           \* the procedures of Program::decls
  declared         \* the functions the function loop has handled

lvars == <<body, ip, out, uniqueUndefNum, uniqueFpNum, undefDecls, decls, declared>>

(* SmackRep::isBool and SmackRep::type.                                    *)
IsBool(t) == t = "i1"

BplType(t) == CASE t = "i1" -> "bool" [] t = "double" -> "float" [] OTHER -> "int"

Fn(f, args) == [k |-> "fn", f |-> f, args |-> args]

(* Lowering results carry the counters: <<expression, undef, fp>>.       *)
Res(e, nu, nf) == <<e, nu, nf>>

(* SmackRep::pred: the prelude function of an ordered comparison.        *)
PredFn(p) == "$" \o p

(***************************************************************************)
(* SmackRep::lit (a constant int: a Boolean literal for width 1), the      *)
(* ConstantFP case ($fp of a fresh number) and the null pointer; undef()  *)
(* for an undef value ($u of a fresh number).                              *)
(***************************************************************************)
LowerLeaf(e, nu, nf) ==
  CASE e.k = "arg"   -> Res([k |-> "id", t |-> BplType(e.ty)], nu, nf)
    [] e.k = "cint"  -> IF IsBool(e.ty) THEN Res([k |-> "blit"], nu, nf)
                        ELSE Res([k |-> "ilit"], nu, nf)
    [] e.k = "cfp"   -> Res(Fn("$fp", <<[k |-> "ilit"]>>), nu, nf + 1)
    [] e.k = "null"  -> Res([k |-> "ilit"], nu, nf)
    [] e.k = "undef" -> Res([k |-> "u", n |-> nu], nu + 1, nf)

(* The casts: trunc, zext, sext, fptrunc, fpext, fptoui, fptosi, uitofp,   *)
(* sitofp, ptrtoint, inttoptr and bitcast of an operand lowered to x.      *)
Cast(c, from, to, x) ==
  CASE c = "trunc"    -> IF IsBool(to) THEN Fn("$i2b", <<x>>) ELSE Fn("$trunc", <<x, [k |-> "ilit"]>>)
    [] c \in {"zext", "sext"} -> IF IsBool(from) THEN Fn("$b2p", <<x>>) ELSE x
    [] c \in {"fptrunc", "fpext", "bitcast"} -> x
    [] c = "fptoui"   -> Fn("$fp2ui", <<x>>)
    [] c = "fptosi"   -> Fn("$fp2si", <<x>>)
    [] c = "uitofp"   -> Fn("$ui2fp", <<x>>)
    [] c = "sitofp"   -> Fn("$si2fp", <<x>>)
    [] c = "ptrtoint" -> Fn("$p2i", <<x>>)
    [] c = "inttoptr" -> Fn("$i2p", <<x>>)

(* Mutation: the Boolean result is not converted back.                    *)
BinOpNoI2B(e, l, r) ==
  Fn("$" \o e.op, <<IF IsBool(e.l.ty) THEN Fn("$b2i", <<l>>) ELSE l,
                     IF IsBool(e.r.ty) THEN Fn("$b2i", <<r>>) ELSE r>>)

(* SmackRep::op: a Boolean operand goes through $b2i, a Boolean result    *)
(* through $i2b.                                                           *)
BinOp(e, l, r) ==
  LET b == Fn("$" \o e.op, <<IF IsBool(e.l.ty) THEN Fn("$b2i", <<l>>) ELSE l,
                              IF IsBool(e.r.ty) THEN Fn("$b2i", <<r>>) ELSE r>>)
  IN  IF IsBool(e.ty) THEN Fn("$i2b", <<b>>) ELSE b

(* SmackRep::pred: native equality for eq and ne, a predicate otherwise.  *)
Cmp(e, l, r) ==
  CASE e.k = "icmp" /\ e.p = "eq" -> [k |-> "eq", args |-> <<l, r>>]
    [] e.k = "icmp" /\ e.p = "ne" -> [k |-> "neq", args |-> <<l, r>>]
    [] OTHER                      -> Fn(PredFn(e.p), <<l, r>>)

(***************************************************************************)
(* SmackRep::expr of a source value with the counters nu and nf: the       *)
(* operands are lowered left to right, each with the counters the previous *)
(* one left.  LowerSeq lowers a sequence of values so; PtrArith is         *)
(* ptrArith over the steps of a GEP after its base, a struct step adding   *)
(* pa(e, fieldOffset, 1) and an array step pa(e, lit(index), size).        *)
(***************************************************************************)
RECURSIVE Lower(_, _, _), LowerSeq(_, _, _), PtrArith(_, _, _, _)
Lower(e, nu, nf) ==
  CASE e.k \in {"bin", "icmp", "fcmp"} ->
         LET a == Lower(e.l, nu, nf)
             b == Lower(e.r, a[2], a[3])
         IN  Res(IF e.k = "bin" THEN BinOp(e, a[1], b[1]) ELSE Cmp(e, a[1], b[1]), b[2], b[3])
    [] e.k = "cast" ->
         LET a == Lower(e.v, nu, nf)
         IN  Res(Cast(e.c, e.v.ty, e.ty, a[1]), a[2], a[3])
    [] e.k = "gep" ->
         LET a == Lower(e.base, nu, nf)
         IN  PtrArith(a[1], e.steps, a[2], a[3])
    [] OTHER -> LowerLeaf(e, nu, nf)

LowerSeq(vs, nu, nf) ==
  IF vs = <<>> THEN Res(<<>>, nu, nf)
  ELSE LET a == Lower(Head(vs), nu, nf)
           r == LowerSeq(Tail(vs), a[2], a[3])
       IN  Res(<<a[1]>> \o r[1], r[2], r[3])

PtrArith(x, steps, nu, nf) ==
  IF steps = <<>> THEN Res(x, nu, nf)
  ELSE IF Head(steps).struct
       THEN PtrArith(Fn("$pa", <<x, [k |-> "ilit"], [k |-> "ilit"]>>), Tail(steps), nu, nf)
       ELSE LET i == Lower(Head(steps).idx, nu, nf)
            IN  PtrArith(Fn("$pa", <<x, i[1], [k |-> "ilit"]>>), Tail(steps), i[2], i[3])

(* SmackRep::arg: a floating argument of a variadic callee goes through  *)
(* fp2si.                                                                  *)
Arg(f, v, x) == IF Functions[f].vararg /\ v.ty = "double" THEN Fn("$fp2si", <<x>>) ELSE x

(* Mutation: the procedure of a variadic callee is not indexed by the     *)
(* number of arguments.                                                    *)
ProcUnindexed(f, n) ==
  [kind |-> "proc", name |-> <<f>>,
   params |-> [i \in 1..Len(Functions[f].params) |-> BplType(Functions[f].params[i])]
              \o [i \in 1..n - Len(Functions[f].params) |-> "int"],
   rets |-> IF Functions[f].ret = "void" THEN <<>> ELSE <<BplType(Functions[f].ret)>>,
   body |-> FALSE]

(***************************************************************************)
(* SmackRep::proc(f, nargs): the parameters of f with their types, then    *)
(* p_i of the pointer type up to nargs, the return $r if f returns a       *)
(* value, named indexedName(f, nargs) when f is variadic.                  *)
(***************************************************************************)
Proc(f, n) ==
  [kind |-> "proc", name |-> IF Functions[f].vararg THEN <<f, n>> ELSE <<f>>,
   params |-> [i \in 1..Len(Functions[f].params) |-> BplType(Functions[f].params[i])]
              \o [i \in 1..n - Len(Functions[f].params) |-> "int"],
   rets |-> IF Functions[f].ret = "void" THEN <<>> ELSE <<BplType(Functions[f].ret)>>,
   body |-> FALSE]

(* The procedure the function loop adds for a function with a body.       *)
FunctionProc(f) == [Proc(f, 0) EXCEPT !.body = TRUE]

(* Program::addDecl: std::set insertion under DeclCompare, which keys a   *)
(* named declaration by its kind and name: a second one is dropped.       *)
AddDecl(D, d) == IF \E x \in D : x.kind = d.kind /\ x.name = d.name THEN D ELSE D \cup {d}

(* SmackRep::call: a synthesized declaration for a variadic callee or an *)
(* external one that is not a SMACK name, a direct call otherwise.         *)
Synthesized(f) ==
  f \notin {"malloc", "free_"}
  /\ (Functions[f].vararg \/ (~Functions[f].defined /\ ~Functions[f].smack))

CallTarget(f, n) ==
  CASE f = "malloc"    -> <<"$malloc">>
    [] f = "free_"     -> <<"$free">>
    [] Synthesized(f)  -> Proc(f, n).name
    [] OTHER           -> <<f>>

(* The declarations memcpyProc and memsetProc add: CodeDecls whose text   *)
(* is fixed by the regions.                                                *)
IntrinsicParams == <<"int", "int", "int", "int", "bool">>

IntrinsicDecl(name) ==
  [kind |-> "code", name |-> name, params |-> IntrinsicParams, rets |-> <<>>, body |-> TRUE]

Init ==
  /\ body \in Bodies
  /\ ip = 1
  /\ out = <<>>
  /\ uniqueUndefNum = 0
  /\ uniqueFpNum = 0
  /\ undefDecls = {}
  /\ decls = {}
  /\ declared = {}

Instr == body[ip]

Lowering == ip <= Len(body)

(* The assignment of a value instruction: expr, op, pred or a cast.        *)
LowerValue ==
  /\ Lowering
  /\ Instr.k \notin {"call", "memcpy", "memset"}
  /\ LET r == Lower(Instr, uniqueUndefNum, uniqueFpNum)
     IN  /\ out' = Append(out, r[1])
         /\ uniqueUndefNum' = r[2]
         /\ uniqueFpNum' = r[3]
  /\ ip' = ip + 1
  /\ UNCHANGED <<body, undefDecls, decls, declared>>

(* SmackRep::call of a direct call instruction.                            *)
LowerCall ==
  /\ Lowering
  /\ Instr.k = "call"
  /\ LET f == Instr.f
         r == LowerSeq(Instr.args, uniqueUndefNum, uniqueFpNum)
         xs == [i \in 1..Len(Instr.args) |-> Arg(f, Instr.args[i], r[1][i])]
     IN  /\ out' = Append(out, [k |-> "call", p |-> CallTarget(f, Len(xs)),
                                args |-> IF f \in {"malloc", "free_"} THEN <<xs[1]>> ELSE xs])
         /\ decls' = IF Synthesized(f) THEN AddDecl(decls, Proc(f, Len(xs))) ELSE decls
         /\ uniqueUndefNum' = r[2]
         /\ uniqueFpNum' = r[3]
  /\ ip' = ip + 1
  /\ UNCHANGED <<body, undefDecls, declared>>

(* SmackRep::memcpy and SmackRep::memset: the procedure of the regions,    *)
(* then the call with every operand but the callee.                        *)
LowerIntrinsic ==
  /\ Lowering
  /\ Instr.k \in {"memcpy", "memset"}
  /\ LET name == IF Instr.k = "memcpy" THEN <<"$memcpy", Instr.dst, Instr.src>>
                 ELSE <<"$memset", Instr.dst>>
         r == LowerSeq(Instr.args, uniqueUndefNum, uniqueFpNum)
     IN  /\ decls' = AddDecl(decls, IntrinsicDecl(name))
         /\ out' = Append(out, [k |-> "call", p |-> name, args |-> r[1]])
         /\ uniqueUndefNum' = r[2]
         /\ uniqueFpNum' = r[3]
  /\ ip' = ip + 1
  /\ UNCHANGED <<body, undefDecls, declared>>

(* The functions of the module with a body.                               *)
DefinedFns == {f \in DOMAIN Functions : Functions[f].defined}

(* An iteration of the function loop of generateProgram for another       *)
(* function f with a body, before or after the body lowered here in      *)
(* module order: its procedure.  (For a declaration the loop adds only    *)
(* constants, which no property here reads.)                              *)
DeclareFunction(f) ==
  /\ f \notin declared
  /\ declared' = declared \cup {f}
  /\ decls' = AddDecl(decls, FunctionProc(f))
  /\ UNCHANGED <<body, ip, out, uniqueUndefNum, uniqueFpNum, undefDecls>>

(* getPrelude, after the function loop: add_undef('$u.i', 'int') for i in *)
(* 0 .. uniqueUndefNum - 1.                                                *)
DeclareUndefs ==
  /\ ~Lowering
  /\ declared = DefinedFns
  /\ undefDecls = {}
  /\ uniqueUndefNum > 0
  /\ undefDecls' = 0..uniqueUndefNum - 1
  /\ UNCHANGED <<body, ip, out, uniqueUndefNum, uniqueFpNum, decls, declared>>

Next ==
  \/ LowerValue
  \/ LowerCall
  \/ LowerIntrinsic
  \/ \E f \in DefinedFns : DeclareFunction(f)
  \/ DeclareUndefs

Spec == Init /\ [][Next]_lvars

-----------------------------------------------------------------------------
(* The Boogie type of a target expression, "none" when it is ill-typed:   *)
(* getPrelude declares every $u.i of type int.                             *)
RECURSIVE TypeOf(_)
TypeOf(x) ==
  CASE x.k = "id"   -> x.t
    [] x.k = "u"    -> "int"
    [] x.k = "blit" -> "bool"
    [] x.k = "ilit" -> "int"
    [] x.k \in {"eq", "neq"} ->
         IF TypeOf(x.args[1]) # "none" /\ TypeOf(x.args[1]) = TypeOf(x.args[2])
           THEN "bool" ELSE "none"
    [] x.k = "fn" ->
         IF /\ x.f \in DOMAIN Signatures
            /\ Len(x.args) = Len(Signatures[x.f].args)
            /\ \A i \in 1..Len(x.args) : TypeOf(x.args[i]) = Signatures[x.f].args[i]
           THEN Signatures[x.f].res ELSE "none"

(* The procedures a call statement may bind to: the declarations of that *)
(* name in the program and the prelude's.                                  *)
Targets(p) == {d \in decls : d.name = p} \cup (IF p \in DOMAIN Prelude THEN {Prelude[p]} ELSE {})

IsStmt(ins) == ins.k \in {"call", "memcpy", "memset"}

(* Every argument of a call has the type of the parameter it binds to.    *)
ArgsTyped(c) ==
  \A d \in Targets(c.p) :
    \A j \in 1..Len(c.args) : j <= Len(d.params) => TypeOf(c.args[j]) = d.params[j]

(***************************************************************************)
(* Spec sections 4.2, 4.4 and 4.5, Boolean bridging and the variadic      *)
(* float conversion: every expression the lowering produces is well typed *)
(* against the prelude's signatures and has the Boogie type SmackRep::type *)
(* gives the instruction's LLVM type (the type of the variable it is      *)
(* assigned to), and every argument of a call has its parameter's type.   *)
(***************************************************************************)
WellTyped ==
  \A i \in 1..Len(out) :
    IF IsStmt(body[i]) THEN ArgsTyped(out[i]) ELSE TypeOf(out[i]) = BplType(body[i].ty)

(* The program is complete: the body is lowered and the function loop is  *)
(* over.                                                                   *)
Finished == ~Lowering /\ declared = DefinedFns

(***************************************************************************)
(* Spec section 4.5: once the program is complete, every call statement   *)
(* binds to exactly one declared procedure of its arity: the synthesized  *)
(* one keyed by (callee, argument count) for a variadic or external       *)
(* callee, and the procedure holding the body for a function of the      *)
(* module, so that the callee's body and modifies clause are the ones the *)
(* verifier uses.                                                          *)
(***************************************************************************)
CallsResolve ==
  Finished =>
    \A i \in 1..Len(out) :
      body[i].k = "call" =>
        LET T == Targets(out[i].p)
        IN  /\ T # {}
            /\ \A d \in T : Len(d.params) = Len(out[i].args)
            /\ body[i].f \in DOMAIN Functions /\ Functions[body[i].f].defined
                 => \E d \in T : d.body

=============================================================================
