--------------------------- MODULE LoweringProofs ---------------------------
(* Proofs about Lowering, for every program and every bound: its inductive  *)
(* invariant, and the safety properties that follow from it.                *)
EXTENDS Lowering, TLAPS

-----------------------------------------------------------------------------
(* Environments.                                                             *)

\* Binding names in an environment: what is bound, and to what.
LEMMA BindFacts ==
    ASSUME NEW m \in Ctx, NEW ns, NEW b \in Nat
    PROVE  /\ Bind(m, ns, b) \in Ctx
           /\ \A n \in Name : Bind(m, ns, b)[n] =
                  IF n \in ns THEN [at |-> b, of |-> n] ELSE m[n]
           /\ Bound(Bind(m, ns, b)) = Bound(m) \cup (ns \cap Name)
<1>1. NoValue \notin Value
  BY LoweringAssumption
<1>2. \A n \in Name : [at |-> b, of |-> n] \in Value
  BY DEF Value
<1> QED
  BY <1>1, <1>2 DEF Bind, Ctx, Bound

\* The same for a single name and an existing value.
LEMMA AliasFacts ==
    ASSUME NEW m \in Ctx, NEW k \in Name, NEW v \in Value
    PROVE  /\ Alias(m, k, v) \in Ctx
           /\ \A n \in Name : Alias(m, k, v)[n] = IF n = k THEN v ELSE m[n]
           /\ Bound(Alias(m, k, v)) = Bound(m) \cup {k}
<1>1. NoValue \notin Value
  BY LoweringAssumption
<1> QED
  BY <1>1 DEF Alias, Ctx, Bound

-----------------------------------------------------------------------------
(* Stacks of frames.                                                         *)

\* A call begins.
LEMMA PushStack ==
    ASSUME NEW s \in Seq(Frame), NEW f \in Frame, NEW nst, NEW cl, NEW us, NEW fs,
           GoodStack(s, nst, cl, us, fs),
           GoodFrame(f, nst, cl, us, fs),
           s = <<>> => GoodBase(f),
           s # <<>> => GoodLink(s[Len(s)], f, nst, us),
           \A i \in 1..Len(s) : s[i].block < f.block
    PROVE  GoodStack(Append(s, f), nst, cl, us, fs)
BY DEF GoodStack

\* The calls above frame d return, and frame d becomes f.
LEMMA PopStack ==
    ASSUME NEW s \in Seq(Frame), NEW f \in Frame, NEW nst, NEW cl, NEW us, NEW fs,
           NEW d \in 1..Len(s),
           GoodStack(s, nst, cl, us, fs),
           GoodFrame(f, nst, cl, us, fs),
           d = 1 => GoodBase(f),
           d > 1 => GoodLink(s[d - 1], f, nst, us),
           \A i \in 1..(d - 1) : s[i].block < f.block
    PROVE  LET t == Append(SubSeq(s, 1, d - 1), f)
           IN  /\ GoodStack(t, nst, cl, us, fs)
               /\ t \in Seq(Frame)
               /\ Len(t) = d
               /\ t[d] = f
               /\ \A i \in 1..(d - 1) : t[i] = s[i]
<1> DEFINE t == Append(SubSeq(s, 1, d - 1), f)
<1>1. t \in Seq(Frame) /\ Len(t) = d /\ t[d] = f /\ \A i \in 1..(d - 1) : t[i] = s[i]
  OBVIOUS
<1> HIDE DEF t
<1>2. \A i \in 1..Len(t) : GoodFrame(t[i], nst, cl, us, fs)
  BY <1>1 DEF GoodStack
<1>3. \A i \in 2..Len(t) : GoodLink(t[i - 1], t[i], nst, us)
  <2> SUFFICES ASSUME NEW i \in 2..Len(t)
               PROVE  GoodLink(t[i - 1], t[i], nst, us)
    OBVIOUS
  <2>1. CASE i = d
    BY <2>1, <1>1
  <2>2. CASE i < d
    BY <2>2, <1>1 DEF GoodStack
  <2> QED
    BY <2>1, <2>2, <1>1
<1>4. \A i, j \in 1..Len(t) : i < j => t[i].block < t[j].block
  <2> SUFFICES ASSUME NEW i \in 1..Len(t), NEW j \in 1..Len(t), i < j
               PROVE  t[i].block < t[j].block
    OBVIOUS
  <2>1. i \in 1..(d - 1) /\ t[i] = s[i]
    BY <1>1
  <2>2. CASE j = d
    BY <2>1, <2>2, <1>1
  <2>3. CASE j # d
    <3>1. i \in 1..Len(s) /\ j \in 1..Len(s) /\ t[j] = s[j]
      BY <2>3, <1>1
    <3> QED
      BY <3>1, <2>1 DEF GoodStack
  <2> QED
    BY <2>2, <2>3
<1>5. GoodBase(t[1])
  BY <1>1 DEF GoodStack
<1> QED
  BY <1>1, <1>2, <1>3, <1>4, <1>5 DEF GoodStack, t

\* The module has more blocks, names and functions, and the blocks of s are
\* still open.
Grown(s, nst, us, fs, nst2, cl2, us2, fs2) ==
    /\ DOMAIN nst \subseteq DOMAIN nst2
    /\ \A b \in DOMAIN nst : nst2[b] = nst[b]
    /\ \A i \in 1..Len(s) : s[i].block \notin cl2
    /\ \A f \in fs : us[f] \subseteq us2[f]
    /\ fs \subseteq fs2

\* What a stack needs of the module it does not lose when the module grows.
LEMMA GrowStack ==
    ASSUME NEW s \in Seq(Frame), NEW nst, NEW cl, NEW us, NEW fs,
           NEW nst2, NEW cl2, NEW us2, NEW fs2,
           GoodStack(s, nst, cl, us, fs),
           Grown(s, nst, us, fs, nst2, cl2, us2, fs2)
    PROVE  GoodStack(s, nst2, cl2, us2, fs2)
<1> USE DEF Grown
<1>2. \A i \in 1..Len(s) : GoodFrame(s[i], nst2, cl2, us2, fs2)
  BY DEF GoodStack, GoodFrame
<1>3. \A i \in 2..Len(s) : GoodLink(s[i - 1], s[i], nst2, us2)
  <2> SUFFICES ASSUME NEW i \in 2..Len(s)
               PROVE  GoodLink(s[i - 1], s[i], nst2, us2)
    OBVIOUS
  <2>1. i - 1 \in 1..Len(s) /\ i \in 1..Len(s)
    OBVIOUS
  <2>2. GoodLink(s[i - 1], s[i], nst, us)
    BY DEF GoodStack
  <2>3. /\ nst2[s[i - 1].block] = nst[s[i - 1].block]
        /\ nst2[s[i].block] = nst[s[i].block]
        /\ us[s[i - 1].fun] \subseteq us2[s[i - 1].fun]
    BY <2>1 DEF GoodStack, GoodFrame
  <2> QED
    BY <2>2, <2>3 DEF GoodLink
<1> QED
  BY <1>2, <1>3 DEF GoodStack

-----------------------------------------------------------------------------
(* The innermost frames.                                                     *)

\* What is in scope has a value, and its name is used.
LEMMA ScopeUsed ==
    ASSUME NEW f \in Frame, NEW nst, NEW cl, NEW us, NEW fs,
           GoodFrame(f, nst, cl, us, fs)
    PROVE  Scope(f) \subseteq Bound(f.env) /\ Scope(f) \subseteq us[f.fun]
BY DEF GoodFrame, Scope, Bound

LEMMA TopFacts ==
    ASSUME IInv, stack # <<>>
    PROVE  /\ Depth \in 1..Len(stack) /\ Depth \in Nat
           /\ Top \in Frame
           /\ GoodFrame(Top, nest, closed, used, functions)
           /\ ip = Top.block
           /\ ip \in 1..Len(nest) /\ ip \in nest[ip] /\ ip \notin closed
           /\ Top.fun \in Fun /\ Top.fun \in functions
           /\ Top.kind # "function" => Depth > 1
<1>1. stack \in Seq(Frame) /\ Depth \in 1..Len(stack) /\ Depth \in Nat
  BY DEF IInv, TypeOK, Depth
<1>2. Top \in Frame
  BY <1>1 DEF Top
<1>3. GoodFrame(Top, nest, closed, used, functions)
  BY <1>1 DEF IInv, GoodStack, Top, Depth
<1>4. ip = Top.block
  BY DEF IInv, InsertionPoint
<1>5. ip \in 1..Len(nest) /\ ip \in nest[ip] /\ ip \notin closed
  BY <1>3, <1>4 DEF GoodFrame, IInv, TypeOK
<1>6. Top.fun \in Fun /\ Top.fun \in functions
  BY <1>2, <1>3 DEF Frame, GoodFrame
<1>7. Top.kind # "function" => Depth > 1
  BY <1>1 DEF IInv, GoodStack, GoodBase, Top, Depth
<1> QED
  BY <1>1, <1>2, <1>3, <1>4, <1>5, <1>6, <1>7

LEMMA BelowFacts ==
    ASSUME IInv, Depth > 1
    PROVE  /\ stack # <<>>
           /\ Depth - 1 \in 1..Len(stack)
           /\ Below \in Frame
           /\ GoodFrame(Below, nest, closed, used, functions)
           /\ GoodLink(Below, Top, nest, used)
           /\ Below.block < Top.block
           /\ Below.block \in 1..Len(nest)
           /\ Top.saved = Below.block
           /\ Below.fun \in Fun
<1>1. stack \in Seq(Frame) /\ Depth = Len(stack) /\ Len(stack) \in Nat
  BY DEF IInv, TypeOK, Depth
<1>2. Depth - 1 \in 1..Len(stack) /\ Depth \in 2..Len(stack) /\ stack # <<>>
  BY <1>1
<1>3. Below \in Frame
  BY <1>1, <1>2 DEF Below
<1>4. /\ GoodFrame(Below, nest, closed, used, functions)
      /\ GoodLink(Below, Top, nest, used)
      /\ Below.block < Top.block
  BY <1>1, <1>2 DEF IInv, GoodStack, Below, Top
<1>5. Below.block \in 1..Len(nest) /\ Top.saved = Below.block
  BY <1>4 DEF GoodFrame, GoodLink, IInv, TypeOK
<1>6. Below.fun \in Fun
  BY <1>3 DEF Frame
<1> QED
  BY <1>2, <1>3, <1>4, <1>5, <1>6

\* Binding a pattern in a frame whose block the values are defined in.
LEMMA BindFrame ==
    ASSUME NEW f \in Frame, NEW nst, NEW cl, NEW us, NEW fs,
           NEW ns \in SUBSET Name,
           GoodFrame(f, nst, cl, us, fs),
           ns \subseteq us[f.fun]
    PROVE  LET g == BindPattern(f, ns, f.block)
           IN  /\ g \in Frame
               /\ GoodFrame(g, nst, cl, us, fs)
               /\ g.kind = f.kind /\ g.fun = f.fun /\ g.block = f.block
               /\ g.pat = f.pat /\ g.uses = f.uses /\ g.saved = f.saved
               /\ Scope(g) = Scope(f) \cup ns
               /\ \A n \in Scope(f) \ ns : g.lex[n] = f.lex[n]
<1> DEFINE g == BindPattern(f, ns, f.block)
<1>1. /\ f.lex \in Ctx /\ f.env \in Ctx /\ f.block \in Nat
  BY DEF Frame
<1>a. /\ Bind(f.lex, ns, f.block) \in Ctx
      /\ Bound(Bind(f.lex, ns, f.block)) = Bound(f.lex) \cup (ns \cap Name)
      /\ \A n \in Name : Bind(f.lex, ns, f.block)[n] =
             IF n \in ns THEN [at |-> f.block, of |-> n] ELSE f.lex[n]
  BY <1>1, BindFacts
<1>b. /\ Bind(f.env, ns, f.block) \in Ctx
      /\ Bound(Bind(f.env, ns, f.block)) = Bound(f.env) \cup (ns \cap Name)
      /\ \A n \in Name : Bind(f.env, ns, f.block)[n] =
             IF n \in ns THEN [at |-> f.block, of |-> n] ELSE f.env[n]
  BY <1>1, BindFacts
<1>2. /\ g \in Frame
      /\ g.kind = f.kind /\ g.fun = f.fun /\ g.block = f.block
      /\ g.pat = f.pat /\ g.uses = f.uses /\ g.saved = f.saved
      /\ g.lex = Bind(f.lex, ns, f.block) /\ g.env = Bind(f.env, ns, f.block)
  BY <1>1, <1>a, <1>b DEF BindPattern, Frame
<1> HIDE DEF g
<1>3. /\ Scope(g) = Scope(f) \cup ns
      /\ Bound(g.env) = Bound(f.env) \cup ns
      /\ \A n \in Name : g.lex[n] = IF n \in ns THEN [at |-> f.block, of |-> n] ELSE f.lex[n]
      /\ \A n \in Name : g.env[n] = IF n \in ns THEN [at |-> f.block, of |-> n] ELSE f.env[n]
  BY <1>2, <1>a, <1>b DEF Scope, Bound
<1>4. Scope(f) \subseteq Name
  BY DEF Scope, Bound
<1>5. GoodFrame(g, nst, cl, us, fs)
  <2>1. \A n \in Scope(g) : g.env[n] = g.lex[n] /\ g.lex[n].at \in nst[g.block]
    <3> SUFFICES ASSUME NEW n \in Scope(g)
                 PROVE  g.env[n] = g.lex[n] /\ g.lex[n].at \in nst[g.block]
      OBVIOUS
    <3>1. CASE n \in ns
      <4>1. g.lex[n] = [at |-> f.block, of |-> n] /\ g.env[n] = g.lex[n]
        BY <3>1, <1>3
      <4> QED
        BY <4>1, <1>2 DEF GoodFrame
    <3>2. CASE n \notin ns
      BY <3>2, <1>2, <1>3, <1>4 DEF GoodFrame
    <3> QED
      BY <3>1, <3>2
  <2> QED
    BY <2>1, <1>2, <1>3 DEF GoodFrame
<1> QED
  BY <1>2, <1>3, <1>4, <1>5 DEF g

\* A frame may change its environments, and move on to the next part of the
\* same statement, as long as it keeps what is in scope below it.
LEMMA KeepLink ==
    ASSUME NEW p, NEW f, NEW g, NEW nst, NEW us, NEW us2,
           GoodLink(p, f, nst, us),
           us[p.fun] \subseteq us2[p.fun],
           f.kind = "function" <=> g.kind = "function",
           f.kind \in {"scan", "scanop", "post"} <=> g.kind \in {"scan", "scanop", "post"},
           g.fun = f.fun, g.block = f.block,
           g.pat = f.pat, g.uses = f.uses, g.saved = f.saved,
           f.kind # "function" =>
               \A n \in Scope(p) : n \in Scope(g) /\ g.lex[n] = f.lex[n]
    PROVE  GoodLink(p, g, nst, us2)
BY DEF GoodLink

-----------------------------------------------------------------------------
(* Operations.                                                               *)

GoodOps(os, nst, fs) ==
    \A o \in os : /\ o \in Op
                  /\ o.at \in DOMAIN nst
                  /\ \A v \in o.uses : v.at \in nst[o.at]
                  /\ o.calls \subseteq fs

\* What a frame offers as operands may be used in the frame's block.
LEMMA OperandsGood ==
    ASSUME NEW f \in Frame, NEW nst, NEW cl, NEW us, NEW fs,
           GoodFrame(f, nst, cl, us, fs)
    PROVE  \A v \in Operands(f) : v \in Value /\ v.at \in nst[f.block]
<1> SUFFICES ASSUME NEW n \in Scope(f)
             PROVE  f.env[n] \in Value /\ f.env[n].at \in nst[f.block]
  BY DEF Operands, LookUp
<1>1. f.lex \in Ctx /\ n \in Name /\ f.lex[n] # NoValue
  BY DEF Frame, Scope, Bound
<1>2. f.lex[n] \in Value
  BY <1>1 DEF Ctx
<1> QED
  BY <1>2 DEF GoodFrame

LEMMA EmitGood ==
    ASSUME NEW nst, NEW fs, NEW b \in Nat, NEW us,
           b \in DOMAIN nst,
           \A v \in us : v \in Value /\ v.at \in nst[b]
    PROVE  GoodOps(Emit(b, us), nst, fs)
BY DEF GoodOps, Emit, Op

LEMMA EmitCallGood ==
    ASSUME NEW nst, NEW fs, NEW b \in Nat, NEW us, NEW g \in fs,
           g \in Fun,
           b \in DOMAIN nst,
           \A v \in us : v \in Value /\ v.at \in nst[b]
    PROVE  GoodOps(EmitCall(b, us, g), nst, fs)
BY DEF GoodOps, EmitCall, Op

-----------------------------------------------------------------------------
(* The three ways in which a step changes the stack.                         *)

\* A region or a function begins.
LEMMA PushStep ==
    ASSUME IInv,
           NEW f \in Frame, NEW S \in SUBSET Nat,
           nest' = Append(nest, S),
           f.block = NewBlock,
           stack' = Append(stack, f),
           ip' = NewBlock,
           closed' = closed,
           used' \in [Fun -> SUBSET Name],
           \A h \in functions : used[h] \subseteq used'[h],
           functions \subseteq functions',
           GoodFrame(f, nest', closed', used', functions'),
           stack = <<>> => GoodBase(f),
           stack # <<>> => GoodLink(Top, f, nest', used')
    PROVE  /\ stack' \in Seq(Frame) /\ nest' \in Seq(SUBSET Nat) /\ ip' \in Nat
           /\ GoodStack(stack, nest, closed, used, functions)'
           /\ InsertionPoint'
           /\ Blocks'
<1>1. /\ stack \in Seq(Frame) /\ nest \in Seq(SUBSET Nat) /\ closed \subseteq Nat
      /\ used \in [Fun -> SUBSET Name] /\ functions \subseteq Fun
      /\ GoodStack(stack, nest, closed, used, functions)
      /\ NewBlock = Len(nest) + 1 /\ Len(nest) \in Nat
      /\ DOMAIN nest = 1..Len(nest)
  BY DEF IInv, TypeOK, NewBlock
<1>2. /\ nest' \in Seq(SUBSET Nat) /\ Len(nest') = Len(nest) + 1
      /\ DOMAIN nest \subseteq DOMAIN nest'
      /\ \A b \in DOMAIN nest : nest'[b] = nest[b]
  BY <1>1
<1>3. \A i \in 1..Len(stack) : /\ stack[i].block \in 1..Len(nest)
                               /\ stack[i].block \notin closed
  <2>1. \A i \in 1..Len(stack) : GoodFrame(stack[i], nest, closed, used, functions)
    BY <1>1 DEF GoodStack
  <2> QED
    BY <1>1, <2>1 DEF GoodFrame
<1>4. GoodStack(stack, nest', closed, used', functions')
  <2>1. Grown(stack, nest, used, functions, nest', closed, used', functions')
    BY <1>2, <1>3 DEF Grown
  <2> QED
    BY <1>1, <2>1, GrowStack
<1>5. \A i \in 1..Len(stack) : stack[i].block < f.block
  BY <1>1, <1>3
<1>6. stack # <<>> => GoodLink(stack[Len(stack)], f, nest', used')
  BY DEF Top, Depth
<1>7. GoodStack(Append(stack, f), nest', closed, used', functions')
  BY <1>1, <1>4, <1>5, <1>6, PushStack
<1>8. stack' \in Seq(Frame) /\ Len(stack') = Len(stack) + 1 /\ stack'[Len(stack')] = f
  BY <1>1
<1>9. InsertionPoint'
  BY <1>8 DEF InsertionPoint, Top, Depth
<1>10. Blocks'
  <2>1. {stack'[i].block : i \in 1..Len(stack')} =
            {stack[i].block : i \in 1..Len(stack)} \cup {NewBlock}
    BY <1>1, <1>8
  <2>2. DOMAIN nest' = DOMAIN nest \cup {NewBlock}
    BY <1>1, <1>2
  <2> QED
    BY <2>1, <2>2 DEF Blocks, Depth, IInv
<1> QED
  BY <1>1, <1>2, <1>7, <1>8, <1>9, <1>10

\* The calls above frame d return, their blocks terminated, and frame d
\* becomes f; nothing changes but f when d is the top.
LEMMA PopStep ==
    ASSUME IInv,
           NEW d \in 1..Depth, NEW f \in Frame,
           stack' = PopTo(d, f),
           f.block = stack[d].block,
           ip' = f.block,
           UNCHANGED <<nest, functions>>,
           closed' = closed \cup {stack[i].block : i \in (d + 1)..Depth},
           used' \in [Fun -> SUBSET Name],
           \A h \in functions : used[h] \subseteq used'[h],
           GoodFrame(f, nest, closed, used', functions),
           d = 1 => GoodBase(f),
           d > 1 => GoodLink(stack[d - 1], f, nest, used')
    PROVE  /\ stack' \in Seq(Frame) /\ ip' \in Nat /\ closed' \subseteq Nat
           /\ GoodStack(stack, nest, closed, used, functions)'
           /\ InsertionPoint'
           /\ Blocks'
<1>1. /\ stack \in Seq(Frame) /\ nest \in Seq(SUBSET Nat) /\ closed \subseteq Nat
      /\ used \in [Fun -> SUBSET Name] /\ functions \subseteq Fun
      /\ GoodStack(stack, nest, closed, used, functions)
      /\ Depth = Len(stack) /\ Len(stack) \in Nat
      /\ DOMAIN nest = 1..Len(nest) /\ Len(nest) \in Nat
  BY DEF IInv, TypeOK, Depth
<1>2. /\ \A i \in 1..Len(stack) : /\ stack[i].block \in 1..Len(nest)
                                  /\ stack[i].block \notin closed
      /\ \A i, j \in 1..Len(stack) : i < j => stack[i].block < stack[j].block
  <2>1. \A i \in 1..Len(stack) : GoodFrame(stack[i], nest, closed, used, functions)
    BY <1>1 DEF GoodStack
  <2>2. \A i, j \in 1..Len(stack) : i < j => stack[i].block < stack[j].block
    BY <1>1 DEF GoodStack
  <2> QED
    BY <1>1, <2>1, <2>2 DEF GoodFrame
<1>3. GoodStack(stack, nest, closed, used', functions)
  BY <1>1, <1>2, GrowStack DEF Grown
<1>4. \A i \in 1..(d - 1) : stack[i].block < f.block
  BY <1>1, <1>2
<1>5. /\ GoodStack(stack', nest, closed, used', functions)
      /\ stack' \in Seq(Frame) /\ Len(stack') = d /\ stack'[d] = f
      /\ \A i \in 1..(d - 1) : stack'[i] = stack[i]
  <2>1. d \in 1..Len(stack)
    BY <1>1
  <2> HIDE DEF GoodStack
  <2> QED
    BY <1>1, <1>3, <1>4, <2>1, PopStack DEF PopTo
<1>6. \A i \in 1..Len(stack') : stack'[i].block = stack[i].block
  BY <1>1, <1>5
<1>7. \A i \in 1..Len(stack') : stack'[i].block \notin closed'
  <2> SUFFICES ASSUME NEW i \in 1..d
               PROVE  stack[i].block \notin closed'
    BY <1>5, <1>6
  <2>1. i \in 1..Len(stack)
    BY <1>1
  <2>2. \A j \in (d + 1)..Depth : stack[i].block # stack[j].block
    <3> SUFFICES ASSUME NEW j \in (d + 1)..Depth
                 PROVE  stack[i].block # stack[j].block
      OBVIOUS
    <3>1. j \in 1..Len(stack) /\ i < j
      BY <1>1
    <3>2. stack[i].block \in Nat /\ stack[j].block \in Nat
      BY <1>2, <2>1, <3>1
    <3> QED
      BY <1>2, <2>1, <3>1, <3>2
  <2> QED
    BY <1>2, <2>1, <2>2
<1>8. GoodStack(stack', nest, closed', used', functions)
  BY <1>5, <1>7, GrowStack DEF Grown
<1>9. InsertionPoint'
  BY <1>1, <1>5 DEF InsertionPoint, Top, Depth
<1>10. Blocks'
  <2>1. {stack'[i].block : i \in 1..Len(stack')} = {stack[i].block : i \in 1..d}
    <3>1. Len(stack') = d
      BY <1>5
    <3>2. \A i \in 1..d : stack'[i].block = stack[i].block
      BY <1>6, <3>1
    <3> QED
      BY <3>1, <3>2
  <2>2. {stack[i].block : i \in 1..Len(stack)} =
            {stack[i].block : i \in 1..d} \cup {stack[i].block : i \in (d + 1)..Depth}
    BY <1>1
  <2> QED
    BY <1>1, <2>1, <2>2 DEF Blocks, Depth, IInv
<1>11. ip' \in Nat /\ closed' \subseteq Nat
  <2>1. \A i \in 1..Len(stack) : stack[i].block \in Nat
    BY <1>1, <1>2
  <2>2. {stack[i].block : i \in (d + 1)..Depth} \subseteq Nat
    BY <1>1, <2>1
  <2>3. ip' \in Nat
    BY <1>1, <2>1
  <2> QED
    BY <1>1, <2>2, <2>3
<1> QED
  BY <1>5, <1>8, <1>9, <1>10, <1>11

\* A region of a statement ends and the next one of the same statement
\* begins in a new block.
LEMMA NextStep ==
    ASSUME IInv, stack # <<>>,
           NEW f \in Frame, NEW S \in SUBSET Nat,
           nest' = Append(nest, S),
           f.block = NewBlock,
           stack' = Replace(f),
           ip' = NewBlock,
           closed' = closed \cup {ip},
           functions' = functions,
           used' \in [Fun -> SUBSET Name],
           \A h \in functions : used[h] \subseteq used'[h],
           GoodFrame(f, nest', closed', used', functions),
           Depth > 1,
           GoodLink(Below, f, nest', used')
    PROVE  /\ stack' \in Seq(Frame) /\ nest' \in Seq(SUBSET Nat)
           /\ ip' \in Nat /\ closed' \subseteq Nat
           /\ GoodStack(stack, nest, closed, used, functions)'
           /\ InsertionPoint'
           /\ Blocks'
<1>1. /\ stack \in Seq(Frame) /\ nest \in Seq(SUBSET Nat) /\ closed \subseteq Nat
      /\ used \in [Fun -> SUBSET Name] /\ functions \subseteq Fun
      /\ GoodStack(stack, nest, closed, used, functions)
      /\ Depth = Len(stack) /\ Len(stack) \in Nat /\ Depth \in 1..Len(stack)
      /\ NewBlock = Len(nest) + 1 /\ Len(nest) \in Nat
      /\ ip = stack[Depth].block
      /\ DOMAIN nest = 1..Len(nest)
  BY DEF IInv, TypeOK, Depth, NewBlock, InsertionPoint, Top
<1>2. /\ nest' \in Seq(SUBSET Nat) /\ Len(nest') = Len(nest) + 1
      /\ DOMAIN nest \subseteq DOMAIN nest'
      /\ \A b \in DOMAIN nest : nest'[b] = nest[b]
  BY <1>1
<1>3. /\ \A i \in 1..Len(stack) : /\ stack[i].block \in 1..Len(nest)
                                  /\ stack[i].block \notin closed
      /\ \A i, j \in 1..Len(stack) : i < j => stack[i].block < stack[j].block
  <2>1. \A i \in 1..Len(stack) : GoodFrame(stack[i], nest, closed, used, functions)
    BY <1>1 DEF GoodStack
  <2>2. \A i, j \in 1..Len(stack) : i < j => stack[i].block < stack[j].block
    BY <1>1 DEF GoodStack
  <2> QED
    BY <1>1, <2>1, <2>2 DEF GoodFrame
<1>4. GoodStack(stack, nest', closed, used', functions)
  <2>1. Grown(stack, nest, used, functions, nest', closed, used', functions)
    BY <1>2, <1>3 DEF Grown
  <2> QED
    BY <1>1, <2>1, GrowStack
<1>5. \A i \in 1..(Depth - 1) : stack[i].block < f.block
  BY <1>1, <1>3
<1>6. GoodFrame(f, nest', closed, used', functions)
  BY <1>1 DEF GoodFrame
<1>7. GoodLink(stack[Depth - 1], f, nest', used')
  BY DEF Below
<1>8. /\ GoodStack(stack', nest', closed, used', functions)
      /\ stack' \in Seq(Frame) /\ Len(stack') = Depth /\ stack'[Depth] = f
      /\ \A i \in 1..(Depth - 1) : stack'[i] = stack[i]
  <2>1. stack' = Append(SubSeq(stack, 1, Depth - 1), f)
    BY DEF PopTo, Replace
  <2>2. Depth \in 1..Len(stack) /\ Depth > 1
    BY <1>1
  <2>3. stack \in Seq(Frame) /\ f \in Frame
    BY <1>1
  <2> QED
    BY ONLY <1>4, <1>5, <1>6, <1>7, <2>1, <2>2, <2>3, PopStack
<1>9. \A i \in 1..Len(stack') : stack'[i].block \notin closed'
  <2> SUFFICES ASSUME NEW i \in 1..Depth
               PROVE  stack'[i].block \notin closed'
    BY <1>8
  <2>1. CASE i = Depth
    BY <1>8, <2>1 DEF GoodFrame
  <2>2. CASE i # Depth
    <3>1. i \in 1..(Depth - 1) /\ i \in 1..Len(stack) /\ i < Depth
      BY <1>1, <2>2
    <3>2. stack'[i] = stack[i] /\ stack[i].block < ip /\ stack[i].block \in Nat
      BY <1>1, <1>3, <1>8, <3>1
    <3>3. ip \in Nat
      BY <1>1, <1>3
    <3> QED
      BY <1>3, <3>1, <3>2, <3>3
  <2> QED
    BY <2>1, <2>2
<1>10. GoodStack(stack', nest', closed', used', functions)
  BY <1>8, <1>9, GrowStack DEF Grown
<1>11. InsertionPoint'
  BY <1>1, <1>8 DEF InsertionPoint, Top, Depth
<1>12. Blocks'
  <2>1. {stack'[i].block : i \in 1..Len(stack')} =
            {stack[i].block : i \in 1..(Depth - 1)} \cup {NewBlock}
    <3>1. \A i \in 1..(Depth - 1) : stack'[i].block = stack[i].block
      BY <1>8
    <3>2. Len(stack') = Depth /\ stack'[Depth].block = NewBlock
      BY <1>8
    <3>3. Depth \in Nat /\ Depth > 1
      BY <1>1
    <3>4. 1..Depth = (1..(Depth - 1)) \cup {Depth}
      BY <3>3
    <3> QED
      BY ONLY <3>1, <3>2, <3>4
  <2>2. {stack[i].block : i \in 1..Len(stack)} =
            {stack[i].block : i \in 1..(Depth - 1)} \cup {ip}
    BY <1>1
  <2>3. DOMAIN nest' = DOMAIN nest \cup {NewBlock}
    BY <1>1, <1>2
  <2> QED
    BY <1>1, <2>1, <2>2, <2>3 DEF Blocks, Depth, IInv
<1>13. ip' \in Nat /\ closed' \subseteq Nat
  <2>1. stack[Depth].block \in Nat
    BY <1>1, <1>3
  <2>2. NewBlock \in Nat
    BY <1>1
  <2> QED
    BY <1>1, <2>1, <2>2
<1> QED
  BY <1>1, <1>2, <1>8, <1>10, <1>11, <1>12, <1>13

-----------------------------------------------------------------------------
(* From the stack to the whole invariant.                                    *)

\* A step that lowers no new function keeps the invariant if it keeps the
\* stack's part and inserts operations that are good where they are.
LEMMA SameFunctions ==
    ASSUME IInv, status = "running",
           UNCHANGED <<todo, functions, module, status>>,
           stack' \in Seq(Frame), nest' \in Seq(SUBSET Nat),
           ip' \in Nat, closed' \subseteq Nat,
           used' \in [Fun -> SUBSET Name],
           GoodStack(stack, nest, closed, used, functions)',
           InsertionPoint',
           Blocks',
           GoodOps(ops', nest', functions)
    PROVE  IInv'
<1>1. /\ todo \in Seq(Fun) /\ functions \subseteq Fun /\ module \in Seq(Fun)
      /\ functions = {module[i] : i \in 1..Len(module)}
  BY DEF IInv, TypeOK, Memo
<1>2. TypeOK'
  <2>1. ops' \subseteq Op
    BY DEF GoodOps
  <2> QED
    BY <1>1, <2>1 DEF TypeOK
<1>3. Dominance'
  BY DEF Dominance, GoodOps
<1>4. Memo'
  BY DEF IInv, Memo
<1>5. Symbols'
  <2>1. \A o \in ops' : \A f \in o.calls : \E i \in 1..Len(module) : module[i] = f
    BY <1>1 DEF GoodOps
  <2> QED
    BY <2>1 DEF IInv, Symbols
<1> QED
  BY <1>2, <1>3, <1>4, <1>5 DEF IInv

\* A step that replaces the innermost frame by one for the same region.
LEMMA TopStep ==
    ASSUME IInv, status = "running", stack # <<>>,
           NEW g \in Frame,
           stack' = Replace(g),
           Top.kind = "function" <=> g.kind = "function",
           Top.kind \in {"scan", "scanop", "post"} <=> g.kind \in {"scan", "scanop", "post"},
           g.fun = Top.fun, g.block = Top.block,
           g.pat = Top.pat, g.uses = Top.uses, g.saved = Top.saved,
           used' \in [Fun -> SUBSET Name],
           \A h \in functions : used[h] \subseteq used'[h],
           GoodFrame(g, nest, closed, used', functions),
           Top.kind # "function" =>
               \A n \in Scope(Below) : n \in Scope(g) /\ g.lex[n] = Top.lex[n],
           UNCHANGED <<todo, functions, module, nest, closed, ip, status>>,
           GoodOps(ops', nest, functions)
    PROVE  IInv'
<1>1. /\ Depth \in 1..Depth /\ Depth \in Nat /\ Top = stack[Depth]
      /\ ip = Top.block /\ nest \in Seq(SUBSET Nat)
  BY TopFacts DEF Top, Depth, IInv, TypeOK
<1>2. Depth = 1 => GoodBase(g)
  BY <1>1 DEF IInv, GoodStack, GoodBase, Depth
<1>3. Depth > 1 => GoodLink(stack[Depth - 1], g, nest, used')
  <2> SUFFICES ASSUME Depth > 1
               PROVE  GoodLink(Below, g, nest, used')
    BY DEF Below
  <2>1. GoodLink(Below, Top, nest, used)
    BY BelowFacts
  <2>2. used[Below.fun] \subseteq used'[Below.fun]
    BY BelowFacts DEF GoodFrame
  <2> QED
    BY <2>1, <2>2, KeepLink
<1>4. closed' = closed \cup {stack[i].block : i \in (Depth + 1)..Depth}
  BY <1>1
<1>5. stack' = PopTo(Depth, g)
  BY DEF Replace
<1>6. g.block = stack[Depth].block /\ ip' = g.block
  BY <1>1
<1>7. /\ stack' \in Seq(Frame) /\ ip' \in Nat /\ closed' \subseteq Nat
      /\ GoodStack(stack, nest, closed, used, functions)'
      /\ InsertionPoint'
      /\ Blocks'
  BY <1>1, <1>2, <1>3, <1>4, <1>5, <1>6, PopStep
<1>8. nest' \in Seq(SUBSET Nat) /\ GoodOps(ops', nest', functions)
  BY <1>1
<1> QED
  BY <1>7, <1>8, SameFunctions

\* Reserving fresh names for the function being lowered.
LEMMA ReserveFacts ==
    ASSUME IInv, stack # <<>>, NEW ns \in SUBSET Fresh, Reserve(ns)
    PROVE  /\ used' \in [Fun -> SUBSET Name]
           /\ \A h \in Fun : used[h] \subseteq used'[h]
           /\ \A h \in functions : used[h] \subseteq used'[h]
           /\ ns \subseteq Name
           /\ used'[Top.fun] = used[Top.fun] \cup ns
           /\ ns \cap used[Top.fun] = {}
           /\ ns \cap Scope(Top) = {}
           /\ ns \cap Bound(Top.env) = {}
<1>1. /\ used \in [Fun -> SUBSET Name] /\ functions \subseteq Fun
      /\ ns \subseteq Name /\ ns \cap used[Top.fun] = {}
  BY DEF IInv, TypeOK, Fresh
<1>2. Top.fun \in Fun /\ GoodFrame(Top, nest, closed, used, functions)
  BY TopFacts
<1>3. used' = [used EXCEPT ![Top.fun] = @ \cup ns]
  BY DEF Reserve
<1>4. Scope(Top) \subseteq used[Top.fun] /\ Bound(Top.env) \subseteq used[Top.fun]
  BY <1>2, TopFacts, ScopeUsed DEF GoodFrame
<1> QED
  BY <1>1, <1>2, <1>3, <1>4

\* A frame stays good when more names are used.
LEMMA GrowFrame ==
    ASSUME NEW f, NEW nst, NEW cl, NEW us, NEW fs, NEW us2,
           GoodFrame(f, nst, cl, us, fs),
           us[f.fun] \subseteq us2[f.fun]
    PROVE  GoodFrame(f, nst, cl, us2, fs)
BY DEF GoodFrame

\* What a name in scope stands for, in the environment and in the program.
LEMMA ScopeValue ==
    ASSUME NEW f \in Frame, NEW nst, NEW cl, NEW us, NEW fs,
           GoodFrame(f, nst, cl, us, fs),
           NEW x \in Scope(f)
    PROVE  /\ x \in Name
           /\ f.lex[x] \in Value /\ f.env[x] = f.lex[x]
           /\ f.lex[x].at \in nst[f.block]
<1>1. f.lex \in Ctx /\ x \in Name /\ f.lex[x] # NoValue
  BY DEF Frame, Scope, Bound
<1>2. f.lex[x] \in Value
  BY <1>1 DEF Ctx
<1> QED
  BY <1>1, <1>2 DEF GoodFrame

\* What is in scope in a region is in scope, and the same, in the regions in it.
LEMMA ScopeBelow ==
    ASSUME IInv, Depth > 1, Top.kind # "function"
    PROVE  /\ Top.fun = Below.fun
           /\ nest[Below.block] \subseteq nest[Top.block]
           /\ \A n \in Scope(Below) : n \in Scope(Top) /\ Top.lex[n] = Below.lex[n]
           /\ \A n \in Scope(Below) : Top.env[n] = Below.env[n]
           /\ Scope(Below) \subseteq Name
<1>1. GoodLink(Below, Top, nest, used)
  BY BelowFacts
<1>2. /\ GoodFrame(Below, nest, closed, used, functions)
      /\ GoodFrame(Top, nest, closed, used, functions)
  BY BelowFacts, TopFacts
<1>3. Scope(Below) \subseteq Name
  BY DEF Scope, Bound
<1> QED
  BY <1>1, <1>2, <1>3 DEF GoodLink, GoodFrame

-----------------------------------------------------------------------------
(* Statements lowered in place.                                              *)

\* A statement whose pattern is bound to values of the block being filled.
LEMMA BindTop ==
    ASSUME IInv, status = "running", stack # <<>>,
           NEW pat \in SUBSET Fresh,
           stack' = Replace(BindPattern(Top, pat, ip)),
           Reserve(pat),
           UNCHANGED <<todo, functions, module, nest, closed, ip, status>>,
           GoodOps(ops', nest, functions)
    PROVE  IInv'
<1> DEFINE g == BindPattern(Top, pat, Top.block)
<1>1. /\ Top \in Frame /\ ip = Top.block /\ Top.fun \in Fun
      /\ GoodFrame(Top, nest, closed, used, functions)
      /\ Top.kind # "function" => Depth > 1
  BY TopFacts
<1>2. /\ used' \in [Fun -> SUBSET Name]
      /\ \A h \in functions : used[h] \subseteq used'[h]
      /\ used[Top.fun] \subseteq used'[Top.fun]
      /\ pat \subseteq Name /\ pat \subseteq used'[Top.fun]
      /\ pat \cap Scope(Top) = {}
  BY <1>1, ReserveFacts
<1>3. GoodFrame(Top, nest, closed, used', functions)
  BY <1>1, <1>2, GrowFrame
<1>4. /\ g \in Frame
      /\ GoodFrame(g, nest, closed, used', functions)
      /\ g.kind = Top.kind /\ g.fun = Top.fun /\ g.block = Top.block
      /\ g.pat = Top.pat /\ g.uses = Top.uses /\ g.saved = Top.saved
      /\ Scope(g) = Scope(Top) \cup pat
      /\ \A n \in Scope(Top) \ pat : g.lex[n] = Top.lex[n]
  BY <1>1, <1>2, <1>3, BindFrame
<1>5. stack' = Replace(g)
  BY <1>1
<1> HIDE DEF g
<1>6. Top.kind # "function" =>
          \A n \in Scope(Below) : n \in Scope(g) /\ g.lex[n] = Top.lex[n]
  BY <1>1, <1>2, <1>4, ScopeBelow
<1> QED
  BY <1>2, <1>4, <1>5, <1>6, TopStep

LEMMA LowerOpStep == ASSUME IInv, LowerOp PROVE IInv'
<1>1. PICK pat \in Pattern : /\ ops' = Emit(ip, Operands(Top))
                             /\ stack' = Replace(BindPattern(Top, pat, ip))
                             /\ Reserve(pat)
  BY DEF LowerOp
<1>2. status = "running" /\ stack # <<>> /\ pat \in SUBSET Fresh
  BY DEF LowerOp, Filling, Pattern
<1>3. GoodOps(ops', nest, functions)
  <2>1. ip = Top.block /\ ip \in DOMAIN nest /\ ip \in Nat
    BY <1>2, TopFacts DEF IInv, TypeOK
  <2>2. \A v \in Operands(Top) : v \in Value /\ v.at \in nest[ip]
    BY <1>2, <2>1, TopFacts, OperandsGood
  <2> QED
    BY <1>1, <2>1, <2>2, EmitGood
<1> QED
  BY <1>1, <1>2, <1>3, BindTop DEF LowerOp

LEMMA CallBlackBoxStep == ASSUME IInv, CallBlackBox PROVE IInv'
<1>1. PICK pat \in Pattern : /\ ops' = Emit(ip, Operands(Top))
                             /\ stack' = Replace(BindPattern(Top, pat, ip))
                             /\ Reserve(pat)
  BY DEF CallBlackBox
<1>2. status = "running" /\ stack # <<>> /\ pat \in SUBSET Fresh
  BY DEF CallBlackBox, Filling, Pattern
<1>3. GoodOps(ops', nest, functions)
  <2>1. ip = Top.block /\ ip \in DOMAIN nest /\ ip \in Nat
    BY <1>2, TopFacts DEF IInv, TypeOK
  <2>2. \A v \in Operands(Top) : v \in Value /\ v.at \in nest[ip]
    BY <1>2, <2>1, TopFacts, OperandsGood
  <2> QED
    BY <1>1, <2>1, <2>2, EmitGood
<1> QED
  BY <1>1, <1>2, <1>3, BindTop DEF CallBlackBox

\* Blocks for m regions, all in block b.
LEMMA RegionsFacts ==
    ASSUME IInv, NEW b \in DOMAIN nest, NEW m \in 1..2,
           nest' = nest \o [k \in 1..m |-> nest[b] \cup {Len(nest) + k}]
    PROVE  /\ nest' \in Seq(SUBSET Nat)
           /\ DOMAIN nest' = DOMAIN nest \cup NewBlocks(m)
           /\ NewBlocks(m) \subseteq Nat
           /\ DOMAIN nest \cap NewBlocks(m) = {}
           /\ \A c \in DOMAIN nest : nest'[c] = nest[c]
           /\ \A c \in NewBlocks(m) : nest[b] \subseteq nest'[c]
<1> DEFINE t == [k \in 1..m |-> nest[b] \cup {Len(nest) + k}]
<1>1. /\ nest \in Seq(SUBSET Nat) /\ Len(nest) \in Nat /\ DOMAIN nest = 1..Len(nest)
      /\ NewBlocks(m) = (Len(nest) + 1)..(Len(nest) + m)
  BY DEF IInv, TypeOK, NewBlocks, NewBlock
<1>2. t \in Seq(SUBSET Nat) /\ Len(t) = m
  <2>1. \A k \in 1..m : nest[b] \cup {Len(nest) + k} \in SUBSET Nat
    BY <1>1
  <2>2. t \in [1..m -> SUBSET Nat] /\ m \in Nat
    BY <2>1
  <2> QED
    BY <2>2
<1>3. \A k \in 1..m : t[k] = nest[b] \cup {Len(nest) + k}
  OBVIOUS
<1>4. nest' = nest \o t
  OBVIOUS
<1> HIDE DEF t
<1>5. nest' \in Seq(SUBSET Nat) /\ Len(nest') = Len(nest) + m
  BY <1>1, <1>2, <1>4
<1>6. \A c \in DOMAIN nest : nest'[c] = nest[c]
  BY <1>1, <1>2, <1>4
<1>7. ASSUME NEW c \in NewBlocks(m) PROVE nest[b] \subseteq nest'[c]
  <2>1. c \in (Len(nest) + 1)..(Len(nest) + Len(t))
    BY <1>1, <1>2
  <2>2. (nest \o t)[c] = t[c - Len(nest)]
    BY <2>1, <1>1, <1>2
  <2>3. c - Len(nest) \in 1..m
    BY <2>1, <1>1, <1>2
  <2> QED
    BY <2>2, <2>3, <1>3, <1>4
<1> QED
  BY <1>1, <1>5, <1>6, <1>7

\* A statement with regions that are complete when its pattern is bound.
LEMMA LowerWithRegionsStep == ASSUME IInv, LowerWithRegions PROVE IInv'
<1>1. PICK m \in 1..2, pat \in Pattern :
          /\ nest' = nest \o [k \in 1..m |-> nest[ip] \cup {Len(nest) + k}]
          /\ closed' = closed \cup NewBlocks(m)
          /\ ops' = UNION {Emit(b, Operands(Top)) : b \in {ip} \cup NewBlocks(m)}
          /\ stack' = Replace(BindPattern(Top, pat, ip))
          /\ Reserve(pat)
  BY DEF LowerWithRegions
<1>2. /\ status = "running" /\ stack # <<>> /\ pat \in SUBSET Fresh
      /\ UNCHANGED <<todo, functions, module, ip, status>>
  BY DEF LowerWithRegions, Filling, Pattern
<1>3. /\ Top \in Frame /\ ip = Top.block /\ Top.fun \in Fun /\ ip \in DOMAIN nest
      /\ GoodFrame(Top, nest, closed, used, functions)
      /\ Depth \in 1..Depth /\ Depth \in Nat /\ Depth = Len(stack) /\ Top = stack[Depth]
      /\ Top.kind # "function" => Depth > 1
  BY <1>2, TopFacts DEF Top, Depth, IInv, TypeOK
<1>4. /\ used' \in [Fun -> SUBSET Name]
      /\ \A h \in functions : used[h] \subseteq used'[h]
      /\ used[Top.fun] \subseteq used'[Top.fun]
      /\ pat \subseteq Name /\ pat \subseteq used'[Top.fun]
      /\ pat \cap Scope(Top) = {}
  BY <1>1, <1>2, <1>3, ReserveFacts
<1>5. /\ nest' \in Seq(SUBSET Nat)
      /\ DOMAIN nest' = DOMAIN nest \cup NewBlocks(m)
      /\ NewBlocks(m) \subseteq Nat
      /\ DOMAIN nest \cap NewBlocks(m) = {}
      /\ \A c \in DOMAIN nest : nest'[c] = nest[c]
      /\ \A c \in NewBlocks(m) : nest[ip] \subseteq nest'[c]
  BY <1>1, <1>3, RegionsFacts
<1> DEFINE g == BindPattern(Top, pat, Top.block)
<1>6. /\ g \in Frame
      /\ GoodFrame(g, nest, closed, used', functions)
      /\ g.kind = Top.kind /\ g.fun = Top.fun /\ g.block = Top.block
      /\ g.pat = Top.pat /\ g.uses = Top.uses /\ g.saved = Top.saved
      /\ Scope(g) = Scope(Top) \cup pat
      /\ \A n \in Scope(Top) \ pat : g.lex[n] = Top.lex[n]
  <2>1. GoodFrame(Top, nest, closed, used', functions)
    BY <1>3, <1>4, GrowFrame
  <2> QED
    BY <1>3, <1>4, <2>1, BindFrame
<1>7. stack' = PopTo(Depth, g)
  BY <1>1, <1>3 DEF Replace
<1> HIDE DEF g
<1>8. Depth = 1 => GoodBase(g)
  BY <1>2, <1>3, <1>6 DEF IInv, GoodStack, GoodBase
<1>9. Depth > 1 => GoodLink(stack[Depth - 1], g, nest, used')
  <2> SUFFICES ASSUME Depth > 1
               PROVE  GoodLink(Below, g, nest, used')
    BY DEF Below
  <2>1. GoodLink(Below, Top, nest, used) /\ used[Below.fun] \subseteq used'[Below.fun]
    BY <1>4, BelowFacts DEF GoodFrame
  <2>2. Top.kind # "function" =>
            \A n \in Scope(Below) : n \in Scope(g) /\ g.lex[n] = Top.lex[n]
    BY <1>3, <1>4, <1>6, ScopeBelow
  <2> QED
    BY <2>1, <2>2, <1>6, KeepLink
<1>10. GoodStack(stack', nest, closed, used', functions) /\ stack' \in Seq(Frame)
       /\ Len(stack') = Depth /\ stack'[Depth] = g
       /\ \A i \in 1..(Depth - 1) : stack'[i] = stack[i]
  <2>1. GoodStack(stack, nest, closed, used, functions) /\ stack \in Seq(Frame)
    BY DEF IInv, TypeOK
  <2>2. /\ \A i \in 1..Len(stack) : stack[i].block \notin closed
        /\ \A i \in 1..(Depth - 1) : stack[i].block < g.block
    BY <2>1, <1>3, <1>6 DEF GoodStack, GoodFrame
  <2>3. GoodStack(stack, nest, closed, used', functions)
    BY <1>4, <2>1, <2>2, GrowStack DEF Grown
  <2>4. Depth \in 1..Len(stack)
    BY <1>3
  <2> HIDE DEF GoodStack
  <2> QED
    BY <1>6, <1>7, <1>8, <1>9, <2>1, <2>2, <2>3, <2>4, PopStack DEF PopTo
<1>11. \A i \in 1..Depth : stack'[i].block = stack[i].block
  BY <1>3, <1>6, <1>10
<1>12. GoodStack(stack, nest, closed, used, functions)'
  <2>1. \A i \in 1..Len(stack') : stack'[i].block \in DOMAIN nest \ closed
    BY <1>10 DEF GoodStack, GoodFrame
  <2>2. \A i \in 1..Len(stack') : stack'[i].block \notin closed'
    BY <2>1, <1>1, <1>5
  <2>3. Grown(stack', nest, used', functions, nest', closed', used', functions)
    BY <2>2, <1>5 DEF Grown
  <2> HIDE DEF GoodStack
  <2> QED
    BY <1>2, <1>10, <2>3, GrowStack
<1>13. InsertionPoint'
  BY <1>2, <1>3, <1>6, <1>10 DEF InsertionPoint, Top, Depth
<1>14. Blocks'
  <2>1. {stack'[i].block : i \in 1..Len(stack')} = {stack[i].block : i \in 1..Depth}
    BY <1>10, <1>11
  <2> QED
    BY <2>1, <1>1, <1>5 DEF Blocks, Depth, IInv
<1>15. GoodOps(ops', nest', functions)
  <2>1. \A v \in Operands(Top) : v \in Value /\ v.at \in nest[ip]
    BY <1>3, OperandsGood
  <2>2. ASSUME NEW b \in {ip} \cup NewBlocks(m)
        PROVE  GoodOps(Emit(b, Operands(Top)), nest', functions)
    <3>1. b \in Nat /\ b \in DOMAIN nest' /\ \A v \in Operands(Top) : v.at \in nest'[b]
      BY <2>1, <1>3, <1>5 DEF IInv, TypeOK
    <3> QED
      BY <2>1, <3>1, EmitGood
  <2> QED
    BY <1>1, <2>2 DEF GoodOps
<1>16. ip' \in Nat /\ closed' \subseteq Nat
  BY <1>1, <1>2, <1>5 DEF IInv, TypeOK
<1> QED
  BY <1>2, <1>4, <1>5, <1>10, <1>12, <1>13, <1>14, <1>15, <1>16, SameFunctions

LEMMA CallLoweredFunctionStep == ASSUME IInv, CallLoweredFunction PROVE IInv'
<1>1. PICK f \in functions, pat \in Pattern :
          /\ ops' = EmitCall(ip, Operands(Top), f)
          /\ stack' = Replace(BindPattern(Top, pat, ip))
          /\ Reserve(pat)
  BY DEF CallLoweredFunction
<1>2. status = "running" /\ stack # <<>> /\ pat \in SUBSET Fresh
  BY DEF CallLoweredFunction, Filling, Pattern
<1>3. GoodOps(ops', nest, functions)
  <2>1. ip = Top.block /\ ip \in DOMAIN nest /\ ip \in Nat /\ f \in Fun
    BY <1>2, TopFacts DEF IInv, TypeOK
  <2>2. \A v \in Operands(Top) : v \in Value /\ v.at \in nest[ip]
    BY <1>2, <2>1, TopFacts, OperandsGood
  <2> QED
    BY <1>1, <2>1, <2>2, EmitCallGood
<1> QED
  BY <1>1, <1>2, <1>3, BindTop DEF CallLoweredFunction

LEMMA NoOps == GoodOps({}, nest, functions)
BY DEF GoodOps

LEMMA LowerAliasStep == ASSUME IInv, LowerAlias PROVE IInv'
<1>1. PICK n \in Fresh, x \in Scope(Top) :
          /\ stack' = Replace([Top EXCEPT !.lex = Alias(@, n, Top.lex[x]),
                                          !.env = Alias(@, n, Top.env[x])])
          /\ Reserve({n})
  BY DEF LowerAlias
<1>2. status = "running" /\ stack # <<>> /\ {n} \in SUBSET Fresh
  BY DEF LowerAlias, Filling
<1> DEFINE g == [Top EXCEPT !.lex = Alias(@, n, Top.lex[x]),
                            !.env = Alias(@, n, Top.env[x])]
<1>3. /\ Top \in Frame /\ Top.fun \in Fun
      /\ GoodFrame(Top, nest, closed, used, functions)
      /\ Top.kind # "function" => Depth > 1
  BY <1>2, TopFacts
<1>4. /\ used' \in [Fun -> SUBSET Name]
      /\ \A h \in functions : used[h] \subseteq used'[h]
      /\ used'[Top.fun] = used[Top.fun] \cup {n}
      /\ n \in Name /\ n \notin Scope(Top)
  BY <1>1, <1>2, <1>3, ReserveFacts
<1>5. /\ Top.lex[x] \in Value /\ Top.env[x] = Top.lex[x]
      /\ Top.lex[x].at \in nest[Top.block]
  BY <1>3, ScopeValue
<1>6. Top.lex \in Ctx /\ Top.env \in Ctx
  BY <1>3 DEF Frame
<1>7. /\ Alias(Top.lex, n, Top.lex[x]) \in Ctx
      /\ Bound(Alias(Top.lex, n, Top.lex[x])) = Scope(Top) \cup {n}
      /\ \A k \in Name : Alias(Top.lex, n, Top.lex[x])[k] =
             IF k = n THEN Top.lex[x] ELSE Top.lex[k]
  BY <1>4, <1>5, <1>6, AliasFacts DEF Scope
<1>8. /\ Alias(Top.env, n, Top.env[x]) \in Ctx
      /\ Bound(Alias(Top.env, n, Top.env[x])) = Bound(Top.env) \cup {n}
      /\ \A k \in Name : Alias(Top.env, n, Top.env[x])[k] =
             IF k = n THEN Top.lex[x] ELSE Top.env[k]
  BY <1>4, <1>5, <1>6, AliasFacts
<1>9. /\ g \in Frame
      /\ g.kind = Top.kind /\ g.fun = Top.fun /\ g.block = Top.block
      /\ g.pat = Top.pat /\ g.uses = Top.uses /\ g.saved = Top.saved
      /\ g.lex = Alias(Top.lex, n, Top.lex[x]) /\ g.env = Alias(Top.env, n, Top.env[x])
  BY <1>3, <1>7, <1>8 DEF Frame
<1>10. stack' = Replace(g)
  BY <1>1
<1> HIDE DEF g
<1>11. Scope(g) = Scope(Top) \cup {n} /\ Scope(Top) \subseteq Name
  BY <1>7, <1>9 DEF Scope, Bound
<1>12. GoodFrame(g, nest, closed, used', functions)
  BY <1>3, <1>4, <1>5, <1>7, <1>8, <1>9, <1>11 DEF GoodFrame
<1>13. \A k \in Scope(Top) : k \in Scope(g) /\ g.lex[k] = Top.lex[k]
  BY <1>4, <1>7, <1>9, <1>11
<1>14. Top.kind # "function" =>
          \A k \in Scope(Below) : k \in Scope(g) /\ g.lex[k] = Top.lex[k]
  BY <1>3, <1>13, ScopeBelow
<1>15. GoodOps(ops', nest, functions)
  BY NoOps DEF LowerAlias
<1> QED
  BY <1>2, <1>4, <1>9, <1>10, <1>12, <1>14, <1>15, TopStep DEF LowerAlias

-----------------------------------------------------------------------------
(* Operators applied in the block of a kernel.                               *)

\* The frame in which an operator is lowered: what the program has in scope
\* below the kernel, the accumulators and the element.
LEMMA OperatorFrame ==
    ASSUME IInv, Depth > 1, Top.kind # "function",
           NEW kind \in Kind, NEW accs \in SUBSET Fresh, NEW elem \in Fresh,
           NEW x \in Scope(Top),
           Reserve(accs \cup {elem})
    PROVE  LET g == EnterOperator(Top, kind, accs, elem, x)
           IN  /\ g \in Frame
               /\ g.kind = kind /\ g.fun = Top.fun /\ g.block = Top.block
               /\ g.pat = Top.pat /\ g.uses = Top.uses /\ g.saved = Top.saved
               /\ GoodFrame(g, nest, closed, used', functions)
               /\ \A k \in Scope(Below) : k \in Scope(g) /\ g.lex[k] = Top.lex[k]
<1> DEFINE g == EnterOperator(Top, kind, accs, elem, x)
           l == Bind(Below.lex, accs, ip)
           e == Bind(Top.env, accs, ip)
<1>1. /\ stack # <<>> /\ Below \in Frame
      /\ GoodFrame(Below, nest, closed, used, functions)
  BY BelowFacts
<1>2. /\ Top \in Frame /\ Top.fun \in Fun /\ ip = Top.block /\ ip \in Nat
      /\ ip \in nest[ip]
      /\ GoodFrame(Top, nest, closed, used, functions)
  BY <1>1, TopFacts DEF IInv, TypeOK
<1>3. accs \cup {elem} \in SUBSET Fresh
  OBVIOUS
<1>4. /\ used'[Top.fun] = used[Top.fun] \cup accs \cup {elem}
      /\ accs \subseteq Name /\ elem \in Name
      /\ accs \cap Scope(Top) = {} /\ elem \notin Scope(Top)
  BY <1>1, <1>3, ReserveFacts
<1>5. /\ Top.lex[x] \in Value /\ Top.env[x] = Top.lex[x]
      /\ Top.lex[x].at \in nest[Top.block]
  BY <1>2, ScopeValue
<1>6. Top.env \in Ctx /\ Below.lex \in Ctx
  BY <1>1, <1>2 DEF Frame
<1>7. /\ l \in Ctx
      /\ Bound(l) = Scope(Below) \cup accs
      /\ \A n \in Name : l[n] = IF n \in accs THEN [at |-> ip, of |-> n] ELSE Below.lex[n]
  BY <1>2, <1>4, <1>6, BindFacts DEF Scope
<1>8. /\ e \in Ctx
      /\ Bound(e) = Bound(Top.env) \cup accs
      /\ \A n \in Name : e[n] = IF n \in accs THEN [at |-> ip, of |-> n] ELSE Top.env[n]
  BY <1>2, <1>4, <1>6, BindFacts
<1> HIDE DEF l, e
<1>9. /\ Alias(l, elem, Top.lex[x]) \in Ctx
      /\ Bound(Alias(l, elem, Top.lex[x])) = Scope(Below) \cup accs \cup {elem}
      /\ \A n \in Name : Alias(l, elem, Top.lex[x])[n] =
             IF n = elem THEN Top.lex[x] ELSE l[n]
  BY <1>4, <1>5, <1>7, AliasFacts
<1>10. /\ Alias(e, elem, Top.env[x]) \in Ctx
       /\ Bound(Alias(e, elem, Top.env[x])) = Bound(Top.env) \cup accs \cup {elem}
       /\ \A n \in Name : Alias(e, elem, Top.env[x])[n] =
              IF n = elem THEN Top.lex[x] ELSE e[n]
  BY <1>4, <1>5, <1>8, AliasFacts
<1>11. /\ g \in Frame
       /\ g.kind = kind /\ g.fun = Top.fun /\ g.block = Top.block
       /\ g.pat = Top.pat /\ g.uses = Top.uses /\ g.saved = Top.saved
       /\ g.lex = Alias(l, elem, Top.lex[x]) /\ g.env = Alias(e, elem, Top.env[x])
  BY <1>2, <1>9, <1>10 DEF Frame, EnterOperator, l, e
<1> HIDE DEF g
<1>12. /\ Scope(g) = Scope(Below) \cup accs \cup {elem}
       /\ Bound(g.env) = Bound(Top.env) \cup accs \cup {elem}
  BY <1>9, <1>10, <1>11 DEF Scope
<1>13. /\ Scope(Below) \subseteq Name
       /\ \A n \in Scope(Below) :
             /\ n \in Scope(Top) /\ Top.lex[n] = Below.lex[n]
             /\ n \notin accs /\ n # elem
  BY <1>4, ScopeBelow
<1>14. \A n \in Scope(g) : g.env[n] = g.lex[n] /\ g.lex[n].at \in nest[g.block]
  <2> SUFFICES ASSUME NEW n \in Scope(g)
               PROVE  g.env[n] = g.lex[n] /\ g.lex[n].at \in nest[Top.block]
    BY <1>11
  <2>1. CASE n = elem
    BY <2>1, <1>4, <1>5, <1>9, <1>10, <1>11
  <2>2. CASE n \in accs /\ n # elem
    <3>1. g.lex[n] = [at |-> ip, of |-> n] /\ g.env[n] = [at |-> ip, of |-> n]
      BY <2>2, <1>4, <1>7, <1>8, <1>9, <1>10, <1>11
    <3> QED
      BY <3>1, <1>2
  <2>3. CASE n \in Scope(Below)
    <3>1. n \in Name /\ n # elem /\ n \notin accs /\ Top.lex[n] = Below.lex[n]
      BY <2>3, <1>13
    <3>2. g.lex[n] = Top.lex[n]
      BY <3>1, <1>7, <1>9, <1>11
    <3>3. g.env[n] = Top.env[n]
      BY <3>1, <1>8, <1>10, <1>11
    <3>4. Top.env[n] = Top.lex[n] /\ Top.lex[n].at \in nest[Top.block]
      BY <2>3, <1>2, <1>13, ScopeValue
    <3> QED
      BY <3>2, <3>3, <3>4
  <2> QED
    BY <2>1, <2>2, <2>3, <1>12
<1>15. GoodFrame(g, nest, closed, used', functions)
  <2>1. Bound(g.env) \subseteq used'[g.fun]
    BY <1>2, <1>4, <1>11, <1>12 DEF GoodFrame
  <2> QED
    BY <2>1, <1>2, <1>11, <1>14 DEF GoodFrame
<1>16. \A k \in Scope(Below) : k \in Scope(g) /\ g.lex[k] = Top.lex[k]
  BY <1>7, <1>9, <1>11, <1>12, <1>13
<1> QED
  BY <1>11, <1>15, <1>16 DEF g

LEMMA EnterReduceOpStep == ASSUME IInv, EnterReduceOp PROVE IInv'
<1>1. PICK accs \in Pattern, elem \in Fresh, x \in Scope(Top) :
          /\ stack' = Replace(EnterOperator(Top, "redop", accs, elem, x))
          /\ Reserve(accs \cup {elem})
  BY DEF EnterReduceOp
<1>2. /\ status = "running" /\ stack # <<>> /\ Top.kind = "red" /\ Depth > 1
      /\ accs \in SUBSET Fresh /\ "redop" \in Kind
  BY TopFacts DEF EnterReduceOp, Filling, Pattern, Kind
<1> DEFINE g == EnterOperator(Top, "redop", accs, elem, x)
<1>3. /\ g \in Frame
      /\ g.kind = "redop" /\ g.fun = Top.fun /\ g.block = Top.block
      /\ g.pat = Top.pat /\ g.uses = Top.uses /\ g.saved = Top.saved
      /\ GoodFrame(g, nest, closed, used', functions)
      /\ \A k \in Scope(Below) : k \in Scope(g) /\ g.lex[k] = Top.lex[k]
  BY <1>1, <1>2, OperatorFrame
<1>4. stack' = Replace(g)
  BY <1>1
<1> HIDE DEF g
<1>5. /\ used' \in [Fun -> SUBSET Name]
      /\ \A h \in functions : used[h] \subseteq used'[h]
  <2>1. accs \cup {elem} \in SUBSET Fresh
    BY <1>2
  <2> QED
    BY <1>1, <1>2, <2>1, ReserveFacts
<1>6. GoodOps(ops', nest, functions)
  BY NoOps DEF EnterReduceOp
<1> QED
  BY <1>2, <1>3, <1>4, <1>5, <1>6, TopStep DEF EnterReduceOp

LEMMA EnterPostOpStep == ASSUME IInv, EnterPostOp PROVE IInv'
<1>1. PICK n \in Fresh, x \in Scope(Top) :
          /\ stack' = Replace([Top EXCEPT !.kind = "post",
                                          !.lex = Alias(Below.lex, n, Top.lex[x]),
                                          !.env = Alias(Below.env, n, Top.env[x])])
          /\ Reserve({n})
  BY DEF EnterPostOp
<1>2. /\ status = "running" /\ stack # <<>> /\ Top.kind = "scanop" /\ Depth > 1
      /\ {n} \in SUBSET Fresh /\ "post" \in Kind
  BY TopFacts DEF EnterPostOp, Filling, Kind
<1> DEFINE g == [Top EXCEPT !.kind = "post",
                            !.lex = Alias(Below.lex, n, Top.lex[x]),
                            !.env = Alias(Below.env, n, Top.env[x])]
<1>3. /\ Below \in Frame
      /\ GoodFrame(Below, nest, closed, used, functions)
      /\ Top \in Frame /\ Top.fun \in Fun
      /\ GoodFrame(Top, nest, closed, used, functions)
  BY <1>2, BelowFacts, TopFacts
<1>4. /\ used' \in [Fun -> SUBSET Name]
      /\ \A h \in functions : used[h] \subseteq used'[h]
      /\ used'[Top.fun] = used[Top.fun] \cup {n}
      /\ n \in Name /\ n \notin Scope(Top)
  BY <1>1, <1>2, <1>3, ReserveFacts
<1>5. /\ Top.lex[x] \in Value /\ Top.env[x] = Top.lex[x]
      /\ Top.lex[x].at \in nest[Top.block]
  BY <1>3, ScopeValue
<1>6. Below.lex \in Ctx /\ Below.env \in Ctx
  BY <1>3 DEF Frame
<1>7. /\ Alias(Below.lex, n, Top.lex[x]) \in Ctx
      /\ Bound(Alias(Below.lex, n, Top.lex[x])) = Scope(Below) \cup {n}
      /\ \A k \in Name : Alias(Below.lex, n, Top.lex[x])[k] =
             IF k = n THEN Top.lex[x] ELSE Below.lex[k]
  BY <1>4, <1>5, <1>6, AliasFacts DEF Scope
<1>8. /\ Alias(Below.env, n, Top.env[x]) \in Ctx
      /\ Bound(Alias(Below.env, n, Top.env[x])) = Bound(Below.env) \cup {n}
      /\ \A k \in Name : Alias(Below.env, n, Top.env[x])[k] =
             IF k = n THEN Top.lex[x] ELSE Below.env[k]
  BY <1>4, <1>5, <1>6, AliasFacts
<1>9. /\ g \in Frame
      /\ g.kind = "post" /\ g.fun = Top.fun /\ g.block = Top.block
      /\ g.pat = Top.pat /\ g.uses = Top.uses /\ g.saved = Top.saved
      /\ g.lex = Alias(Below.lex, n, Top.lex[x]) /\ g.env = Alias(Below.env, n, Top.env[x])
  BY <1>2, <1>3, <1>7, <1>8 DEF Frame
<1>10. stack' = Replace(g)
  BY <1>1
<1> HIDE DEF g
<1>11. /\ Scope(g) = Scope(Below) \cup {n}
       /\ Bound(g.env) = Bound(Below.env) \cup {n}
  BY <1>7, <1>8, <1>9 DEF Scope
<1>12. /\ Scope(Below) \subseteq Name
       /\ Top.fun = Below.fun
       /\ nest[Below.block] \subseteq nest[Top.block]
       /\ \A k \in Scope(Below) : k # n /\ Top.lex[k] = Below.lex[k]
  BY <1>2, <1>4, ScopeBelow
<1>13. \A k \in Scope(Below) : g.lex[k] = Below.lex[k] /\ g.env[k] = Below.env[k]
  BY <1>7, <1>8, <1>9, <1>12
<1>14. GoodFrame(g, nest, closed, used', functions)
  <2>1. \A k \in Scope(g) : g.env[k] = g.lex[k] /\ g.lex[k].at \in nest[Top.block]
    <3> SUFFICES ASSUME NEW k \in Scope(g)
                 PROVE  g.env[k] = g.lex[k] /\ g.lex[k].at \in nest[Top.block]
      OBVIOUS
    <3>1. CASE k = n
      BY <3>1, <1>4, <1>5, <1>7, <1>8, <1>9
    <3>2. CASE k \in Scope(Below)
      <4>1. Below.env[k] = Below.lex[k] /\ Below.lex[k].at \in nest[Below.block]
        BY <3>2, <1>3, ScopeValue
      <4> QED
        BY <4>1, <3>2, <1>12, <1>13
    <3> QED
      BY <3>1, <3>2, <1>11
  <2>2. Bound(g.env) \subseteq used'[g.fun]
    BY <1>3, <1>4, <1>9, <1>11, <1>12 DEF GoodFrame
  <2> QED
    BY <2>1, <2>2, <1>3, <1>9 DEF GoodFrame
<1>15. \A k \in Scope(Below) : k \in Scope(g) /\ g.lex[k] = Top.lex[k]
  BY <1>11, <1>12, <1>13
<1>16. GoodOps(ops', nest, functions)
  BY NoOps DEF EnterPostOp
<1> QED
  BY <1>2, <1>4, <1>9, <1>10, <1>14, <1>15, <1>16, TopStep DEF EnterPostOp

LEMMA EnterScanOpStep == ASSUME IInv, EnterScanOp PROVE IInv'
<1>1. PICK accs \in Pattern, elem \in Fresh, x \in Scope(Top) :
          /\ stack' = Append(PopTo(Depth - 1, [Below EXCEPT !.env = Top.env]),
                             EnterOperator(Top, "scanop", accs, elem, x))
          /\ Reserve(accs \cup {elem})
  BY DEF EnterScanOp
<1>2. /\ status = "running" /\ stack # <<>> /\ Top.kind = "scan" /\ Depth > 1
      /\ accs \in SUBSET Fresh /\ "scanop" \in Kind
  BY TopFacts DEF EnterScanOp, Filling, Pattern, Kind
<1> DEFINE g == EnterOperator(Top, "scanop", accs, elem, x)
           b == [Below EXCEPT !.env = Top.env]
           t == Append(SubSeq(stack, 1, Depth - 2), b)
<1>3. /\ g \in Frame
      /\ g.kind = "scanop" /\ g.fun = Top.fun /\ g.block = Top.block
      /\ g.pat = Top.pat /\ g.uses = Top.uses /\ g.saved = Top.saved
      /\ GoodFrame(g, nest, closed, used', functions)
      /\ \A k \in Scope(Below) : k \in Scope(g) /\ g.lex[k] = Top.lex[k]
  BY <1>1, <1>2, OperatorFrame
<1> HIDE DEF g
<1>4. /\ used' \in [Fun -> SUBSET Name]
      /\ \A h \in Fun : used[h] \subseteq used'[h]
      /\ \A h \in functions : used[h] \subseteq used'[h]
  <2>1. accs \cup {elem} \in SUBSET Fresh
    BY <1>2
  <2> QED
    BY <1>1, <1>2, <2>1, ReserveFacts
<1>5. /\ stack \in Seq(Frame) /\ Len(stack) \in Nat /\ Depth = Len(stack)
      /\ GoodStack(stack, nest, closed, used, functions)
      /\ \A i, j \in 1..Len(stack) : i < j => stack[i].block < stack[j].block
      /\ nest \in Seq(SUBSET Nat) /\ closed \subseteq Nat /\ ip \in Nat
      /\ InsertionPoint /\ Blocks
  BY DEF IInv, TypeOK, Depth, GoodStack
<1>6. /\ Below \in Frame
      /\ GoodFrame(Below, nest, closed, used, functions)
      /\ GoodLink(Below, Top, nest, used)
      /\ Below.block < Top.block
      /\ Below.fun \in Fun
  BY <1>2, BelowFacts
<1>7. /\ Top \in Frame /\ Top.fun = Below.fun
      /\ GoodFrame(Top, nest, closed, used, functions)
      /\ \A n \in Scope(Below) : Top.env[n] = Below.env[n]
  BY <1>2, TopFacts, ScopeBelow
<1>8. /\ b \in Frame /\ b.kind = Below.kind /\ b.fun = Below.fun
      /\ b.block = Below.block /\ b.lex = Below.lex /\ b.env = Top.env
      /\ b.pat = Below.pat /\ b.uses = Below.uses /\ b.saved = Below.saved
      /\ Scope(b) = Scope(Below)
  BY <1>6, <1>7 DEF Frame, Scope
<1> HIDE DEF b
<1>9. GoodFrame(b, nest, closed, used', functions)
  <2>1. \A n \in Scope(b) : b.env[n] = b.lex[n] /\ b.lex[n].at \in nest[b.block]
    BY <1>6, <1>7, <1>8 DEF GoodFrame
  <2>2. Bound(b.env) \subseteq used'[b.fun]
    BY <1>4, <1>6, <1>7, <1>8 DEF GoodFrame
  <2> QED
    BY <2>1, <2>2, <1>6, <1>8 DEF GoodFrame
<1>10. \A i \in 1..Len(stack) : stack[i].block \notin closed
  <2>1. \A i \in 1..Len(stack) : GoodFrame(stack[i], nest, closed, used, functions)
    BY <1>5 DEF GoodStack
  <2> QED
    BY <2>1 DEF GoodFrame
<1>11. GoodStack(stack, nest, closed, used', functions)
  <2>1. Grown(stack, nest, used, functions, nest, closed, used', functions)
    BY <1>4, <1>10 DEF Grown
  <2> QED
    BY <2>1, <1>5, GrowStack
<1>12. /\ GoodStack(t, nest, closed, used', functions)
       /\ t \in Seq(Frame) /\ Len(t) = Depth - 1 /\ t[Depth - 1] = b
       /\ \A i \in 1..(Depth - 2) : t[i] = stack[i]
  <2>1. Depth - 1 \in 1..Len(stack) /\ (Depth - 1) - 1 = Depth - 2
    BY <1>2, <1>5
  <2>2. Depth - 1 = 1 => GoodBase(b)
    BY <1>2, <1>5, <1>8 DEF GoodStack, GoodBase, Below
  <2>3. Depth - 1 > 1 => GoodLink(stack[(Depth - 1) - 1], b, nest, used')
    <3> SUFFICES ASSUME Depth - 1 > 1
                 PROVE  GoodLink(stack[Depth - 2], b, nest, used')
      BY <2>1
    <3>1. GoodLink(stack[Depth - 2], Below, nest, used')
      BY <1>2, <1>5, <1>11 DEF GoodStack, Below
    <3> QED
      BY <3>1, <1>8 DEF GoodLink
  <2>4. \A i \in 1..((Depth - 1) - 1) : stack[i].block < b.block
    BY <1>2, <1>5, <1>8 DEF Below
  <2>5. t = Append(SubSeq(stack, 1, (Depth - 1) - 1), b)
    BY <2>1
  <2> DEFINE d == Depth - 1
  <2>6. d \in 1..Len(stack) /\ t = Append(SubSeq(stack, 1, d - 1), b)
    BY <2>1, <2>5
  <2>7. /\ d = 1 => GoodBase(b)
        /\ d > 1 => GoodLink(stack[d - 1], b, nest, used')
        /\ \A i \in 1..(d - 1) : stack[i].block < b.block
    BY <2>2, <2>3, <2>4
  <2> HIDE DEF t, d
  <2>8. /\ GoodStack(t, nest, closed, used', functions)
        /\ t \in Seq(Frame) /\ Len(t) = d /\ t[d] = b
        /\ \A i \in 1..(d - 1) : t[i] = stack[i]
    BY <2>6, <2>7, <1>5, <1>8, <1>9, <1>11, PopStack
  <2> QED
    BY <2>1, <2>8 DEF d
<1>13. stack' = Append(t, g)
  BY <1>1, <1>2, <1>5 DEF PopTo, g, b
<1> HIDE DEF t
<1>14. GoodLink(b, g, nest, used')
  <2>1. GoodLink(Below, g, nest, used')
    BY <1>2, <1>3, <1>4, <1>6, KeepLink
  <2> QED
    BY <2>1, <1>8 DEF GoodLink
<1>15. GoodStack(stack', nest, closed, used', functions)
  <2>1. \A i \in 1..Len(t) : t[i].block < g.block
    <3> SUFFICES ASSUME NEW i \in 1..Len(t)
                 PROVE  t[i].block < g.block
      OBVIOUS
    <3>1. CASE i = Depth - 1
      BY <3>1, <1>3, <1>6, <1>8, <1>12
    <3>2. CASE i # Depth - 1
      <4>1. i \in 1..(Depth - 2) /\ i \in 1..Len(stack) /\ Depth \in 1..Len(stack) /\ i < Depth
        BY <3>2, <1>2, <1>5, <1>12
      <4> QED
        BY <4>1, <1>3, <1>5, <1>12 DEF Top
    <3> QED
      BY <3>1, <3>2
  <2>2. t # <<>> /\ t[Len(t)] = b
    BY <1>2, <1>5, <1>12
  <2> QED
    BY <2>1, <2>2, <1>3, <1>12, <1>13, <1>14, PushStack
<1>16. /\ stack' \in Seq(Frame) /\ Len(stack') = Len(stack)
       /\ stack'[Len(stack)] = g
       /\ \A i \in 1..Len(stack) : stack'[i].block = stack[i].block
  <2>1. stack' \in Seq(Frame) /\ Len(stack') = Len(stack) /\ stack'[Len(stack)] = g
    BY <1>2, <1>3, <1>5, <1>12, <1>13
  <2>2. ASSUME NEW i \in 1..Len(stack) PROVE stack'[i].block = stack[i].block
    <3>1. CASE i = Depth
      BY <3>1, <2>1, <1>3, <1>5 DEF Top
    <3>2. CASE i = Depth - 1
      BY <3>2, <1>2, <1>3, <1>5, <1>8, <1>12, <1>13 DEF Below
    <3>3. CASE i \in 1..(Depth - 2)
      BY <3>3, <1>2, <1>3, <1>5, <1>12, <1>13
    <3> QED
      BY <3>1, <3>2, <3>3, <1>2, <1>5
  <2> QED
    BY <2>1, <2>2
<1>17. UNCHANGED <<todo, functions, module, nest, closed, ip, status>>
  BY DEF EnterScanOp
<1>18. InsertionPoint'
  BY <1>2, <1>3, <1>5, <1>16, <1>17 DEF InsertionPoint, Top, Depth
<1>19. Blocks'
  <2>1. {stack'[i].block : i \in 1..Len(stack')} = {stack[i].block : i \in 1..Len(stack)}
    BY <1>16
  <2> QED
    BY <2>1, <1>5, <1>17 DEF Blocks, Depth
<1>20. GoodOps(ops', nest', functions)
  BY <1>17, NoOps DEF EnterScanOp
<1>21. GoodStack(stack, nest, closed, used, functions)'
  BY <1>15, <1>17
<1> QED
  BY <1>2, <1>4, <1>5, <1>16, <1>17, <1>18, <1>19, <1>20, <1>21, SameFunctions

-----------------------------------------------------------------------------
(* Regions.                                                                  *)

\* Appending a block that may use what the block p may.
LEMMA NestFacts ==
    ASSUME IInv, NEW p \in 1..Len(nest), nest' = NestedBlock(p)
    PROVE  /\ nest' = Append(nest, nest[p] \cup {NewBlock})
           /\ nest[p] \cup {NewBlock} \in SUBSET Nat
           /\ nest' \in Seq(SUBSET Nat)
           /\ NewBlock \in Nat /\ NewBlock \notin closed /\ NewBlock \in DOMAIN nest'
           /\ NewBlock \notin DOMAIN nest
           /\ nest'[NewBlock] = nest[p] \cup {NewBlock}
           /\ \A b \in DOMAIN nest : nest'[b] = nest[b] /\ b \in DOMAIN nest'
<1>1. /\ nest \in Seq(SUBSET Nat) /\ NewBlock = Len(nest) + 1
      /\ Len(nest) \in Nat /\ DOMAIN nest = 1..Len(nest)
      /\ closed \subseteq DOMAIN nest
  <2>1. nest \in Seq(SUBSET Nat)
    BY DEF IInv, TypeOK
  <2>2. closed \subseteq DOMAIN nest
    BY DEF IInv, Blocks
  <2> QED
    BY <2>1, <2>2 DEF NewBlock
<1>2. nest' = Append(nest, nest[p] \cup {NewBlock})
  BY DEF NestedBlock
<1> QED
  BY <1>1, <1>2

\* A region begins.
LEMMA OpenStep ==
    ASSUME IInv, status = "running", stack # <<>>,
           NEW kind \in Kind, kind # "function",
           Top.kind = "forall" <=> kind \in {"scan", "scanop", "post"},
           NEW pat \in SUBSET Fresh, NEW params \in SUBSET Fresh,
           NEW uses, \A v \in uses : v \in Value /\ v.at \in nest[Top.block],
           Open(kind, pat, uses, params)
    PROVE  IInv'
<1> DEFINE f == [kind |-> kind, fun |-> Top.fun, block |-> NewBlock,
                 lex |-> Bind(Top.lex, params, NewBlock),
                 env |-> Bind(Top.env, params, NewBlock),
                 pat |-> pat, uses |-> uses, saved |-> ip]
<1>1. /\ pat \cap params = {} /\ nest' = NestedBlock(ip) /\ ip' = NewBlock
      /\ stack' = Append(stack, f) /\ Reserve(pat \cup params) /\ ops' = {}
      /\ UNCHANGED <<todo, functions, module, closed, status>>
  BY DEF Open
<1>2. /\ Top \in Frame /\ Top.fun \in Fun /\ Top.fun \in functions
      /\ ip = Top.block /\ ip \in 1..Len(nest) /\ ip \in Nat
      /\ GoodFrame(Top, nest, closed, used, functions)
  BY TopFacts DEF IInv, TypeOK
<1>3. /\ used' \in [Fun -> SUBSET Name]
      /\ \A h \in functions : used[h] \subseteq used'[h]
      /\ pat \subseteq Name /\ params \subseteq Name
      /\ used'[Top.fun] = used[Top.fun] \cup pat \cup params
      /\ pat \cap Scope(Top) = {} /\ params \cap Scope(Top) = {}
  <2>1. pat \cup params \in SUBSET Fresh
    OBVIOUS
  <2> QED
    BY <1>1, <2>1, ReserveFacts
<1>4. /\ nest' = Append(nest, nest[ip] \cup {NewBlock})
      /\ nest[ip] \cup {NewBlock} \in SUBSET Nat
      /\ nest' \in Seq(SUBSET Nat)
      /\ NewBlock \in Nat /\ NewBlock \notin closed /\ NewBlock \in DOMAIN nest'
      /\ nest'[NewBlock] = nest[ip] \cup {NewBlock}
      /\ nest'[ip] = nest[ip]
  <2>1. ip \in DOMAIN nest
    BY <1>2, TopFacts DEF GoodFrame
  <2> QED
    BY <1>1, <1>2, <2>1, NestFacts
<1>5. Top.lex \in Ctx /\ Top.env \in Ctx
  BY <1>2 DEF Frame
<1>6. /\ Bind(Top.lex, params, NewBlock) \in Ctx
      /\ Bound(Bind(Top.lex, params, NewBlock)) = Scope(Top) \cup params
      /\ \A n \in Name : Bind(Top.lex, params, NewBlock)[n] =
             IF n \in params THEN [at |-> NewBlock, of |-> n] ELSE Top.lex[n]
  BY <1>3, <1>4, <1>5, BindFacts DEF Scope
<1>7. /\ Bind(Top.env, params, NewBlock) \in Ctx
      /\ Bound(Bind(Top.env, params, NewBlock)) = Bound(Top.env) \cup params
      /\ \A n \in Name : Bind(Top.env, params, NewBlock)[n] =
             IF n \in params THEN [at |-> NewBlock, of |-> n] ELSE Top.env[n]
  BY <1>3, <1>4, <1>5, BindFacts
<1>8. /\ f \in Frame
      /\ f.kind = kind /\ f.fun = Top.fun /\ f.block = NewBlock
      /\ f.pat = pat /\ f.uses = uses /\ f.saved = ip
      /\ f.lex = Bind(Top.lex, params, NewBlock)
      /\ f.env = Bind(Top.env, params, NewBlock)
  <2>1. uses \in SUBSET Value /\ pat \in SUBSET Name
    BY <1>3
  <2> QED
    BY <2>1, <1>2, <1>4, <1>6, <1>7 DEF Frame
<1> HIDE DEF f
<1>9. /\ Scope(f) = Scope(Top) \cup params
      /\ Scope(Top) \subseteq Name
      /\ Bound(f.env) = Bound(Top.env) \cup params
  BY <1>6, <1>7, <1>8 DEF Scope, Bound
<1>10. \A n \in Scope(Top) : n \in Scope(f) /\ f.lex[n] = Top.lex[n] /\ f.env[n] = Top.env[n]
  BY <1>3, <1>6, <1>7, <1>8, <1>9
<1>11. GoodFrame(f, nest', closed', used', functions')
  <2>1. \A n \in Scope(f) : f.env[n] = f.lex[n] /\ f.lex[n].at \in nest'[NewBlock]
    <3> SUFFICES ASSUME NEW n \in Scope(f)
                 PROVE  f.env[n] = f.lex[n] /\ f.lex[n].at \in nest'[NewBlock]
      OBVIOUS
    <3>1. CASE n \in params
      <4>1. f.lex[n] = [at |-> NewBlock, of |-> n] /\ f.env[n] = [at |-> NewBlock, of |-> n]
        BY <3>1, <1>3, <1>6, <1>7, <1>8
      <4> QED
        BY <4>1, <1>4
    <3>2. CASE n \in Scope(Top)
      <4>1. Top.env[n] = Top.lex[n] /\ Top.lex[n].at \in nest[Top.block]
        BY <3>2, <1>2, ScopeValue
      <4> QED
        BY <4>1, <3>2, <1>2, <1>4, <1>10
    <3> QED
      BY <3>1, <3>2, <1>9
  <2>2. Bound(f.env) \subseteq used'[f.fun]
    BY <1>2, <1>3, <1>8, <1>9 DEF GoodFrame
  <2> QED
    BY <2>1, <2>2, <1>1, <1>2, <1>4, <1>8 DEF GoodFrame
<1>12. GoodLink(Top, f, nest', used')
  <2>1. pat \subseteq used'[Top.fun] \ Scope(Top)
    BY <1>3
  <2>2. \A v \in uses : v.at \in nest'[Top.block]
    BY <1>2, <1>4
  <2>3. nest'[Top.block] \subseteq nest'[NewBlock]
    BY <1>2, <1>4
  <2> QED
    BY <2>1, <2>2, <2>3, <1>2, <1>8, <1>10 DEF GoodLink
<1>13. /\ stack' \in Seq(Frame) /\ nest' \in Seq(SUBSET Nat) /\ ip' \in Nat
       /\ GoodStack(stack, nest, closed, used, functions)'
       /\ InsertionPoint'
       /\ Blocks'
  <2>1. functions \subseteq functions'
    BY <1>1
  <2> QED
    BY <2>1, <1>1, <1>3, <1>4, <1>8, <1>11, <1>12, PushStep
<1>14. closed' \subseteq Nat /\ GoodOps(ops', nest', functions)
  BY <1>1 DEF IInv, TypeOK, GoodOps
<1> QED
  BY <1>1, <1>3, <1>13, <1>14, SameFunctions

LEMMA OpenIfStep == ASSUME IInv, OpenIf PROVE IInv'
<1>1. PICK pat \in Pattern : Open("then", pat, Operands(Top), {})
  BY DEF OpenIf
<1>2. /\ status = "running" /\ stack # <<>> /\ Top.kind # "forall"
      /\ pat \in SUBSET Fresh /\ "then" \in Kind /\ {} \in SUBSET Fresh
  BY DEF OpenIf, Filling, Body, Pattern, Kind
<1>3. \A v \in Operands(Top) : v \in Value /\ v.at \in nest[Top.block]
  BY <1>2, TopFacts, OperandsGood
<1> QED
  BY <1>1, <1>2, <1>3, OpenStep

LEMMA OpenLoopStep == ASSUME IInv, OpenLoop PROVE IInv'
<1>1. PICK pat \in Pattern, params \in Pattern : Open("loop", pat, Operands(Top), params)
  BY DEF OpenLoop
<1>2. /\ status = "running" /\ stack # <<>> /\ Top.kind # "forall"
      /\ pat \in SUBSET Fresh /\ params \in SUBSET Fresh /\ "loop" \in Kind
  BY DEF OpenLoop, Filling, Body, Pattern, Kind
<1>3. \A v \in Operands(Top) : v \in Value /\ v.at \in nest[Top.block]
  BY <1>2, TopFacts, OperandsGood
<1> QED
  BY <1>1, <1>2, <1>3, OpenStep

LEMMA OpenKernelStep == ASSUME IInv, OpenKernel PROVE IInv'
<1> DEFINE arrays == Bound(Top.env) \cap (Scope(Top) \cup Fresh)
<1>1. PICK kind \in {"map", "red", "hist"}, pat \in Pattern, params \in Pattern :
          Open(kind, pat, LookUp(Top, arrays), params)
  BY DEF OpenKernel
<1>2. /\ status = "running" /\ stack # <<>> /\ Top.kind # "forall"
      /\ pat \in SUBSET Fresh /\ params \in SUBSET Fresh /\ kind \in Kind
  BY DEF OpenKernel, Filling, Body, Pattern, Kind
<1>3. /\ Top \in Frame
      /\ GoodFrame(Top, nest, closed, used, functions)
  BY <1>2, TopFacts
<1>4. arrays \subseteq Scope(Top)
  BY <1>3 DEF GoodFrame, Fresh
<1> HIDE DEF arrays
<1>5. \A v \in LookUp(Top, arrays) : v \in Value /\ v.at \in nest[Top.block]
  BY <1>3, <1>4, ScopeValue DEF LookUp
<1> QED
  BY <1>1, <1>2, <1>5, OpenStep

LEMMA OpenForallStep == ASSUME IInv, OpenForall PROVE IInv'
<1>1. PICK pat \in Pattern, ids \in Pattern \cup {{}} :
          Open("forall", pat, Operands(Top), ids)
  BY DEF OpenForall
<1>2. /\ status = "running" /\ stack # <<>> /\ Top.kind # "forall"
      /\ pat \in SUBSET Fresh /\ ids \in SUBSET Fresh /\ "forall" \in Kind
  BY DEF OpenForall, Filling, Body, Pattern, Kind
<1>3. \A v \in Operands(Top) : v \in Value /\ v.at \in nest[Top.block]
  BY <1>2, TopFacts, OperandsGood
<1> QED
  BY <1>1, <1>2, <1>3, OpenStep

LEMMA OpenScanStep == ASSUME IInv, OpenScan PROVE IInv'
<1>1. PICK id \in Fresh : Open("scan", {}, Top.uses, {id})
  BY DEF OpenScan
<1>2. /\ status = "running" /\ stack # <<>> /\ Top.kind = "forall" /\ Depth > 1
      /\ {id} \in SUBSET Fresh /\ {} \in SUBSET Fresh /\ "scan" \in Kind
  BY TopFacts DEF OpenScan, Filling, Kind
<1>3. \A v \in Top.uses : v \in Value /\ v.at \in nest[Top.block]
  <2>1. Top \in Frame /\ GoodLink(Below, Top, nest, used)
    BY <1>2, TopFacts, BelowFacts
  <2>2. nest[Below.block] \subseteq nest[Top.block]
    BY <1>2, ScopeBelow
  <2> QED
    BY <2>1, <2>2 DEF GoodLink, Frame
<1> QED
  BY <1>1, <1>2, <1>3, OpenStep

\* A frame resumes at depth d, its statement's pattern bound in it: the frames
\* above it return, and env is what has become of its environment.
LEMMA ReturnStep ==
    ASSUME IInv, status = "running",
           NEW d \in 1..Depth, d < Depth,
           NEW env \in Ctx,
           \A n \in Scope(stack[d]) : env[n] = stack[d].env[n],
           Bound(env) \subseteq used[stack[d].fun],
           NEW pat, pat = stack[d + 1].pat,
           stack' = PopTo(d, BindPattern([stack[d] EXCEPT !.env = env], pat, stack[d].block)),
           ip' = stack[d].block,
           closed' = closed \cup {stack[i].block : i \in (d + 1)..Depth},
           UNCHANGED <<todo, functions, module, nest, used, status>>,
           GoodOps(ops', nest, functions)
    PROVE  IInv'
<1> DEFINE p == stack[d]
           q == [p EXCEPT !.env = env]
           g == BindPattern(q, pat, p.block)
<1>1. /\ stack \in Seq(Frame) /\ Depth = Len(stack) /\ Len(stack) \in Nat
      /\ GoodStack(stack, nest, closed, used, functions)
      /\ nest \in Seq(SUBSET Nat) /\ used \in [Fun -> SUBSET Name]
  BY DEF IInv, TypeOK, Depth
<1>2. /\ p \in Frame
      /\ GoodFrame(p, nest, closed, used, functions)
      /\ GoodLink(p, stack[d + 1], nest, used)
      /\ stack[d + 1] \in Frame
  <2>1. d \in 1..Len(stack) /\ d + 1 \in 2..Len(stack) /\ d + 1 \in 1..Len(stack)
    BY <1>1
  <2>2. \A i \in 2..Len(stack) : GoodLink(stack[i - 1], stack[i], nest, used)
    BY <1>1 DEF GoodStack
  <2>3. (d + 1) - 1 = d
    BY <1>1
  <2> QED
    BY <2>1, <2>2, <2>3, <1>1 DEF GoodStack
<1>3. pat \in SUBSET Name /\ pat \subseteq used[p.fun] /\ pat \cap Scope(p) = {}
  BY <1>2 DEF Frame, GoodLink
<1>4. /\ q \in Frame
      /\ q.kind = p.kind /\ q.fun = p.fun /\ q.block = p.block
      /\ q.lex = p.lex /\ q.env = env
      /\ q.pat = p.pat /\ q.uses = p.uses /\ q.saved = p.saved
      /\ Scope(q) = Scope(p)
  BY <1>2 DEF Frame, Scope
<1>5. GoodFrame(q, nest, closed, used, functions)
  <2> HIDE DEF p, q
  <2>1. \A n \in Scope(p) : env[n] = p.env[n]
    BY DEF p
  <2>2. Bound(env) \subseteq used[p.fun]
    BY DEF p
  <2> QED
    BY <2>1, <2>2, <1>2, <1>4 DEF GoodFrame
<1> HIDE DEF q, p
<1>6. /\ g \in Frame
      /\ GoodFrame(g, nest, closed, used, functions)
      /\ g.kind = q.kind /\ g.fun = q.fun /\ g.block = q.block
      /\ g.pat = q.pat /\ g.uses = q.uses /\ g.saved = q.saved
      /\ Scope(g) = Scope(q) \cup pat
      /\ \A n \in Scope(q) \ pat : g.lex[n] = q.lex[n]
  <2>1. p.block = q.block /\ pat \subseteq used[q.fun]
    BY <1>3, <1>4
  <2>2. g = BindPattern(q, pat, q.block)
    BY <2>1
  <2> DEFINE h == BindPattern(q, pat, q.block)
  <2>3. /\ h \in Frame
        /\ GoodFrame(h, nest, closed, used, functions)
        /\ h.kind = q.kind /\ h.fun = q.fun /\ h.block = q.block
        /\ h.pat = q.pat /\ h.uses = q.uses /\ h.saved = q.saved
        /\ Scope(h) = Scope(q) \cup pat
        /\ \A n \in Scope(q) \ pat : h.lex[n] = q.lex[n]
    BY ONLY <2>1, <1>3, <1>4, <1>5, BindFrame
  <2>4. g = h
    BY <2>2
  <2> HIDE DEF g, h
  <2> QED
    BY <2>3, <2>4
<1>7. stack' = PopTo(d, g)
  BY DEF g, q, p
<1> HIDE DEF g
<1>8. d = 1 => GoodBase(g)
  BY <1>1, <1>4, <1>6 DEF GoodStack, GoodBase, p
<1>9. d > 1 => GoodLink(stack[d - 1], g, nest, used)
  <2> SUFFICES ASSUME d > 1
               PROVE  GoodLink(stack[d - 1], g, nest, used)
    OBVIOUS
  <2>1. GoodLink(stack[d - 1], p, nest, used)
    <3>1. d \in 2..Len(stack)
      BY <1>1
    <3> QED
      BY <3>1, <1>1 DEF GoodStack, p
  <2>2. p.kind # "function" =>
            \A n \in Scope(stack[d - 1]) : n \in Scope(g) /\ g.lex[n] = p.lex[n]
    BY <2>1, <1>3, <1>4, <1>6 DEF GoodLink
  <2> QED
    BY <2>1, <2>2, <1>4, <1>6, KeepLink
<1>10. used' = used /\ nest' = nest /\ functions' = functions /\ ip' = g.block
       /\ g.block = stack[d].block
  BY <1>4, <1>6 DEF p
<1>11. /\ stack' \in Seq(Frame) /\ ip' \in Nat /\ closed' \subseteq Nat
       /\ GoodStack(stack, nest, closed, used, functions)'
       /\ InsertionPoint'
       /\ Blocks'
  <2>1. UNCHANGED <<nest, functions>>
    OBVIOUS
  <2>2. used' \in [Fun -> SUBSET Name] /\ \A h \in functions : used[h] \subseteq used'[h]
    BY <1>1, <1>10
  <2>3. GoodFrame(g, nest, closed, used', functions)
    BY <1>6, <1>10
  <2>4. d > 1 => GoodLink(stack[d - 1], g, nest, used')
    BY <1>9, <1>10
  <2> QED
    BY <2>1, <2>2, <2>3, <2>4, <1>6, <1>7, <1>8, <1>10, PopStep
<1>12. /\ nest' \in Seq(SUBSET Nat) /\ used' \in [Fun -> SUBSET Name]
       /\ GoodOps(ops', nest', functions)
  BY <1>1, <1>10
<1> QED
  BY <1>11, <1>12, SameFunctions

\* The union of two good sets of operations is one.
LEMMA OpsUnion ==
    ASSUME NEW nst, NEW fs, NEW os1, NEW os2, GoodOps(os1, nst, fs), GoodOps(os2, nst, fs)
    PROVE  GoodOps(os1 \cup os2, nst, fs)
BY DEF GoodOps

\* The terminator of the innermost region, and the operation it belongs to.
LEMMA CloseOps ==
    ASSUME IInv, Depth > 1
    PROVE  /\ GoodOps(Emit(ip, Operands(Top)), nest, functions)
           /\ GoodOps(Emit(Top.saved, Top.uses), nest, functions)
<1>1. /\ stack # <<>> /\ Below.block \in 1..Len(nest) /\ Top.saved = Below.block
      /\ GoodLink(Below, Top, nest, used)
  BY BelowFacts
<1>2. /\ Top \in Frame /\ ip = Top.block /\ ip \in 1..Len(nest)
      /\ GoodFrame(Top, nest, closed, used, functions)
  BY <1>1, TopFacts
<1>3. /\ DOMAIN nest = 1..Len(nest) /\ ip \in Nat /\ Top.saved \in Nat
  BY <1>1 DEF IInv, TypeOK
<1>4. GoodOps(Emit(ip, Operands(Top)), nest, functions)
  BY <1>2, <1>3, OperandsGood, EmitGood
<1>5. \A v \in Top.uses : v \in Value /\ v.at \in nest[Top.saved]
  BY <1>1, <1>2 DEF GoodLink, Frame
<1>6. GoodOps(Emit(Top.saved, Top.uses), nest, functions)
  BY <1>1, <1>3, <1>5, EmitGood
<1> QED
  BY <1>4, <1>6

\* The innermost region ends.
LEMMA CloseStep ==
    ASSUME IInv, status = "running", Depth > 1,
           NEW env \in Ctx,
           \A n \in Scope(Below) : env[n] = Below.env[n],
           Bound(env) \subseteq used[Below.fun],
           Close(env)
    PROVE  IInv'
<1> DEFINE d == Depth - 1
<1>1. /\ Depth \in Nat /\ d \in 1..Depth /\ d < Depth /\ d + 1 = Depth
      /\ Below = stack[d] /\ Top = stack[d + 1]
      /\ Top.saved = Below.block /\ ip = Top.block
  BY BelowFacts, TopFacts DEF Below, Top
<1>2. (d + 1)..Depth = {Depth}
  BY <1>1
<1>3. closed' = closed \cup {stack[i].block : i \in (d + 1)..Depth}
  BY <1>1, <1>2 DEF Close
<1>4. /\ stack' = PopTo(d, BindPattern([stack[d] EXCEPT !.env = env], Top.pat, stack[d].block))
      /\ ip' = stack[d].block
      /\ UNCHANGED <<todo, functions, module, nest, used, status>>
  BY <1>1 DEF Close
<1>5. GoodOps(ops', nest, functions)
  BY CloseOps, OpsUnion DEF Close
<1>6. Top.pat = stack[d + 1].pat
  BY <1>1
<1> HIDE DEF d
<1>7. /\ \A n \in Scope(stack[d]) : env[n] = stack[d].env[n]
      /\ Bound(env) \subseteq used[stack[d].fun]
  BY <1>1
<1> QED
  BY <1>1, <1>3, <1>4, <1>5, <1>6, <1>7, ReturnStep

\* A region lowered in a copy of the environment ends.
LEMMA CloseCopy ==
    ASSUME IInv, status = "running", stack # <<>>, Top.kind # "function", Close(Below.env)
    PROVE  IInv'
<1>1. Depth > 1
  BY TopFacts
<1>2. Below \in Frame /\ GoodFrame(Below, nest, closed, used, functions)
  BY <1>1, BelowFacts
<1>3. Below.env \in Ctx /\ Bound(Below.env) \subseteq used[Below.fun]
  BY <1>2 DEF Frame, GoodFrame
<1> QED
  BY <1>1, <1>3, CloseStep

LEMMA CloseIfStep == ASSUME IInv, CloseIf PROVE IInv'
<1>1. status = "running" /\ stack # <<>> /\ Top.kind = "else" /\ Close(Top.env)
  BY DEF CloseIf, Filling
<1>2. /\ Depth > 1 /\ Top \in Frame
      /\ GoodFrame(Top, nest, closed, used, functions)
  BY <1>1, TopFacts
<1>3. Top.fun = Below.fun /\ \A n \in Scope(Below) : Top.env[n] = Below.env[n]
  BY <1>1, <1>2, ScopeBelow
<1>4. Top.env \in Ctx /\ Bound(Top.env) \subseteq used[Below.fun]
  BY <1>2, <1>3 DEF Frame, GoodFrame
<1> QED
  BY <1>1, <1>2, <1>3, <1>4, CloseStep

LEMMA CloseOtherStep ==
    ASSUME IInv, CloseLoop \/ CloseMap \/ CloseHist \/ CloseRed
    PROVE  IInv'
BY CloseCopy DEF CloseLoop, CloseMap, CloseHist, CloseRed, Filling

LEMMA CloseScanStep == ASSUME IInv, CloseScan PROVE IInv'
<1> DEFINE d == Depth - 2
<1>1. /\ status = "running" /\ stack # <<>> /\ Top.kind = "post" /\ Depth > 1
  BY TopFacts DEF CloseScan, Filling
<1>2. /\ stack \in Seq(Frame) /\ Depth = Len(stack) /\ Len(stack) \in Nat
      /\ GoodStack(stack, nest, closed, used, functions)
      /\ \A i \in 1..Len(stack) : GoodFrame(stack[i], nest, closed, used, functions)
      /\ \A i \in 2..Len(stack) : GoodLink(stack[i - 1], stack[i], nest, used)
  <2>1. stack \in Seq(Frame) /\ GoodStack(stack, nest, closed, used, functions)
    BY DEF IInv, TypeOK
  <2>2. /\ \A i \in 1..Len(stack) : GoodFrame(stack[i], nest, closed, used, functions)
        /\ \A i \in 2..Len(stack) : GoodLink(stack[i - 1], stack[i], nest, used)
    BY <2>1 DEF GoodStack
  <2> QED
    BY <2>1, <2>2 DEF Depth
<1>3. Below.kind = "forall" /\ Top.saved = Below.block /\ Below \in Frame
  BY <1>1, BelowFacts DEF GoodLink
<1>4. Depth > 2
  <2>1. Below = stack[Depth - 1]
    BY DEF Below
  <2>2. stack[1].kind = "function"
    BY <1>1, <1>2 DEF GoodStack, GoodBase
  <2> QED
    BY <2>1, <2>2, <1>1, <1>2, <1>3
<1>5. /\ d \in 1..Depth /\ d < Depth /\ d + 1 = Depth - 1 /\ d + 1 \in 2..Len(stack)
      /\ (d + 1) - 1 = d /\ (d + 1)..Depth = {Depth - 1, Depth}
  BY <1>2, <1>4
<1>6. /\ Below = stack[d + 1] /\ stack[d] \in Frame
      /\ GoodLink(stack[d], Below, nest, used)
      /\ GoodFrame(stack[d], nest, closed, used, functions)
      /\ Below.saved = stack[d].block
  <2>1. d \in 1..Len(stack)
    BY <1>2, <1>5
  <2>2. Below = stack[d + 1]
    BY <1>5 DEF Below
  <2>3. GoodLink(stack[d], Below, nest, used)
    BY <2>2, <1>2, <1>5
  <2> HIDE DEF d
  <2> QED
    BY <2>1, <2>2, <2>3, <1>2 DEF GoodLink
<1>7. ip = stack[Depth].block /\ Top.saved = stack[Depth - 1].block
  BY <1>1, <1>3, TopFacts DEF Top, Below
<1>8. closed' = closed \cup {stack[i].block : i \in (d + 1)..Depth}
  BY <1>5, <1>7 DEF CloseScan
<1>9. /\ stack' = PopTo(d, BindPattern(stack[d], Below.pat, stack[d].block))
      /\ ip' = stack[d].block
      /\ UNCHANGED <<todo, functions, module, nest, used, status>>
  BY <1>6 DEF CloseScan
<1>10. GoodOps(ops', nest, functions)
  <2>1. GoodOps(Emit(ip, Operands(Top)), nest, functions)
        /\ GoodOps(Emit(Top.saved, Top.uses), nest, functions)
    BY <1>1, CloseOps
  <2>2. \A v \in Below.uses : v \in Value /\ v.at \in nest[Below.saved]
    BY <1>3, <1>6 DEF GoodLink, Frame
  <2>3. Below.saved \in DOMAIN nest /\ Below.saved \in Nat
    BY <1>6 DEF GoodFrame, Frame
  <2>4. GoodOps(Emit(Below.saved, Below.uses), nest, functions)
    BY <2>2, <2>3, EmitGood
  <2> QED
    BY <2>1, <2>4, OpsUnion DEF CloseScan
<1> HIDE DEF d
<1>11. /\ stack[d].env \in Ctx
       /\ Bound(stack[d].env) \subseteq used[stack[d].fun]
       /\ [stack[d] EXCEPT !.env = stack[d].env] = stack[d]
  BY <1>6 DEF Frame, GoodFrame
<1>12. stack' = PopTo(d, BindPattern([stack[d] EXCEPT !.env = stack[d].env],
                                     Below.pat, stack[d].block))
  BY <1>9, <1>11
<1>13. Below.pat = stack[d + 1].pat
  BY <1>6
<1> QED
  BY <1>1, <1>5, <1>8, <1>9, <1>10, <1>11, <1>12, <1>13, ReturnStep

\* The next region of a statement begins, in a block that may use what the
\* block below may.
LEMMA OpenNextStep ==
    ASSUME IInv, status = "running", Depth > 1, Top.kind # "function",
           NEW frame \in Frame, OpenNext(frame),
           frame.kind \notin {"function", "scan", "scanop", "post"},
           Top.kind \notin {"scan", "scanop", "post"},
           frame.fun = Top.fun, frame.block = NewBlock,
           frame.pat = Top.pat, frame.saved = Top.saved,
           \A v \in frame.uses : v.at \in nest[Below.block],
           \A n \in Scope(Below) : n \in Scope(frame) /\ frame.lex[n] = Below.lex[n],
           \A n \in Scope(frame) : /\ frame.env[n] = frame.lex[n]
                                   /\ frame.lex[n].at \in nest[Below.block] \cup {NewBlock},
           used' \in [Fun -> SUBSET Name],
           \A h \in functions : used[h] \subseteq used'[h],
           Bound(frame.env) \subseteq used'[Top.fun],
           GoodOps(ops', nest, functions)
    PROVE  IInv'
<1>1. /\ stack # <<>> /\ Below \in Frame /\ Below.block \in 1..Len(nest)
      /\ Top.saved = Below.block
      /\ GoodLink(Below, Top, nest, used)
      /\ GoodFrame(Below, nest, closed, used, functions)
  BY BelowFacts
<1>2. /\ Top \in Frame /\ ip = Top.block /\ Top.fun \in functions /\ ip \in 1..Len(nest)
  BY <1>1, TopFacts
<1>3. /\ nest' = Append(nest, nest[Below.block] \cup {NewBlock})
      /\ nest[Below.block] \cup {NewBlock} \in SUBSET Nat
      /\ nest' \in Seq(SUBSET Nat)
      /\ NewBlock \in Nat /\ NewBlock \notin closed /\ NewBlock \in DOMAIN nest'
      /\ NewBlock \notin DOMAIN nest
      /\ nest'[NewBlock] = nest[Below.block] \cup {NewBlock}
      /\ \A b \in DOMAIN nest : nest'[b] = nest[b] /\ b \in DOMAIN nest'
  BY <1>1, NestFacts DEF OpenNext
<1>4. /\ closed' = closed \cup {ip} /\ ip' = NewBlock /\ stack' = Replace(frame)
      /\ UNCHANGED <<todo, functions, module, status>>
  BY DEF OpenNext
<1>5. ip \in DOMAIN nest /\ Below.block \in DOMAIN nest
  BY <1>1, <1>2 DEF IInv, TypeOK
<1>6. GoodFrame(frame, nest', closed', used', functions)
  <2>1. NewBlock \notin closed'
    BY <1>3, <1>4, <1>5
  <2> QED
    BY <2>1, <1>2, <1>3 DEF GoodFrame
<1>7. GoodLink(Below, frame, nest', used')
  <2>1. nest'[Below.block] = nest[Below.block] /\ nest'[Below.block] \subseteq nest'[NewBlock]
    BY <1>3, <1>5
  <2>2. used[Below.fun] \subseteq used'[Below.fun]
    BY <1>1 DEF GoodFrame
  <2> QED
    BY <2>1, <2>2, <1>1 DEF GoodLink
<1>8. /\ stack' \in Seq(Frame) /\ nest' \in Seq(SUBSET Nat)
      /\ ip' \in Nat /\ closed' \subseteq Nat
      /\ GoodStack(stack, nest, closed, used, functions)'
      /\ InsertionPoint'
      /\ Blocks'
  BY <1>1, <1>3, <1>4, <1>6, <1>7, NextStep
<1>9. GoodOps(ops', nest', functions)
  BY <1>3 DEF GoodOps
<1> QED
  BY <1>4, <1>8, <1>9, SameFunctions

LEMMA OpenElseStep == ASSUME IInv, OpenElse PROVE IInv'
<1> DEFINE f == [Top EXCEPT !.kind = "else", !.block = NewBlock, !.lex = Below.lex]
<1>1. /\ status = "running" /\ stack # <<>> /\ Top.kind = "then" /\ Depth > 1
      /\ OpenNext(f) /\ ops' = Emit(ip, Operands(Top)) /\ used' = used
      /\ "else" \in Kind
  BY TopFacts DEF OpenElse, Filling, Kind
<1>2. /\ Top \in Frame /\ GoodFrame(Top, nest, closed, used, functions)
      /\ ip = Top.block
  BY <1>1, TopFacts
<1>3. /\ Below \in Frame /\ GoodFrame(Below, nest, closed, used, functions)
      /\ GoodLink(Below, Top, nest, used)
  BY <1>1, BelowFacts
<1>4. NewBlock \in Nat /\ used \in [Fun -> SUBSET Name]
  BY DEF NewBlock, IInv, TypeOK
<1>5. /\ f \in Frame /\ f.kind = "else" /\ f.fun = Top.fun /\ f.block = NewBlock
      /\ f.lex = Below.lex /\ f.env = Top.env
      /\ f.pat = Top.pat /\ f.uses = Top.uses /\ f.saved = Top.saved
      /\ Scope(f) = Scope(Below)
  BY <1>1, <1>2, <1>3, <1>4 DEF Frame, Scope
<1> HIDE DEF f
<1>6. \A n \in Scope(Below) : Top.env[n] = Below.env[n]
  BY <1>1, ScopeBelow
<1>7. \A n \in Scope(Below) : Below.env[n] = Below.lex[n] /\ Below.lex[n].at \in nest[Below.block]
  BY <1>3, ScopeValue
<1>8. GoodOps(ops', nest, functions)
  BY <1>1, CloseOps
<1>9. \A v \in f.uses : v.at \in nest[Below.block]
  BY <1>3, <1>5 DEF GoodLink
<1>10. Bound(f.env) \subseteq used'[Top.fun]
  BY <1>1, <1>2, <1>5 DEF GoodFrame
<1>11. /\ \A n \in Scope(Below) : n \in Scope(f) /\ f.lex[n] = Below.lex[n]
       /\ \A n \in Scope(f) : /\ f.env[n] = f.lex[n]
                              /\ f.lex[n].at \in nest[Below.block] \cup {NewBlock}
  BY <1>5, <1>6, <1>7
<1>12. used' \in [Fun -> SUBSET Name] /\ \A h \in functions : used[h] \subseteq used'[h]
  BY <1>1, <1>4
<1> QED
  BY <1>1, <1>5, <1>8, <1>9, <1>10, <1>11, <1>12, OpenNextStep

LEMMA OpenCombineStep == ASSUME IInv, OpenCombine PROVE IInv'
<1>1. PICK params \in Pattern :
          /\ OpenNext([Top EXCEPT !.kind = "combine", !.block = NewBlock,
                          !.lex = Bind(Below.lex, params, NewBlock),
                          !.env = Bind(Below.env, params, NewBlock),
                          !.uses = Operands(Below)])
          /\ Reserve(params)
  BY DEF OpenCombine
<1> DEFINE f == [Top EXCEPT !.kind = "combine", !.block = NewBlock,
                     !.lex = Bind(Below.lex, params, NewBlock),
                     !.env = Bind(Below.env, params, NewBlock),
                     !.uses = Operands(Below)]
<1>2. /\ status = "running" /\ stack # <<>> /\ Top.kind = "hist" /\ Depth > 1
      /\ OpenNext(f)
      /\ ops' = Emit(ip, Operands(Top)) \cup Emit(Top.saved, Top.uses)
      /\ params \in SUBSET Fresh /\ "combine" \in Kind
  BY <1>1, TopFacts DEF OpenCombine, Filling, Pattern, Kind
<1>3. /\ Top \in Frame /\ GoodFrame(Top, nest, closed, used, functions)
      /\ Below \in Frame /\ GoodFrame(Below, nest, closed, used, functions)
      /\ GoodLink(Below, Top, nest, used)
  BY <1>2, TopFacts, BelowFacts
<1>4. /\ used' \in [Fun -> SUBSET Name]
      /\ \A h \in functions : used[h] \subseteq used'[h]
      /\ params \subseteq Name /\ params \cap Scope(Top) = {}
      /\ used'[Top.fun] = used[Top.fun] \cup params
  BY <1>1, <1>2, ReserveFacts
<1>5. NewBlock \in Nat /\ Below.lex \in Ctx /\ Below.env \in Ctx
  BY <1>3 DEF NewBlock, IInv, TypeOK, Frame
<1>6. /\ Bind(Below.lex, params, NewBlock) \in Ctx
      /\ Bound(Bind(Below.lex, params, NewBlock)) = Scope(Below) \cup params
      /\ \A n \in Name : Bind(Below.lex, params, NewBlock)[n] =
             IF n \in params THEN [at |-> NewBlock, of |-> n] ELSE Below.lex[n]
  BY <1>4, <1>5, BindFacts DEF Scope
<1>7. /\ Bind(Below.env, params, NewBlock) \in Ctx
      /\ Bound(Bind(Below.env, params, NewBlock)) = Bound(Below.env) \cup params
      /\ \A n \in Name : Bind(Below.env, params, NewBlock)[n] =
             IF n \in params THEN [at |-> NewBlock, of |-> n] ELSE Below.env[n]
  BY <1>4, <1>5, BindFacts
<1>8. \A v \in Operands(Below) : v \in Value /\ v.at \in nest[Below.block]
  BY <1>3, OperandsGood
<1>9. /\ f \in Frame /\ f.kind = "combine" /\ f.fun = Top.fun /\ f.block = NewBlock
      /\ f.lex = Bind(Below.lex, params, NewBlock)
      /\ f.env = Bind(Below.env, params, NewBlock)
      /\ f.pat = Top.pat /\ f.uses = Operands(Below) /\ f.saved = Top.saved
  <2>1. Operands(Below) \in SUBSET Value
    BY <1>8
  <2> QED
    BY <2>1, <1>2, <1>3, <1>5, <1>6, <1>7 DEF Frame
<1> HIDE DEF f
<1>10. Scope(f) = Scope(Below) \cup params /\ Bound(f.env) = Bound(Below.env) \cup params
  BY <1>6, <1>7, <1>9 DEF Scope
<1>11. /\ Top.fun = Below.fun /\ Scope(Below) \subseteq Name
       /\ \A n \in Scope(Below) : n \notin params
  BY <1>2, <1>4, ScopeBelow
<1>12. \A n \in Scope(Below) : /\ n \in Scope(f) /\ f.lex[n] = Below.lex[n]
                               /\ f.env[n] = Below.env[n]
  BY <1>6, <1>7, <1>9, <1>10, <1>11
<1>13. \A n \in Scope(f) : /\ f.env[n] = f.lex[n]
                           /\ f.lex[n].at \in nest[Below.block] \cup {NewBlock}
  <2> SUFFICES ASSUME NEW n \in Scope(f)
               PROVE  /\ f.env[n] = f.lex[n]
                      /\ f.lex[n].at \in nest[Below.block] \cup {NewBlock}
    OBVIOUS
  <2>1. CASE n \in params
    <3>1. f.lex[n] = [at |-> NewBlock, of |-> n] /\ f.env[n] = [at |-> NewBlock, of |-> n]
      BY <2>1, <1>4, <1>6, <1>7, <1>9
    <3> QED
      BY <3>1
  <2>2. CASE n \in Scope(Below)
    <3>1. Below.env[n] = Below.lex[n] /\ Below.lex[n].at \in nest[Below.block]
      BY <2>2, <1>3, ScopeValue
    <3> QED
      BY <3>1, <2>2, <1>12
  <2> QED
    BY <2>1, <2>2, <1>10
<1>14. Bound(f.env) \subseteq used'[Top.fun]
  BY <1>3, <1>4, <1>10, <1>11 DEF GoodFrame
<1>15. GoodOps(ops', nest, functions)
  BY <1>2, CloseOps, OpsUnion
<1>16. \A v \in f.uses : v.at \in nest[Below.block]
  BY <1>8, <1>9
<1> QED
  BY <1>2, <1>4, <1>9, <1>12, <1>13, <1>14, <1>15, <1>16, OpenNextStep

-----------------------------------------------------------------------------
(* Functions.                                                                *)

\* The body of a function that has not been lowered begins.
LEMMA EnterStep ==
    ASSUME IInv, status = "running", status' = status,
           NEW f \in Fun, f \notin BlackBoxFun \cup functions,
           NEW pat \in SUBSET Name,
           EnterFunction(f, pat),
           used' \in [Fun -> SUBSET Name],
           used'[f] = Visible(f),
           \A h \in functions : used[h] \subseteq used'[h],
           stack # <<>> => /\ pat \subseteq used'[Top.fun] \ Scope(Top)
                           /\ Top.kind # "forall",
           todo' \in Seq(Fun),
           \A i \in 1..Len(todo) : todo[i] = f \/ \E j \in 1..Len(todo') : todo'[j] = todo[i]
    PROVE  IInv'
<1> DEFINE ctx == FunctionCtx(f, NewBlock)
           F == [kind |-> "function", fun |-> f, block |-> NewBlock,
                 lex |-> ctx, env |-> ctx, pat |-> pat, uses |-> {}, saved |-> ip]
<1>1. /\ functions' = functions \cup {f} /\ module' = Append(module, f)
      /\ nest' = Append(nest, {NewBlock}) /\ ip' = NewBlock
      /\ stack' = Append(stack, F) /\ closed' = closed
      /\ ops' = UNION {Emit(NewBlock, {}) : c \in Consts}
  BY DEF EnterFunction
<1>2. /\ nest \in Seq(SUBSET Nat) /\ NewBlock = Len(nest) + 1 /\ NewBlock \in Nat
      /\ DOMAIN nest = 1..Len(nest) /\ ip \in Nat /\ closed \subseteq Nat
      /\ functions \subseteq Fun /\ module \in Seq(Fun)
  BY DEF IInv, TypeOK, NewBlock
<1>3. closed \subseteq DOMAIN nest
  BY DEF IInv, Blocks
<1>4. /\ NewBlock \notin closed /\ NewBlock \in DOMAIN nest' /\ nest'[NewBlock] = {NewBlock}
      /\ {NewBlock} \in SUBSET Nat
  BY <1>1, <1>2, <1>3
<1>5. Visible(f) \subseteq Name
  BY LoweringAssumption DEF Visible
<1>6. Empty \in Ctx /\ Bound(Empty) = {}
  BY DEF Empty, Ctx, Bound
<1>7. /\ ctx \in Ctx /\ Bound(ctx) = Visible(f)
      /\ \A n \in Name : n \in Visible(f) => ctx[n] = [at |-> NewBlock, of |-> n]
  <2>1. /\ ctx \in Ctx /\ Bound(ctx) = Bound(Empty) \cup (Visible(f) \cap Name)
        /\ \A n \in Name : ctx[n] =
               IF n \in Visible(f) THEN [at |-> NewBlock, of |-> n] ELSE Empty[n]
    BY <1>2, <1>6, BindFacts DEF FunctionCtx
  <2> HIDE DEF ctx
  <2> QED
    BY <2>1, <1>5, <1>6
<1> HIDE DEF ctx
<1>8. /\ F \in Frame /\ F.kind = "function" /\ F.fun = f /\ F.block = NewBlock
      /\ F.lex = ctx /\ F.env = ctx /\ F.pat = pat /\ F.uses = {} /\ F.saved = ip
      /\ Scope(F) = Visible(f)
  <2>1. "function" \in Kind /\ {} \in SUBSET Value
    BY DEF Kind
  <2> QED
    BY <2>1, <1>2, <1>7 DEF Frame, Scope
<1> HIDE DEF F
<1>9. GoodFrame(F, nest', closed', used', functions')
  <2>1. \A n \in Scope(F) : F.env[n] = F.lex[n] /\ F.lex[n].at \in nest'[NewBlock]
    <3> SUFFICES ASSUME NEW n \in Scope(F)
                 PROVE  F.env[n] = F.lex[n] /\ F.lex[n].at \in nest'[NewBlock]
      OBVIOUS
    <3>1. F.lex[n] = [at |-> NewBlock, of |-> n] /\ F.env[n] = F.lex[n]
      BY <1>5, <1>7, <1>8
    <3> QED
      BY <3>1, <1>4
  <2>2. Bound(F.env) \subseteq used'[F.fun] /\ F.fun \in functions'
    BY <1>1, <1>7, <1>8
  <2> QED
    BY <2>1, <2>2, <1>1, <1>4, <1>8 DEF GoodFrame
<1>10. stack = <<>> => GoodBase(F)
  BY <1>8 DEF GoodBase, IInv, InsertionPoint
<1>11. stack # <<>> => GoodLink(Top, F, nest', used')
  BY <1>8 DEF GoodLink, IInv, InsertionPoint
<1>12. /\ stack' \in Seq(Frame) /\ nest' \in Seq(SUBSET Nat) /\ ip' \in Nat
       /\ GoodStack(stack, nest, closed, used, functions)'
       /\ InsertionPoint'
       /\ Blocks'
  <2>1. functions \subseteq functions'
    BY <1>1
  <2> QED
    BY <2>1, <1>1, <1>4, <1>8, <1>9, <1>10, <1>11, PushStep
<1>13. \A o \in ops' : o = [at |-> NewBlock, uses |-> {}, calls |-> {}]
  BY <1>1 DEF Emit
<1>14. TypeOK'
  <2>1. ops' \subseteq Op
    BY <1>2, <1>13 DEF Op
  <2>2. functions' \subseteq Fun /\ module' \in Seq(Fun) /\ closed' \subseteq Nat
    BY <1>1, <1>2
  <2>3. status' \in {"running", "printed", "unsupported", "unbound"}
    OBVIOUS
  <2> QED
    BY <2>1, <2>2, <2>3, <1>12 DEF TypeOK
<1>15. Dominance'
  BY <1>4, <1>13 DEF Dominance
<1>16. /\ functions = {module[i] : i \in 1..Len(module)}
       /\ functions \cap BlackBoxFun = {}
       /\ Fun = functions \cup BlackBoxFun \cup {todo[i] : i \in 1..Len(todo)}
  BY DEF IInv, Memo
<1>17. /\ Len(module') = Len(module) + 1 /\ Len(module) \in Nat
       /\ module'[Len(module) + 1] = f
       /\ \A i \in 1..Len(module) : module'[i] = module[i]
  BY <1>1, <1>2
<1>18. Memo'
  <2>1. functions' = {module'[i] : i \in 1..Len(module')}
    BY <1>1, <1>16, <1>17
  <2>2. functions' \cap BlackBoxFun = {}
    BY <1>1, <1>16
  <2>3. Fun \subseteq functions' \cup BlackBoxFun \cup {todo'[i] : i \in 1..Len(todo')}
    BY <1>1, <1>16
  <2>4. {todo'[i] : i \in 1..Len(todo')} \subseteq Fun
    OBVIOUS
  <2>5. functions' \cup BlackBoxFun \subseteq Fun
    BY <1>1, <1>2, LoweringAssumption
  <2> QED
    BY <2>1, <2>2, <2>3, <2>4, <2>5 DEF Memo
<1>19. Symbols'
  <2>1. /\ \A i, j \in 1..Len(module) : module[i] = module[j] => i = j
        /\ \A i \in 1..Len(module) : module[i] \notin BlackBoxFun
    BY DEF IInv, Symbols
  <2>2. \A i \in 1..Len(module) : module[i] # f
    BY <1>16
  <2>3. \A i \in 1..Len(module') : i \in 1..Len(module) \/ i = Len(module) + 1
    BY <1>17
  <2>4. \A i, j \in 1..Len(module') : module'[i] = module'[j] => i = j
    BY <2>1, <2>2, <2>3, <1>17
  <2>5. \A i \in 1..Len(module') : module'[i] \notin BlackBoxFun
    BY <2>1, <2>3, <1>17
  <2> QED
    BY <2>4, <2>5, <1>13 DEF Symbols
<1> QED
  BY <1>12, <1>14, <1>15, <1>18, <1>19 DEF IInv

LEMMA StartFunctionStep == ASSUME IInv, StartFunction PROVE IInv'
<1>1. /\ status = "running" /\ stack = <<>> /\ todo # <<>>
      /\ Head(todo) \notin BlackBoxFun \cup functions
      /\ EnterFunction(Head(todo), {})
      /\ used' = [used EXCEPT ![Head(todo)] = Visible(Head(todo))]
      /\ todo' = Tail(todo) /\ status' = status
  BY DEF StartFunction
<1>2. todo \in Seq(Fun) /\ used \in [Fun -> SUBSET Name] /\ functions \subseteq Fun
  BY DEF IInv, TypeOK
<1>3. /\ Head(todo) \in Fun /\ todo' \in Seq(Fun)
      /\ \A i \in 1..Len(todo) :
             todo[i] = Head(todo) \/ \E j \in 1..Len(todo') : todo'[j] = todo[i]
  <2>1. Head(todo) = todo[1] /\ Len(todo') = Len(todo) - 1 /\ Len(todo) \in Nat
    BY <1>1, <1>2
  <2>2. \A i \in 2..Len(todo) : i - 1 \in 1..Len(todo') /\ todo'[i - 1] = todo[i]
    BY <1>1, <1>2
  <2>3. \A i \in 1..Len(todo) : i = 1 \/ i \in 2..Len(todo)
    BY <2>1
  <2>4. Head(todo) \in Fun /\ todo' \in Seq(Fun)
    BY <1>1, <1>2
  <2> QED
    BY <2>1, <2>2, <2>3, <2>4
<1>4. Visible(Head(todo)) \in SUBSET Name
  BY <1>3, LoweringAssumption DEF Visible
<1>5. /\ used' \in [Fun -> SUBSET Name] /\ used'[Head(todo)] = Visible(Head(todo))
      /\ \A h \in functions : used[h] \subseteq used'[h]
  BY <1>1, <1>2, <1>3, <1>4
<1>6. {} \in SUBSET Name
  OBVIOUS
<1> QED
  BY <1>1, <1>3, <1>5, <1>6, EnterStep

LEMMA CallNewFunctionStep == ASSUME IInv, CallNewFunction PROVE IInv'
<1>1. PICK f \in Fun \ (BlackBoxFun \cup functions), pat \in Pattern :
          /\ EnterFunction(f, pat)
          /\ used' = [used EXCEPT ![f] = Visible(f), ![Top.fun] = @ \cup pat]
  BY DEF CallNewFunction
<1>2. /\ status = "running" /\ stack # <<>> /\ Top.kind # "forall"
      /\ pat \in SUBSET Name /\ pat \cap used[Top.fun] = {}
      /\ todo' = todo /\ status' = status
  BY DEF CallNewFunction, Filling, Body, Pattern, Fresh
<1>3. /\ todo \in Seq(Fun) /\ used \in [Fun -> SUBSET Name] /\ functions \subseteq Fun
  BY DEF IInv, TypeOK
<1>4. /\ Top.fun \in Fun /\ Top.fun \in functions /\ Top \in Frame
      /\ GoodFrame(Top, nest, closed, used, functions)
  BY <1>2, TopFacts
<1>5. Scope(Top) \subseteq used[Top.fun]
  BY <1>4, ScopeUsed
<1>6. Visible(f) \in SUBSET Name
  BY LoweringAssumption DEF Visible
<1>7. /\ used' \in [Fun -> SUBSET Name] /\ used'[f] = Visible(f)
      /\ \A h \in functions : used[h] \subseteq used'[h]
      /\ used'[Top.fun] = used[Top.fun] \cup pat
  <2>1. f # Top.fun
    BY <1>4
  <2> QED
    BY <2>1, <1>1, <1>2, <1>3, <1>4, <1>6
<1>8. pat \subseteq used'[Top.fun] \ Scope(Top)
  BY <1>2, <1>5, <1>7
<1>9. todo' \in Seq(Fun) /\ \A i \in 1..Len(todo) : \E j \in 1..Len(todo') : todo'[j] = todo[i]
  BY <1>2, <1>3
<1> QED
  BY <1>1, <1>2, <1>7, <1>8, <1>9, EnterStep

LEMMA SkipFunctionStep == ASSUME IInv, SkipFunction PROVE IInv'
<1>1. /\ status = "running" /\ stack = <<>> /\ todo # <<>>
      /\ Head(todo) \in BlackBoxFun \cup functions
      /\ todo' = Tail(todo) /\ ops' = {}
      /\ UNCHANGED <<functions, module, nest, closed, ip, stack, used, status>>
  BY DEF SkipFunction
<1>2. todo \in Seq(Fun) /\ functions \subseteq Fun
  BY DEF IInv, TypeOK
<1>3. TypeOK'
  BY <1>1, <1>2 DEF IInv, TypeOK
<1>4. Memo'
  <2>1. Head(todo) = todo[1] /\ Len(todo') = Len(todo) - 1 /\ Len(todo) \in Nat
    BY <1>1, <1>2
  <2>2. \A i \in 2..Len(todo) : i - 1 \in 1..Len(todo') /\ todo'[i - 1] = todo[i]
    BY <1>1, <1>2
  <2>3. \A i \in 1..Len(todo) : i = 1 \/ i \in 2..Len(todo)
    BY <2>1
  <2>4. /\ functions = {module[i] : i \in 1..Len(module)}
        /\ functions \cap BlackBoxFun = {}
        /\ Fun = functions \cup BlackBoxFun \cup {todo[i] : i \in 1..Len(todo)}
    BY <1>1 DEF IInv, Memo
  <2>5. Fun \subseteq functions \cup BlackBoxFun \cup {todo'[i] : i \in 1..Len(todo')}
    <3> SUFFICES ASSUME NEW h \in Fun, h \notin functions \cup BlackBoxFun
                 PROVE  \E i \in 1..Len(todo') : todo'[i] = h
      OBVIOUS
    <3>1. PICK i \in 1..Len(todo) : todo[i] = h
      BY <2>4
    <3>2. i # 1
      BY <2>1, <3>1, <1>1
    <3> QED
      BY <2>2, <2>3, <3>1, <3>2
  <2>6. {todo'[i] : i \in 1..Len(todo')} \subseteq Fun
    BY <1>3 DEF TypeOK
  <2>7. Fun = functions \cup BlackBoxFun \cup {todo'[i] : i \in 1..Len(todo')}
    BY <2>5, <2>6, <1>2, LoweringAssumption
  <2> QED
    BY <2>4, <2>7, <1>1 DEF Memo
<1>5. Dominance' /\ Symbols'
  BY <1>1 DEF IInv, Dominance, Symbols
<1>6. /\ GoodStack(stack, nest, closed, used, functions)'
      /\ InsertionPoint' /\ Blocks'
  BY <1>1 DEF IInv, InsertionPoint, Blocks, Top, Depth
<1> QED
  BY <1>3, <1>4, <1>5, <1>6 DEF IInv

LEMMA PrintModuleStep == ASSUME IInv, PrintModule PROVE IInv'
<1>1. /\ status = "running" /\ stack = <<>> /\ todo = <<>>
      /\ status' = "printed" /\ ops' = {}
      /\ UNCHANGED <<todo, functions, module, nest, closed, ip, stack, used>>
  BY DEF PrintModule
<1>2. TypeOK'
  BY <1>1 DEF IInv, TypeOK
<1>3. Memo'
  BY <1>1 DEF IInv, Memo
<1>4. Dominance' /\ Symbols'
  BY <1>1 DEF IInv, Dominance, Symbols
<1>5. /\ GoodStack(stack, nest, closed, used, functions)'
      /\ InsertionPoint' /\ Blocks'
  BY <1>1 DEF IInv, InsertionPoint, Blocks, Top, Depth
<1> QED
  BY <1>2, <1>3, <1>4, <1>5 DEF IInv

\* Nothing is left of a compilation that was aborted.
LEMMA AbortStep ==
    ASSUME IInv, NEW reason \in {"unsupported", "unbound"}, Abort(reason)
    PROVE  IInv'
<1>1. /\ status' = reason /\ todo' = <<>> /\ functions' = {} /\ module' = <<>>
      /\ nest' = <<>> /\ ops' = {} /\ closed' = {} /\ ip' = TopLevel
      /\ stack' = <<>> /\ used' = [f \in Fun |-> {}]
  BY DEF Abort
<1>2. TypeOK'
  BY <1>1 DEF TypeOK, TopLevel
<1>3. Memo'
  BY <1>1 DEF Memo
<1>4. Dominance' /\ Symbols'
  BY <1>1 DEF Dominance, Symbols
<1>5. GoodStack(stack, nest, closed, used, functions)' /\ InsertionPoint'
  BY <1>1 DEF GoodStack, InsertionPoint
<1>6. Blocks'
  BY <1>1 DEF Blocks, Depth
<1> QED
  BY <1>2, <1>3, <1>4, <1>5, <1>6 DEF IInv

LEMMA ReturnToMainStep == ASSUME IInv, ReturnToMain PROVE IInv'
<1>1. /\ status = "running" /\ stack # <<>> /\ Top.kind = "function" /\ Depth = 1
      /\ ops' = Emit(ip, Operands(Top)) /\ closed' = closed \cup {ip}
      /\ ip' = Top.saved /\ stack' = <<>>
      /\ UNCHANGED <<todo, functions, module, nest, used, status>>
  BY DEF ReturnToMain, Filling
<1>2. /\ Top \in Frame /\ GoodFrame(Top, nest, closed, used, functions)
      /\ ip = Top.block /\ ip \in 1..Len(nest)
      /\ nest \in Seq(SUBSET Nat) /\ used \in [Fun -> SUBSET Name] /\ closed \subseteq Nat
      /\ ip \in DOMAIN nest /\ ip \in Nat
  BY <1>1, TopFacts DEF IInv, TypeOK
<1>3. Top.saved = TopLevel
  BY <1>1 DEF IInv, GoodStack, GoodBase, Top
<1>4. GoodOps(ops', nest', functions)
  <2>1. \A v \in Operands(Top) : v \in Value /\ v.at \in nest[ip]
    BY <1>2, OperandsGood
  <2>2. GoodOps(Emit(ip, Operands(Top)), nest, functions)
    BY <2>1, <1>2, EmitGood
  <2> QED
    BY <2>2, <1>1
<1>5. /\ stack' \in Seq(Frame) /\ ip' \in Nat /\ closed' \subseteq Nat
      /\ nest' \in Seq(SUBSET Nat) /\ used' \in [Fun -> SUBSET Name]
  <2>1. stack' \in Seq(Frame)
    BY <1>1
  <2>2. ip' \in Nat
    BY <1>1, <1>3 DEF TopLevel
  <2>3. closed' \subseteq Nat
    BY <1>1, <1>2
  <2>4. nest' \in Seq(SUBSET Nat) /\ used' \in [Fun -> SUBSET Name]
    BY <1>1, <1>2
  <2> QED
    BY <2>1, <2>2, <2>3, <2>4
<1>6. GoodStack(stack, nest, closed, used, functions)' /\ InsertionPoint'
  BY <1>1, <1>3 DEF GoodStack, InsertionPoint
<1>7. Blocks'
  <2>1. {stack[i].block : i \in 1..Depth} = {ip}
    BY <1>1, <1>2 DEF Top
  <2>2. {stack'[i].block : i \in 1..Len(stack')} = {}
    BY <1>1
  <2> QED
    BY <2>1, <2>2, <1>1 DEF IInv, Blocks, Depth
<1> QED
  BY <1>1, <1>4, <1>5, <1>6, <1>7, SameFunctions

LEMMA ReturnToCallerStep == ASSUME IInv, ReturnToCaller PROVE IInv'
<1> DEFINE d == Depth - 1
<1>1. /\ status = "running" /\ stack # <<>> /\ Top.kind = "function" /\ Depth > 1
      /\ ops' = Emit(ip, Operands(Top))
                   \cup EmitCall(Top.saved, Operands(Below), Top.fun)
      /\ closed' = closed \cup {ip} /\ ip' = Top.saved
      /\ stack' = PopTo(d, BindPattern(Below, Top.pat, Top.saved))
      /\ UNCHANGED <<todo, functions, module, nest, used, status>>
  BY DEF ReturnToCaller, Filling
<1>2. /\ Depth \in Nat /\ d \in 1..Depth /\ d < Depth /\ d + 1 = Depth
      /\ Below = stack[d] /\ Top = stack[d + 1]
      /\ Top.saved = Below.block /\ ip = Top.block
  BY <1>1, BelowFacts, TopFacts DEF Below, Top
<1>3. /\ Below \in Frame /\ GoodFrame(Below, nest, closed, used, functions)
      /\ Below.block \in 1..Len(nest)
      /\ Top.fun \in Fun /\ Top.fun \in functions
  BY <1>1, BelowFacts, TopFacts
<1>4. GoodOps(ops', nest, functions)
  <2>1. GoodOps(Emit(ip, Operands(Top)), nest, functions)
    BY <1>1, CloseOps
  <2>2. Top.saved \in DOMAIN nest /\ Top.saved \in Nat
    BY <1>2, <1>3 DEF GoodFrame, Frame
  <2>3. \A v \in Operands(Below) : v \in Value /\ v.at \in nest[Top.saved]
    BY <1>2, <1>3, OperandsGood
  <2>4. GoodOps(EmitCall(Top.saved, Operands(Below), Top.fun), nest, functions)
    BY <2>2, <2>3, <1>3, EmitCallGood
  <2> QED
    BY <2>1, <2>4, <1>1, OpsUnion
<1>5. (d + 1)..Depth = {Depth}
  BY <1>2
<1>6. closed' = closed \cup {stack[i].block : i \in (d + 1)..Depth}
  BY <1>1, <1>2, <1>5
<1> HIDE DEF d
<1>7. /\ stack[d].env \in Ctx
      /\ Bound(stack[d].env) \subseteq used[stack[d].fun]
      /\ [stack[d] EXCEPT !.env = stack[d].env] = stack[d]
  BY <1>2, <1>3 DEF Frame, GoodFrame
<1>8. stack' = PopTo(d, BindPattern([stack[d] EXCEPT !.env = stack[d].env],
                                    Top.pat, stack[d].block))
  BY <1>1, <1>2, <1>7
<1>9. ip' = stack[d].block /\ Top.pat = stack[d + 1].pat
  BY <1>1, <1>2
<1> QED
  BY <1>1, <1>2, <1>4, <1>6, <1>7, <1>8, <1>9, ReturnStep

-----------------------------------------------------------------------------
(* The inductive invariant.                                                  *)

LEMMA InitIInv == ASSUME Init PROVE IInv
<1>1. TypeOK
  BY LoweringAssumption DEF Init, TypeOK, TopLevel
<1>2. GoodStack(stack, nest, closed, used, functions) /\ InsertionPoint
  BY DEF Init, GoodStack, InsertionPoint
<1>3. Dominance /\ Symbols
  BY DEF Init, Dominance, Symbols
<1>4. Blocks
  BY DEF Init, Blocks, Depth
<1>5. Memo
  <2>1. Fun = {ProgFuns[i] : i \in 1..Len(ProgFuns)}
    BY LoweringAssumption
  <2>2. Fun = {} \cup BlackBoxFun \cup {ProgFuns[i] : i \in 1..Len(ProgFuns)}
    BY <2>1, LoweringAssumption
  <2> QED
    BY <2>2 DEF Init, Memo
<1> QED
  BY <1>1, <1>2, <1>3, <1>4, <1>5 DEF IInv

LEMMA StutterIInv == ASSUME IInv, UNCHANGED vars PROVE IInv'
<1>1. /\ UNCHANGED <<todo, functions, module, nest, ops>>
      /\ UNCHANGED <<closed, ip, stack, used, status>>
  BY DEF vars
<1>2. TypeOK' /\ Memo' /\ Symbols'
  BY <1>1 DEF IInv, TypeOK, Memo, Symbols
<1>3. /\ GoodStack(stack, nest, closed, used, functions)'
      /\ InsertionPoint' /\ Dominance' /\ Blocks'
  BY <1>1 DEF IInv, InsertionPoint, Dominance, Blocks, Top, Depth
<1> QED
  BY <1>2, <1>3 DEF IInv

LEMMA NextIInv == ASSUME IInv, [Next]_vars PROVE IInv'
<1>1. CASE UNCHANGED vars
  BY <1>1, StutterIInv
<1>2. CASE StartFunction \/ SkipFunction \/ PrintModule
  BY <1>2, StartFunctionStep, SkipFunctionStep, PrintModuleStep
<1>3. CASE Unsupported \/ HoistUnboundArray
  BY <1>3, AbortStep DEF Unsupported, HoistUnboundArray
<1>4. CASE CallNewFunction \/ CallLoweredFunction \/ ReturnToMain \/ ReturnToCaller
  BY <1>4, CallNewFunctionStep, CallLoweredFunctionStep, ReturnToMainStep, ReturnToCallerStep
<1>5. CASE LowerOp \/ LowerAlias \/ CallBlackBox \/ LowerWithRegions
  BY <1>5, LowerOpStep, LowerAliasStep, CallBlackBoxStep, LowerWithRegionsStep
<1>6. CASE OpenIf \/ OpenElse \/ CloseIf
  BY <1>6, OpenIfStep, OpenElseStep, CloseIfStep
<1>7. CASE OpenLoop \/ OpenKernel \/ OpenCombine
  BY <1>7, OpenLoopStep, OpenKernelStep, OpenCombineStep
<1>8. CASE CloseLoop \/ CloseMap \/ CloseHist \/ CloseRed
  BY <1>8, CloseOtherStep
<1>9. CASE EnterReduceOp \/ EnterScanOp \/ EnterPostOp
  BY <1>9, EnterReduceOpStep, EnterScanOpStep, EnterPostOpStep
<1>10. CASE OpenForall \/ OpenScan \/ CloseScan
  BY <1>10, OpenForallStep, OpenScanStep, CloseScanStep
<1> QED
  BY <1>1, <1>2, <1>3, <1>4, <1>5, <1>6, <1>7, <1>8, <1>9, <1>10 DEF Next

\* The compiler's state stays consistent at every step of the lowering of any
\* program: the environments, the insertion point, the memo table and the
\* blocks of the module.
THEOREM Consistent == Spec => []IInv
<1>1. Init => IInv
  BY InitIInv
<1>2. IInv /\ [Next]_vars => IInv'
  BY NextIInv
<1> QED
  BY <1>1, <1>2, PTL DEF Spec

-----------------------------------------------------------------------------
(* What follows from it.                                                     *)

\* Every variable keeps to its type.
THEOREM TypeCorrect == Spec => []TypeOK
<1>1. IInv => TypeOK
  BY DEF IInv
<1> QED
  BY <1>1, Consistent, PTL

\* LowerFunction, LowerExp and the SegOps only insert operations whose operands
\* are visible in the block they are inserted in.
THEOREM OperandsDominate == Spec => []Dominance
<1>1. IInv => Dominance
  BY DEF IInv
<1> QED
  BY <1>1, Consistent, PTL

\* InsertionGuards bring the builder back from nested regions and functions.
THEOREM BuilderRestored == Spec => []InsertionPoint
<1>1. IInv => InsertionPoint
  BY DEF IInv
<1> QED
  BY <1>1, Consistent, PTL

\* The sharing of environments never changes what a name in scope stands for.
THEOREM LexicallyScoped == Spec => []LexicalScoping
<1>1. ASSUME IInv PROVE LexicalScoping
  <2>1. \A i \in 1..Len(stack) : GoodFrame(stack[i], nest, closed, used, functions)
    BY <1>1 DEF IInv, GoodStack
  <2> QED
    BY <2>1 DEF LexicalScoping, GoodFrame, Depth
<1> QED
  BY <1>1, Consistent, PTL

\* The calls in progress fill open blocks, each its own.
THEOREM FillOpenBlocks == Spec => []OpenBlocks
<1>1. ASSUME IInv PROVE OpenBlocks
  <2>1. /\ \A i \in 1..Len(stack) : GoodFrame(stack[i], nest, closed, used, functions)
        /\ \A i, j \in 1..Len(stack) : i < j => stack[i].block < stack[j].block
    BY <1>1 DEF IInv, GoodStack
  <2>2. Depth = Len(stack) /\ Len(stack) \in Nat /\ nest \in Seq(SUBSET Nat)
    BY <1>1 DEF Depth, IInv, TypeOK
  <2>3. \A i \in 1..Depth : stack[i].block \in DOMAIN nest \ closed
    BY <2>1, <2>2 DEF GoodFrame
  <2>4. \A i \in 1..Depth : stack[i].block \in Nat
    BY <2>2, <2>3
  <2>5. \A i, j \in 1..Depth : stack[i].block = stack[j].block => i = j
    <3> SUFFICES ASSUME NEW i \in 1..Depth, NEW j \in 1..Depth, i < j
                 PROVE  stack[i].block # stack[j].block
      BY <2>2
    <3> QED
      BY <2>1, <2>2, <2>4
  <2> QED
    BY <2>3, <2>5 DEF OpenBlocks
<1> QED
  BY <1>1, Consistent, PTL

\* The memo table gives every function one symbol, before any call to it.
THEOREM SymbolsUnique == Spec => []Symbols
<1>1. IInv => Symbols
  BY DEF IInv
<1> QED
  BY <1>1, Consistent, PTL

\* main prints all of the program's functions, and nothing unfinished.
THEOREM PrintsWholeModule == Spec => []PrintedModule
<1>1. ASSUME IInv, status = "printed"
      PROVE  /\ \A f \in Fun \ BlackBoxFun : \E i \in 1..Len(module) : module[i] = f
             /\ DOMAIN nest = closed
  <2>1. /\ functions = {module[i] : i \in 1..Len(module)}
        /\ Fun = functions \cup BlackBoxFun \cup {todo[i] : i \in 1..Len(todo)}
        /\ stack = <<>> /\ todo = <<>>
    BY <1>1 DEF IInv, Memo
  <2>2. {stack[i].block : i \in 1..Depth} = {} /\ {todo[i] : i \in 1..Len(todo)} = {}
    BY <2>1 DEF Depth
  <2>3. DOMAIN nest = closed
    BY <2>2, <1>1 DEF IInv, Blocks
  <2> QED
    BY <2>1, <2>2, <2>3
<1>2. IInv => PrintedModule
  BY <1>1 DEF PrintedModule
<1> QED
  BY <1>2, Consistent, PTL

-----------------------------------------------------------------------------
(* No step inserts an operation behind a terminator.                         *)

\* The blocks the innermost calls fill, and the next block, are open.
LEMMA OpenBlockFacts ==
    ASSUME IInv
    PROVE  /\ NewBlock \notin closed
           /\ stack # <<>> => ip \notin closed
           /\ Depth > 1 => Top.saved \notin closed
           /\ Depth > 1 /\ Top.kind = "post" => Below.saved \notin closed
<1>1. NewBlock \notin closed
  <2>1. nest \in Seq(SUBSET Nat) /\ closed \subseteq DOMAIN nest
    BY DEF IInv, TypeOK, Blocks
  <2> QED
    BY <2>1 DEF NewBlock
<1>2. stack # <<>> => ip \notin closed
  BY TopFacts
<1>3. Depth > 1 => Top.saved \notin closed
  BY BelowFacts DEF GoodFrame
<1>4. ASSUME Depth > 1, Top.kind = "post" PROVE Below.saved \notin closed
  <2>1. stack \in Seq(Frame) /\ Depth = Len(stack) /\ Len(stack) \in Nat
    BY DEF IInv, TypeOK, Depth
  <2>2. /\ \A i \in 1..Len(stack) : GoodFrame(stack[i], nest, closed, used, functions)
        /\ \A i \in 2..Len(stack) : GoodLink(stack[i - 1], stack[i], nest, used)
        /\ stack # <<>> => stack[1].kind = "function"
    BY DEF IInv, GoodStack, GoodBase
  <2>3. Below.kind = "forall" /\ Below = stack[Depth - 1]
    BY <1>4, BelowFacts DEF GoodLink, Below
  <2>4. Depth - 1 \in 2..Len(stack) /\ (Depth - 1) - 1 \in 1..Len(stack)
    BY <1>4, <2>1, <2>2, <2>3
  <2>5. Below.saved = stack[(Depth - 1) - 1].block
    BY <2>2, <2>3, <2>4 DEF GoodLink
  <2> QED
    BY <2>2, <2>4, <2>5 DEF GoodFrame
<1> QED
  BY <1>1, <1>2, <1>3, <1>4

\* Every step inserts in blocks that have no terminator yet.
LEMMA StepSeals ==
    ASSUME IInv, Next
    PROVE  \A o \in ops' : o.at \notin closed
<1> USE DEF Emit, EmitCall
<1>1. CASE StartFunction \/ CallNewFunction
  <2>1. ops' = UNION {Emit(NewBlock, {}) : c \in Consts}
    BY <1>1 DEF StartFunction, CallNewFunction, EnterFunction
  <2>2. \A o \in ops' : o.at = NewBlock
    BY <2>1
  <2> QED
    BY <2>2, OpenBlockFacts
<1>2. CASE SkipFunction \/ PrintModule \/ Unsupported \/ HoistUnboundArray \/ LowerAlias
  BY <1>2 DEF SkipFunction, PrintModule, Unsupported, HoistUnboundArray, Abort, LowerAlias
<1>3. CASE EnterReduceOp \/ EnterScanOp \/ EnterPostOp
  BY <1>3 DEF EnterReduceOp, EnterScanOp, EnterPostOp
<1>4. CASE OpenIf \/ OpenLoop \/ OpenKernel \/ OpenForall \/ OpenScan
  BY <1>4 DEF OpenIf, OpenLoop, OpenKernel, OpenForall, OpenScan, Open
<1>5. CASE LowerOp \/ CallBlackBox \/ CallLoweredFunction \/ ReturnToMain \/ OpenElse
  <2>1. stack # <<>> /\ \A o \in ops' : o.at = ip
    BY <1>5 DEF LowerOp, CallBlackBox, CallLoweredFunction, ReturnToMain, OpenElse, Filling
  <2> QED
    BY <2>1, OpenBlockFacts
<1>6. CASE ReturnToCaller \/ OpenCombine \/ CloseIf \/ CloseLoop \/ CloseMap
              \/ CloseHist \/ CloseRed
  <2>1. stack # <<>> /\ Depth > 1
    BY <1>6, TopFacts DEF ReturnToCaller, OpenCombine, CloseIf, CloseLoop, CloseMap,
                          CloseHist, CloseRed, Filling
  <2>2. CASE ReturnToCaller
    BY <2>1, <2>2, OpenBlockFacts DEF ReturnToCaller
  <2>3. CASE ~ReturnToCaller
    <3>1. ops' = Emit(ip, Operands(Top)) \cup Emit(Top.saved, Top.uses)
      BY <1>6, <2>3 DEF OpenCombine, CloseIf, CloseLoop, CloseMap, CloseHist, CloseRed, Close
    <3> QED
      BY <2>1, <3>1, OpenBlockFacts
  <2> QED
    BY <2>2, <2>3
<1>7. CASE CloseScan
  <2>1. stack # <<>> /\ Depth > 1 /\ Top.kind = "post"
    BY <1>7, TopFacts DEF CloseScan, Filling
  <2>2. \A o \in ops' : o.at \in {ip, Top.saved, Below.saved}
    BY <1>7 DEF CloseScan
  <2> QED
    BY <2>1, <2>2, OpenBlockFacts
<1>8. CASE LowerWithRegions
  <2>1. PICK m \in 1..2 :
            ops' = UNION {Emit(b, Operands(Top)) : b \in {ip} \cup NewBlocks(m)}
    BY <1>8 DEF LowerWithRegions
  <2>2. stack # <<>> /\ \A o \in ops' : o.at \in {ip} \cup NewBlocks(m)
    BY <1>8, <2>1 DEF LowerWithRegions, Filling
  <2>3. NewBlocks(m) \cap closed = {}
    <3>1. nest \in Seq(SUBSET Nat) /\ closed \subseteq DOMAIN nest
      BY DEF IInv, TypeOK, Blocks
    <3> QED
      BY <3>1 DEF NewBlocks, NewBlock
  <2> QED
    BY <2>2, <2>3, OpenBlockFacts
<1> QED
  BY <1>1, <1>2, <1>3, <1>4, <1>5, <1>6, <1>7, <1>8 DEF Next

\* The builder never inserts behind the terminator of a block.
THEOREM NeverInsertsBehindTerminator == Spec => SealedBlocks
<1>1. IInv /\ [Next]_vars => [\A o \in ops' : o.at \notin closed]_vars
  BY StepSeals
<1> QED
  BY <1>1, Consistent, PTL DEF Spec, SealedBlocks
=============================================================================
