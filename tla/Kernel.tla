------------------------------- MODULE Kernel -------------------------------
(***************************************************************************)
(* The linalg.generic that LowerSegMap and LowerSegRed                      *)
(* (mlir-backend/compiler.hpp) emit for a kernel, and its execution.  The   *)
(* statements of the kernel that read an array at thread ids (the affine    *)
(* reads) are left out of the emitted region: the arrays become inputs of   *)
(* the operation, the elements arguments of its block.  The operation has   *)
(* no extents of its own: its loops get theirs from the shapes of its       *)
(* operands, inputs first.                                                  *)
(*                                                                          *)
(* Kernels yield one scalar and read arrays from outside (the order of      *)
(* lowering, kernels that bind the arrays they read included, is module     *)
(* Lowering's).  Thread ids, elements and results are members of Val.       *)
(***************************************************************************)
EXTENDS Integers, Sequences

CONSTANTS
    Gtids,     \* the thread ids a space may have, outermost first
    Scalar,    \* Scalar[c]: the value of name c from outside the kernel
    Content,   \* Content[a][ix]: an element of array a
    ArrayRank, \* ArrayRank[a]
    Binders,   \* the names the statements bind, in order
    Val,       \* scalars
    Apply,     \* Apply[x][y]: what a scalar operation computes
    Neutral,   \* the neutral element of a SegRed's operator
    Operator,  \* Operator[acc][x]: that operator
    Extent,    \* extents of a space
    MaxExcess, \* bound: by how much an array may be longer than the space
    NoVal      \* an unbound name, an element of a tensor.empty

Array == DOMAIN ArrayRank
Outer == DOMAIN Scalar
Ids == {Gtids[d] : d \in 1..Len(Gtids)}
Bound == {Binders[k] : k \in 1..Len(Binders)}
Names == Ids \cup Outer \cup Bound

VARIABLES
    op,      \* "map" or "red"
    extent,  \* extent[d]: SegSpace
    static,  \* whether the extents are constants
    stms,    \* KernelBody::stms
    yield,   \* KernelBody::result
    shape,   \* shape[a]: extents of array a
    next,    \* the statement FindSegOpAffineReads is at
    reads,   \* affine_reads
    loops,   \* loops[d]: extents of the loops of the linalg.generic
    env,     \* env[t]: what the region has computed at point t
    pc,      \* pc[t]: the statement it is at; 0 before it is entered
    out,     \* the output
    status   \* "find", "run", "done", "rejected" or "undefined"

program == <<op, extent, static, stms, yield, shape>>
vars == <<program, next, reads, loops, env, pc, out, status>>

-----------------------------------------------------------------------------
(* Kernels.                                                                  *)

Rank == Len(extent)
Dim == 1..Rank
SpaceIds == {Gtids[d] : d \in Dim}

\* The points of a domain, from zero.
Points(e) ==
    {t \in [DOMAIN e -> UNION {0..e[d] - 1 : d \in DOMAIN e}] :
        \A d \in DOMAIN e : t[d] < e[d]}

Statement ==
    [name : Bound, kind : {"apply"}, array : {NoVal}, args : [1..2 -> Names]]
    \cup UNION {[name : Bound, kind : {"index"}, array : {a},
                 args : [1..ArrayRank[a] -> Ids \cup Outer]] : a \in Array}

Args(s) == {s.args[k] : k \in DOMAIN s.args}

\* A statement binds the next name and uses what is in scope; an index is in
\* range at every point of the space.
WellFormed(ss, e, sh) ==
    \A k \in DOMAIN ss :
        LET s == ss[k]
        IN  /\ s.name = Binders[k]
            /\ Args(s) \cap Ids \subseteq {Gtids[d] : d \in DOMAIN e}
            /\ Args(s) \cap Bound \subseteq {Binders[l] : l \in 1..k - 1}
            /\ s.kind = "index" => \A j \in DOMAIN s.args :
                  /\ s.args[j] \in Outer => sh[s.array][j] > Scalar[s.args[j]]
                  /\ \A d \in DOMAIN e : s.args[j] = Gtids[d] =>
                        sh[s.array][j] \in e[d]..e[d] + MaxExcess

\* Extents an array may have: those of spaces, and the excess.
Extents == UNION {n..n + MaxExcess : n \in Extent}
Index == UNION {0..n - 1 : n \in Extents}

ASSUME KernelAssumption ==
    /\ Gtids \in Seq(Ids) /\ Binders \in Seq(Bound)
    /\ Extent \subseteq Nat /\ MaxExcess \in Nat
    /\ Index \subseteq Val
    /\ NoVal \notin Val
    /\ Neutral \in Val
    /\ Apply \in [Val -> [Val -> Val]] /\ Operator \in [Val -> [Val -> Val]]
    /\ \A c \in Outer : Scalar[c] \in Nat \cap Val
    /\ \A d, e \in 1..Len(Gtids) : Gtids[d] = Gtids[e] => d = e
    /\ \A k, l \in 1..Len(Binders) : Binders[k] = Binders[l] => k = l
    /\ Ids \cap Outer = {} /\ Ids \cap Bound = {} /\ Outer \cap Bound = {}
    /\ \A a \in Array : /\ ArrayRank[a] \in Nat
                        /\ \A ix \in [1..ArrayRank[a] -> Index] : Content[a][ix] \in Val

Init ==
    /\ op \in {"map", "red"}
    /\ extent \in UNION {[1..r -> Extent] : r \in 1..Len(Gtids)}
    /\ static \in BOOLEAN
    /\ shape \in {sh \in [Array -> UNION {[1..ArrayRank[a] -> Extents] : a \in Array}] :
                    \A a \in Array : DOMAIN sh[a] = 1..ArrayRank[a]}
    /\ stms \in UNION {[1..n -> Statement] : n \in 1..Len(Binders)}
    /\ WellFormed(stms, extent, shape)
    /\ yield \in {stms[k].name : k \in DOMAIN stms}
    /\ next = 1
    /\ reads = <<>>
    /\ loops = <<>>
    /\ env = <<>> /\ pc = <<>> /\ out = <<>>
    /\ status = "find"

-----------------------------------------------------------------------------
(* Lowering: the affine reads, and the operands of the linalg.generic.       *)

IsAffine(s) == s.kind = "index" /\ Args(s) \subseteq SpaceIds

\* Mutant: positions in the space are counted from the innermost dimension.
DimsFromInnermost(s) ==
    [k \in DOMAIN s.args |-> Rank + 1 - CHOOSE d \in Dim : Gtids[d] = s.args[k]]

\* The dimensions of the space that an affine read indexes by.
UsedDims(s) == [k \in DOMAIN s.args |-> CHOOSE d \in Dim : Gtids[d] = s.args[k]]

Find ==
    /\ status = "find" /\ next <= Len(stms)
    /\ LET s == stms[next]
       IN  reads' = IF IsAffine(s)
                    THEN Append(reads, [result |-> s.name, array |-> s.array,
                                        dims |-> UsedDims(s)])
                    ELSE reads
    /\ next' = next + 1
    /\ UNCHANGED <<program, loops, env, pc, out, status>>

\* The output has the dimensions of the space, in a reduction all but the last.
OutRank == IF op = "map" THEN Rank ELSE Rank - 1
OutShape == [d \in 1..OutRank |-> extent[d]]
Cell(t) == [d \in 1..OutRank |-> t[d]]

\* Inputs, then the output: their shapes and the loops that index them.
Operands ==
    [k \in 1..Len(reads) |-> [shape |-> shape[reads[k].array], dims |-> reads[k].dims]]
        \o <<[shape |-> OutShape, dims |-> [d \in 1..OutRank |-> d]]>>

Indexed(d) ==
    UNION {{<<k, j>> : j \in {l \in DOMAIN Operands[k].dims : Operands[k].dims[l] = d}} :
              k \in DOMAIN Operands}

\* The extent of loop d is that of the first operand dimension it indexes.
LoopExtent(d) ==
    LET first == CHOOSE p \in Indexed(d) : \A q \in Indexed(d) :
                     p[1] < q[1] \/ (p[1] = q[1] /\ p[2] <= q[2])
    IN  Operands[first[1]].shape[first[2]]

\* mlir::verify: every loop needs an extent, and constant extents have to agree.
Accepted ==
    /\ \A d \in Dim : Indexed(d) # {}
    /\ static => \A d \in Dim : \A p \in Indexed(d) :
                    Operands[p[1]].shape[p[2]] = LoopExtent(d)

Unbound == [n \in Names |-> NoVal]

\* The linalg.generic; the output of a map is a tensor.empty, that of a
\* reduction is filled with the neutral element.
LowerGeneric ==
    /\ status = "find" /\ next > Len(stms) /\ Accepted
    /\ loops' = [d \in Dim |-> LoopExtent(d)]
    /\ env' = [t \in Points(loops') |-> Unbound]
    /\ pc' = [t \in Points(loops') |-> 0]
    /\ out' = [c \in Points(OutShape) |-> IF op = "map" THEN NoVal ELSE Neutral]
    /\ status' = "run"
    /\ UNCHANGED <<program, next, reads>>

Reject ==
    /\ status = "find" /\ next > Len(stms) /\ ~Accepted
    /\ status' = "rejected"
    /\ UNCHANGED <<program, next, reads, loops, env, pc, out>>

-----------------------------------------------------------------------------
(* Execution.                                                                *)

End == Len(stms) + 2
AtRest == \A u \in DOMAIN pc : pc[u] \in {0, End}

\* A reduction runs along the last dimension in order.
Turn(t) ==
    op = "red" => \A u \in DOMAIN pc : Cell(u) = Cell(t) /\ u[Rank] < t[Rank] => pc[u] = End

InBounds(t) ==
    \A k \in DOMAIN Operands : \A j \in DOMAIN Operands[k].dims :
        t[Operands[k].dims[j]] < Operands[k].shape[j]

\* A block argument of the region: the element the indexing map of a read gives.
Argument(k, t) ==
    Content[reads[k].array][[j \in DOMAIN reads[k].dims |-> t[reads[k].dims[j]]]]

Hoisted == {reads[k].result : k \in DOMAIN reads}

\* LowerSegOpKernelBody: reads are bound to block arguments, thread ids to
\* linalg.index.
Entry(t) ==
    [n \in Names |->
        IF n \in Hoisted THEN Argument(CHOOSE k \in DOMAIN reads : reads[k].result = n, t)
        ELSE IF n \in SpaceIds THEN t[CHOOSE d \in Dim : Gtids[d] = n]
        ELSE IF n \in Outer THEN Scalar[n] ELSE NoVal]

\* The region at some point that is next in a run of the loops.
Enter ==
    /\ status = "run" /\ AtRest
    /\ \E t \in DOMAIN pc :
          /\ pc[t] = 0 /\ Turn(t)
          /\ IF InBounds(t)
             THEN /\ env' = [env EXCEPT ![t] = Entry(t)]
                  /\ pc' = [pc EXCEPT ![t] = 1]
                  /\ UNCHANGED status
             ELSE status' = "undefined" /\ UNCHANGED <<env, pc>>
    /\ UNCHANGED <<program, next, reads, loops, out>>

\* What a statement computes.
Meaning(s, e) ==
    IF s.kind = "index" THEN Content[s.array][[j \in DOMAIN s.args |-> e[s.args[j]]]]
                        ELSE Apply[e[s.args[1]]][e[s.args[2]]]

\* A statement that has not been hoisted.
Execute ==
    /\ status = "run"
    /\ \E t \in DOMAIN pc :
          /\ pc[t] \in 1..Len(stms)
          /\ LET s == stms[pc[t]]
             IN  env' = IF s.name \in Hoisted THEN env
                        ELSE [env EXCEPT ![t][s.name] = Meaning(s, env[t])]
          /\ pc' = [pc EXCEPT ![t] = @ + 1]
    /\ UNCHANGED <<program, next, reads, loops, out, status>>

\* Mutant: the operator gets the accumulator last.
YieldSwapped ==
    /\ status = "run"
    /\ \E t \in DOMAIN pc :
          /\ pc[t] = Len(stms) + 1
          /\ LET x == env[t][yield]
             IN  out' = [out EXCEPT ![Cell(t)] =
                            IF op = "map" THEN x ELSE Operator[x][@]]
          /\ pc' = [pc EXCEPT ![t] = End]
    /\ UNCHANGED <<program, next, reads, loops, env, status>>

\* linalg.yield: of the kernel's result, or of what the operator makes of the
\* accumulator and it.
Yield ==
    /\ status = "run"
    /\ \E t \in DOMAIN pc :
          /\ pc[t] = Len(stms) + 1
          /\ LET x == env[t][yield]
             IN  out' = [out EXCEPT ![Cell(t)] =
                            IF op = "map" THEN x ELSE Operator[@][x]]
          /\ pc' = [pc EXCEPT ![t] = End]
    /\ UNCHANGED <<program, next, reads, loops, env, status>>

\* Mutant: the operation ends with some point that has not been run.
FinishAtRest ==
    /\ status = "run" /\ AtRest
    /\ status' = "done"
    /\ UNCHANGED <<program, next, reads, loops, env, pc, out>>

Finish ==
    /\ status = "run" /\ \A t \in DOMAIN pc : pc[t] = End
    /\ status' = "done"
    /\ UNCHANGED <<program, next, reads, loops, env, pc, out>>

Next == Find \/ LowerGeneric \/ Reject \/ Enter \/ Execute \/ Yield \/ Finish

Spec == Init /\ [][Next]_vars

-----------------------------------------------------------------------------
Scalars == Val \cup {NoVal}
Read == [result : Bound, array : Array, dims : UNION {[1..ArrayRank[a] -> Dim] : a \in Array}]

TypeOK ==
    /\ next \in 1..Len(stms) + 1
    /\ reads \in Seq(Read)
    /\ status \in {"find", "run", "done", "rejected", "undefined"}
    /\ status \in {"run", "done"} =>
          /\ loops \in [Dim -> Extents]
          /\ env \in [Points(loops) -> [Names -> Scalars]]
          /\ pc \in [Points(loops) -> 0..End]
          /\ out \in [Points(OutShape) -> IF status = "done" THEN Val ELSE Scalars]

\* The iteration space of the operation is the SegSpace of the kernel (the
\* comment at the head of LowerSegMap).
IterationSpaceIsSegSpace ==
    status \in {"run", "done", "undefined"} => loops = extent

\* e is what the statements of the kernel, each in its place, compute at t.
Solves(e, t) ==
    /\ \A d \in Dim : e[Gtids[d]] = t[d]
    /\ \A c \in Outer : e[c] = Scalar[c]
    /\ \A k \in DOMAIN stms : e[stms[k].name] = Meaning(stms[k], e)

\* acc is the sequence of accumulators of a reduction along the row of cell c.
Row(c, i) == [d \in Dim |-> IF d = Rank THEN i ELSE c[d]]
Reduces(acc, c) ==
    /\ acc[0] = Neutral
    /\ \A i \in 0..extent[Rank] - 1 : acc[i + 1] = Operator[acc[i]][env[Row(c, i)][yield]]

\* When the operation ends, the kernel has been run at every point of the space,
\* hoisted reads or not, and the output holds its result there, or the
\* reduction of a row from the left.
KernelMeaning ==
    status = "done" =>
        /\ \A t \in Points(extent) : t \in DOMAIN env /\ Solves(env[t], t)
        /\ op = "map" => \A t \in Points(extent) : out[t] = env[t][yield]
        /\ op = "red" => \A c \in Points(OutShape) :
               \E acc \in [0..extent[Rank] -> Val] :
                  Reduces(acc, c) /\ out[c] = acc[extent[Rank]]
=============================================================================
